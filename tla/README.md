# Verification of pqc-cert-matrix

The repository measures what TLS clients make of post-quantum certificates. It
mints certificate chains (classical, ML-DSA, SLH-DSA, catalyst, composite),
runs eleven clients against each of them, publishes a compatibility matrix, and
captures the handshakes to publish what they cost in bytes. The numbers are the
product; so what has to be right about this code is **that a published cell is
about the certificate and the client it names**: measured against the chain of
its row, in this run, by a client that really judged it, with the evidence
beside it, and nothing missing without a trace.

This directory holds TLA+ modules that model the programs which decide that,
TLC configurations that check them on small instances, and proofs, for each of
the seven models, that what is checked on an instance holds on all: for every
number of chains, clients and runs, for certificates of every length, and in
whichever order the programs run and break off.

## 1. The system

```
 gen/mint-corpus.sh   phase0/mint-phase0.sh   phase0/catalyst_build.py
        |  keys, certificates (files, in place)     |
        v                                           v
   gen/corpus/<chain>    phase0/chains/ecdsa    phase0/catalyst
                 \            |                /
                  bundle()  of runners/harness.py        Corpus
                              |
                  results/bundles/<chain>  -----------------+
                              |                             |
          runners/harness.py: s_server on :14433   phase3/transport.py:
             |  argv                  ^            s_server on :14435,
             v                        | TLS        s_client, dumpcap
   runners/<client>/run.sh ----> client program             |
             |  evidence files, JSON cell                   v
             v                                        transport.json
   results.json, MATRIX.md                                  |
                                            report.py, build-calculator-data.py
   gen/corpus --> gen/sizes.py --> sizes.json ---^          Pipeline
   results/bundles --> phase3/compressibility.py --> compression.json
   results/bundles --> isolation/*.sh: bctls on :14434, s_server on :14435
                                                            Isolation
```

| Component | Source | State it keeps | Operations | Module |
|---|---|---|---|---|
| Harness | `runners/harness.py` | loop position, `server`, `proc`, `cells`, `failures`; on disk bundles, evidence, `results.json`, `MATRIX.md`; the servers it spawned | bundle, spawn, probe, call a runner, redact and collect, stop, write, abort | `Harness`, `Cells`, `Survey` |
| Runners | `runners/*/run.sh`, `lib/emit.py`, `CONTRACT.md` | `set -e` or not, the rc of each test, evidence files, docker image | set up, get an image, ask the version, parse, verify, handshake, emit | `Runner`, `RunnerContract` |
| Redaction | `redact`, `redact_tree`, `emit.py` | a client's output on its way to the commit | write, cut, replace | `Redaction` |
| Corpus | `gen/mint-corpus.sh`, `phase0/mint-phase0.sh`, `phase0/catalyst_build.py`, `bundle()` | keys, requests and certificates of each chain, alternative key and signature, bundles | each openssl command of `mint_chain` and `mint_san_ladder`, each file of the build and its two checks, each file of `bundle()` | `Corpus` |
| Transport capture | `phase3/transport.py` | the sweep, one server, one client, one dumpcap, two files a row | each step of `capture_one`, its `finally`, `main()` | `Transport` |
| Client programs | `Client.java`, `client.go`, `client.py`, ... | none | what is checked before ok; exit code and output of a test | `Runner` |
| Sizes, DER | `gen/sizes.py` | `sizes.json`, `SIZES.md` | DER walk of each certificate, wire cost, ladder | `Pipeline` |
| Compressibility | `phase3/compressibility.py` | `compression.json` | read `chain.pem`, best algorithm, split of the saving, the fields alone | `Compression`, `Pipeline` |
| Transport report | `phase3/report.py` | `TRANSPORT.md` | segments, verdict, order, heaviest that fits, headroom | `Pipeline` |
| Calculator data | `tools/build-calculator-data.py` | `calculator-data.json` | averages, growth by SAN, assertions on the framing and the fixed part, output | `Pipeline` |
| Isolation experiments | `isolation/run-isolation.sh`, `trace-rerun.sh`, `bctls-server/` | chain, servers and their logs, summary | start, wait, control, schannel, collect the log, stop | `Isolation` |
| Composite, phase 0 parser | `composite/`, `phase0/go-parse/` | none | single calls | no (section 8) |

How the parts interact: the harness calls a runner with three arguments
(`CONTRACT.md`), reads its exit code and standard output, and finds its
evidence where it told it to put it. The client of a runner reaches the
harness's server only through a fixed port. The bundle is read by all. Nothing
is locked.

**What is hard here.** Each script is sequential, and none has tests. The
hazards are around them: processes that bind a port late, die early or survive
their parent; probes that accept any listener; sleeps in place of
synchronisation; files rewritten in place by programs that may stop half-way;
exit codes that mean two things; eleven hand-made copies of one shell script.
`PROJECT.json` lists them at their lines under `hazards`.

**What correct means, for each part**

- Harness: every pair of the survey is settled once and accounted for; a skip
  has a reason; a handshake was with the server of that chain; an ok has its own
  evidence, and evidence is redacted; the two published files agree; it comes to
  an end.
- Runner: a verdict and an infrastructure failure are kept apart; `ok` was
  earned in this call, by a client that looked at what its API lets it look at;
  `skip` was forced; the contract holds for all eleven.
- Redaction: no part of the path is left, nothing else is hidden.
- Corpus: what is measured is one minting, or the server refuses it; a catalyst
  leaf carries an alternative signature over itself.
- Isolation: a client is judged by a server of its chain, after a control that
  was fair; a line of the server's own log can be attributed to a client; a call
  comes to an end unless the client hangs.
- Transport: a row is measured from its own fresh files with its own server;
  nothing of a row is left for the next; the sweep ends and is published whole.
- Pipeline: the three parts of a certificate are exact; a flight is what comes
  before the client's Finished; the table is right at its boundaries; what the
  calculator publishes reproduces what was measured, or there is no calculator;
  no chain is lost between the files; programs that measure the same thing in
  different ways agree; averages and differences are published with their range.

## 2. Plan and its state

| # | Module | Question | State |
|---|---|---|---|
| 1 | `Cells`, `Survey`, `Harness` | the survey and its servers, over aborted runs | written, checked |
| 2 | `HarnessProofs` | the same for all sizes, and refinement of `Survey` | all theorems proved |
| 3 | `RunnerContract`, `Runner` | eleven scripts, one contract | written, checked |
| 4 | `Transport` | the capture sweep | written, checked |
| 5 | `Redaction` | what is committed | written, checked |
| 6 | `Corpus` | mixtures of mintings | written, checked |
| 7 | `Pipeline` | sizes, flights, the table and the calculator, over stale, partial and torn inputs | written, checked |
| 8 | `Isolation` | a client judged against a server that may not be the script's own; the port shared with `transport.py`; calls that may hang | written, checked |
| 9 | `Compression`, rest of `Pipeline` | compression, records, averages, ladders; three measurements of one chain | written, checked |
| 10 | client checks in `Runner`, alternative signature and ladders in `Corpus` | what an ok is worth; two builds of one leaf | written, checked |
| 11 | `TransportProofs`, `RunnerProofs` | every safety property of the two | proved, with the refinement of `RunnerContract` |
| 12 | `CorpusProofs`, `IsolationProofs` | every safety property of the two | proved |
| 13 | `PipelineProofs` | the same, and the lemmas on DER lengths, sums and flights | proved |
| 14 | `RedactionProofs` | `redact` on every text | proved |
| 15 | `CalculatorProofs` | the calculator's averages and its growth by SAN, for certificates of all lengths | proved |
| 16 | progress, in `HarnessProofs`, `TransportProofs`, `IsolationProofs` | what the liveness properties say without fairness: each step goes forward | proved |

`Harness` composes with `Runner` through `RunnerContract`: `Runner` is shown to
implement it (`KeepsContract`), and `Harness` takes from a runner exactly what
the contract allows (`Cells!HandshakeOutcomes` is the definition both use).

## 3. The modules and the code

The `map` in `PROJECT.json` gives the lines of every definition. Definitions
marked `slip:` are faults put beside the definition they would replace; the
specifications never use them, the project's mutation runs do.

**Harness.** Variables carry the names of `main()`: `server`, `proc`, `cells`,
`failures`; `chain` and `client` are its two loops, `pc` its place. One action
stands for a stretch of `main()` in which nothing else can be observed: `Bundle`
(100-101), `SpawnServer`/`NoServer` (102-108), `ProbeHit`/`ProbeTimeout`
(`wait_port` and 110-115), `RunnerReturns`/`RunnerFails` (121-127),
`CollectCell`/`UnparsableOutput` (128-135), `StopServer`,
`Reaped`/`WaitTimesOut` (137-139), and two actions for each file written, since
`open` empties it before `write` fills it. A runner's evidence is what it
redirects, file by file, over what is there (`LeavesEvidence`): a file of
`Locked` may refuse to be opened, and then the test is not run, its rc is 1 and
an old text stays, while the script still exits 0 (`Redirected`,
`FailWithoutOutput`); the clients of `Echoing` print the paths they were given.
`redact_tree` passes over a file it cannot read (`Unreadable`), which `missed`
remembers. A runner that fails, and a harness that is killed meanwhile, leave
some of the evidence written (`LeavesPart`, `Interrupted`). `procs` is the
operating system's view of every `s_server`: `starting` (spawned, not bound),
`listening`, `closing` (got SIGTERM, still holds the port), `dead`. `Bind` and
`ServerDies` belong to nobody's schedule. `Abort` is an exception or a signal at
any step: `main()` has no `try`, so the server it holds becomes an orphan that
the next invocation (`Start`) meets. Each cell remembers in `by` which server
the client really talked to, which the program cannot know and the properties
are about. Run 0 stands for the files in the checkout.

**Runner.** One call of one of the eleven scripts. `errexit` is `set -e`; a
failing command ends the script where it is on and is a test result where it is
off. `outcome` is what happened, `rc` and `file` are what the script sees of it.
A test whose evidence file does not open is not run (`Unopened`). The scripts
differ in sets (`HostClients`, `PulledImage`, `BuiltImage`, `NoTlsTest`,
`NoVerifyTest`, `StagedBundle`), each read off the scripts. So do the client
programs: `facts` says what is true of the chain (signatures, validity, name),
`VerifyChecks` and `HandshakeChecks` what a client looks at before it says ok
(`WalksSignatures`, `DirectIfSelfSigned`, `NoNameCheck`, `AcceptsAnyCert` are
the clients that look at less than all). A client may always reject more than
that: what a TLS library makes of an encoding is what the repository measures,
and no part of its code.

**Redaction.** A text is a sequence of tokens and the path several of them, so
that truncation (400 characters in `emit.py:24`, 200 in `harness.py:126`) can
go through it. `said` is what `run.sh` has redirected, after the `tr` and the
backfill of `schannel`. Reading and writing a file as text is no identity: bytes
that do not decode are replaced and line ends become newlines (`AsRead`, from the
constants `Reading` and `Replacement`), in `emit.py`, in `redact_tree` and, where
it raises instead, in `subprocess.run` (`Unreadable`). `redact_tree` leaves alone a
file it cannot read, writes only what redaction changes (`Rewritten`), and raises
where it cannot write (`Unwritable`); `access` is which of these the file is. The
tear of an interrupted write is in `Harness`. That no client prints `<repo>` by
itself is an assumption: with it, what is committed can be told from what was said.

**Corpus.** A key is the number of the invocation that made it, a certificate
the pair of its subject's and its issuer's key: that is all `openssl verify` and
`s_server` can tell apart. Every command of `mint_chain` is a step which reads
and writes files of the chain's directory; a command may fail and leave its
output torn. Both minting scripts, the build and the harness may run at the same
time. What keeps a mixture from being measured turns out to be the *order* of
the code and nothing else: keys are generated before any certificate, and
`bundle()` copies `leaf.crt` first and `leaf.key` last; so files of two
generations put a certificate beside a key that is not its own, which `s_server`
refuses. With another order of either the property fails. `chain.pem` is made of
two readings, which are steps of their own (`chain.leaf`, `chain.int`). The
catalogues are constants (`CHAINS`, `MINTED`, `LADDER`), none with a chain
twice. `mint-corpus.sh` goes through its chains a second time for the SAN
ladders, with the keys it has just made (`Rounds`; one rung stands for three).
The build of the catalyst leaf makes it twice (`WriteTbs`, `WriteLeafCert`):
`alt` holds the files of the first and what the second put into the leaf.

**Transport.** `capture_one` step by step with its `finally`, for rows
`<<chain, mode>>`. A `raise` inside `finally` (a `wait` that times out) leaves
the rest of it undone. `transport.json` is emptied (`OpenJson`) and then written
(`WriteJson`); a kill in between leaves it torn, for `Pipeline` to read.

**Pipeline.** The programs that turn certificates and captures into figures, one
action a program (`Bundle`, `Sizes`, `Compress`, `Sweep`, `Report`,
`BuildCalculator`) and `Mint`; they are run by hand, in any order. A certificate
is the lengths of its parts, and its DER lengths are written and read back byte
by byte, since that is where a walk goes wrong; its lengths are those TLS can
carry, below 2^24, and its key is a part of its TBS part (`Certificates`). Of
the order of `report.py`'s rows the model has what the program uses: which of
the chains that fit comes last in a stable sort (`Heaviest`). Sums and byte
strings are recursive functions, so that they can be proved about. `Sweep` is
the result of a run of `Transport` seen from the bytes: a row is an error, or
what `analyze()` makes of a capture that may end early, begin late, lack its
keys or be empty (`Views`). Without keys tshark still finds the ServerHello, and
the lengths of the records are read from all that was captured (`Seen`,
`Captured`). An input a program cannot use makes it raise; `Compress`, `Report`
and `BuildCalculator` say when, and what is left of the output file (the
calculator's is emptied by the shell before the program starts, the others are
opened last). Every file remembers, in `of`, the certificates it is of: the
programs cannot know, and what may be compared with what depends on it. The
module `Compression` has the arithmetic of `compressibility.py`; what a
compressor makes of some data is a constant operator (`Compressed`), of which
nothing is assumed. What the split of the saving adds up to is no property: it
is a subtraction. `structural()` averages over a list of chains, as in the code;
the leaves of the control chain's ladder grow by the names `san_list()` writes
(`SanExtension`, `LadderAssumption`), and their signatures and serial numbers
differ by at most `Spread` bytes.

**Isolation.** Both scripts, which differ in how they know that the server is up
(the word "listening" in the log of the container; any listener in `ss`) and in
who can have the port: docker refuses a second container on 14434, so the call
ends; an `s_server` that cannot bind on 14435 dies and the script goes on.
`servers` has every server of every call, since a killed call leaves its own;
`foreign` is a server of `transport.py`. A client that connects waits in `queue`
(`Joined`) until the server, which is at one connection at a time, has done with
it and prints its line into `log` (`Prints`); powershell may have ended before
that, and `docker logs` reads the log as it is. A container that is gone has no
log (`--rm`, `Ends`). `-naccept 1` makes a trace server take the first that comes
(`Taken`).

**Survey** and **RunnerContract** are the abstract specifications.

## 4. The runs

| Run | Instance | What it shows |
|---|---|---|
| `harness` | 2 chains (one never has a key), 2 clients (one without TLS test), 2 runs, an evidence file that may not open | every pair accounted for, skips explained, evidence clean but where it could not be read, an ok with its own output, matrix follows results, `Survey` implemented |
| `harness_servers` | 2 chains, both served, 1 client, 2 runs, with fairness | a handshake was with this chain's server, nobody's, or that of an earlier aborted run; no server outlives its chain; the harness hangs in a runner or not at all |
| `runner` | all eleven clients, every bundle, server argument and set of facts | every `ok` earned, verdict and exit code apart, the contract kept, with every skip forced |
| `transport` | 3 rows, one without key, 2 runs, with fairness | fresh files, nothing left behind, own server, output whole unless its writing was interrupted, termination |
| `redaction` | every output of up to 4 words, a path being one word of three tokens, one word being bytes that are no text, cuts at 5 and 4 tokens | evidence and failure lines without path; evidence without the path unchanged, and with it changed only to what it reads as |
| `corpus` | one minted chain with its ladder, the phase 0 CA, the catalyst leaf, the harness, 2 invocations after the committed one | mixtures refused, minted chains whole, the catalyst leaf fits its CA and its alternative signature covers it |
| `pipeline` | 2 chains, one with a ladder, 4 program calls, any captures | sizes exact, flights end with Finished, verdicts right at 13,600 and 14,600, headroom negative when a chain fragments, calculator agrees with measurements and prices within its range, no chain lost, three measurements of a chain agree |
| `isolation` | 2 calls of either script, 2 chains, `transport.py` meanwhile, with fairness | schannel judged by no earlier chain's server, a trace of one client, a log with lines of its row's clients alone, in their order, calls end |

Four more runs each check one thing the repository says of itself and the code
does not keep; TLC finds the trace (`findings` quotes both sides):

| Run | Stated | What the code does |
|---|---|---|
| `harness_evidence` | `harness.py:62-66`: redaction at the point of collection covers every runner | a runner that fails skips `redact_tree` |
| `harness_foreign` | `CONTRACT.md:15-16`: a live server presenting this chain | after an aborted run, the aborted run's server answers |
| `runner_infra` | `CONTRACT.md:46-47`: infrastructure failure is a nonzero exit | a test that did not run (docker, go or powershell not starting, an evidence file not opening) is a `fail` of the client |
| `redaction_detail` | `harness.py:60`: strip the path from anything committed | the detail is cut before it is redacted |

One more disagreement is named in a property instead of having a run: an ok
handshake means "established AND validated" (`CONTRACT.md:38-39`), which
`OkIsEarned` states for every client but schannel, whose callback returns
`$true` (`schannel.ps1:62`). And two sentences of the programs are about their
data, not their steps: `report.py:65` prints that no chain fragments whatever it
measured (`ReportIsRight` says what of it a reader can rely on), and
`build-calculator-data.py:4-5` says that nothing is hand-entered while line 101
has seven sizes typed in (`FormulaGivesMeasurement` holds because the assertion
after them compares them with the wire). The committed `sizes.json` has a
catalyst leaf of 5,736 bytes and `compression.json` one of 5,801: files of two
builds, which no program compares; `WireFiguresAgree` is about files of one.

### Bounds, and why they are enough

- *Two runs*: what one run leaves to another (orphans, stale keys, evidence,
  published files) needs a first and a second; a third meets nothing new, since
  it sees the union of what the two before it left.
- *Two chains, two clients*: one of each kind, a first and a last of each loop,
  a chain before and after. `harness_servers` has one client so that both
  chains can be served; a second client only repeats `RunnerReturns` on the
  same server.
- *Three rows*: a served row, a skipped row and a served row after it.
- *Redaction*: four words hold two paths with words around them and cuts inside
  and between; nothing depends on the length beyond that.
- *Corpus*: two invocations beyond the committed files are two concurrent
  writers or one after another; a chain more is a directory more that no step
  relates to the first. The catalyst chain is built but not bundled in this
  instance; `bundle()` copies it by the same steps.
- *Pipeline*: four calls are a re-mint, a bundle and a sweep or a compression
  of it, and one program that consumes the result beside an older file. A
  checkout starts with whole `sizes.json` and `SIZES.md`. Lengths are those of
  the committed files. The variants of `mldsa44` put the flight at 13,600,
  13,601, 14,600 and 14,601 bytes; those of `ecdsa` put a TBS part on both sides
  of 256 bytes, vary the signature as ECDSA does, and make a Certificate message
  longer than a record. `ecdsa` has the ladder, with signatures of 70 to 72 bytes
  (`Spread` is 2; the theorem is for every `Spread` up to 64).
- *Isolation*: two calls (one leaves a server, one meets it, of the same script
  or of the other), two chains (one before and one after).
- `Runner` has no bound: it is finite as it is.

The theorems of section 5 are for every value of these bounds; what is left to
them is the liveness properties.

Deadlock is checked for `Corpus`, whose harness can always be started again. The
other specifications stop where the programs do (after the last modelled run, or
when the script has exited) and their configurations say `CHECK_DEADLOCK FALSE`.

### Fairness

`FairSpec` of `Harness` and of `Transport` has weak fairness of what the script
does by itself and nothing else: a running process that can take its next step
takes it, and a wait with a time limit ends by its success or by its limit. No
fairness is assumed of clients, of servers (they may never bind and never die)
or of dumpcap. `subprocess.run` in `harness.py:121` has no time limit, so
`RunnerReturns` and `RunnerFails` are not in `HarnessStep`, and what holds is
`HangsOnlyInRunner`: each active phase ends, or stays in a runner for ever. The
call of `s_client` in `transport.py:108` has a limit and `SweepEnds` needs no
such exception. The call of tshark (`transport.py:74`) has none: that a program
which reads a file ends is assumed.

`Isolation` has weak fairness of the commands of its scripts, each of which ends:
the loops have 50 rounds, the control has `timeout 20`, `docker` and `ss` answer.
The exception is powershell, which has no time limit: it is only assumed to end
when nobody listens at the other side any more. An `s_server` of
`trace-rerun.sh` ends with its standard input after 300 seconds
(`TraceServerEnds`), so it cannot hold the script for ever, while a container or
a server of `transport.py` can; `CallsEnd` says exactly that.

## 5. What is proved

Every safety and action property of the passing runs is a theorem, and so are
both refinements. Each `*Proofs` module ends with its theorems. They follow from one theorem
`Invariance == Spec => []IInv` of the module, a lemma that says what `IInv`
implies, and temporal logic. None of the properties is inductive: `IInv` is built
in layers, each inductive given the ones before it, and the layers are the
explanation of why the code is right. The assumptions are the named `ASSUME`s of
the modules, which TLC evaluates on every run.

### Harness (`HarnessProofs`)

For all `NChains`, `NClients` positive, `MaxRuns` natural, `Servable`,
`TlsClients`, `Echoing` and `Locked` any subsets (`SizeAssumption`,
`SubsetAssumption`; the catalogue in the source is one such choice).

| Theorem | Property |
|---|---|
| `TypeCorrect` | `TypeOK` |
| `PeersAreOwnOrOrphans` | `ForeignServerIsOrphan` |
| `ServersEndWithTheirChain` | `OneServerPerChain` |
| `PairsAreAccounted` | `EveryPairAccounted` |
| `SkipsAreExplained` | `SkipIsExplained` |
| `CollectedEvidenceIsClean` | `CellsHaveCleanEvidence` |
| `OksAreEvidenced` | `OksHaveEvidence` |
| `MatrixIsNeverAhead` | `MatrixFollowsResults` |
| `HarnessIsASurvey` | `ImplementsSurvey`, that is `Spec => S!Spec` |
| `RunsAdvance` | (the half of `HangsOnlyInRunner` without fairness) |

1. `Control`: at each `pc`, the range of both loops and of the handle (past the
   inner loop the client is `NClients + 1`, at a probe the handle is this
   chain's server). Everything else depends on where the loops are.
2. `Servers`: a server that can still take the port is the handle or an orphan;
   orphans are of earlier runs while a run is active; between chains the old
   handle is of a dead process. This is the reason that `Reaped` must wait, and
   that a probe that timed out must terminate the server it gives up.
3. `Accounts`: the cells and failures are exactly the pairs behind the loops,
   which `SurveyedNextRunner` and `SurveyedNextChain` advance.
4. `Peers`: the report a runner gave and not yet collected is already of an own
   server or an orphan.
5. `Skips`: `server` says whether the probe succeeded; `warned` holds only
   chains the loop has reached.
6. `EvidenceInv`: an ok not yet collected has its `handshake.txt` already, as
   the runner is the only one to write there; the pair the loop is at has no
   cell, so what a runner leaves in its directory disturbs none.
7. `Files`: what is published by this run is published only in the last phase,
   and the matrix after the results.

The refinement maps each action to a step of `Survey` or to a stutter:
`CollectCell` and `RunnerFails` to `Settle`, the file actions to
`RewriteResults` and `RewriteMatrix` (torn, then whole), `Abort` and its kin to
`Abandon`, servers and probes to nothing.

### Runners (`RunnerProofs`)

For each of the eleven clients; the model has no parameters.

| Theorem | Property |
|---|---|
| `TypeCorrect` | `TypeOK` |
| `OksAreEarned` | `OkIsEarned` |
| `VerdictsAreNotExitCodes` | `VerdictIsNotExitCode` |
| `RunnersKeepContract` | `KeepsContract`, that is `Spec => C!Spec` of `RunnerContract` |

`Inputs` and `Types` are what the call was given and the ranges. `Ending` says
that `set -e` is off during the tests and that the cell is printed last.
`Past` says which exit codes a test behind the script can have left: a skip if
and only if the script leaves the test out. `Passed`: an exit code that counts as
zero comes from a test that passed in this call, with everything looked at that
the client looks at. With `CellIsOfTests`, that the printed cell is made of all
three codes, an `ok` is earned; without `Passed` the invariant says nothing of
how the code came about, and that is the property.

### Transport capture (`TransportProofs`)

For all `NRows` positive, `Keyed` any subset of the rows, `MaxRuns` natural
(`TransportAssumption`).

| Theorem | Property |
|---|---|
| `TypeCorrect` | `TypeOK` |
| `MeasuredRowsAreFresh` | `RowsAreFresh` |
| `RowsCleanUp` | `NothingLeftBehind` |
| `PeersAreOwnOrOrphans` | `PeerIsOwnOrOrphan` |
| `SweepsAreWhole` | `SweepIsWhole` |
| `SweepsAdvance` | (the half of `SweepEnds` without fairness) |

`Places` and `VerdictType` are the loop, and what `capture_one` is about to raise
or return. `Servers`: a server that is alive is this row's, inside the `try` or
its `finally`, or an orphan of an earlier run. `Capture`: an old file is gone
before anything new is started and dumpcap is over when its handle is given up.
`Handshakes` and `Results` carry both over to the row that is kept: each row once,
in the order of the sweep. A file that is whole is of rows that were all kept.

### Corpus and bundles (`CorpusProofs`)

For any catalogue of chains without repetitions, any ladders of those, and any
`MaxCalls` (`CorpusAssumption`).

| Theorem | Property |
|---|---|
| `TypeCorrect` | `TypeOK` |
| `MixturesRefused` | `MixtureIsRefused` |
| `MintingsAreWhole` | `MintedIsWhole` |
| `BuiltLeafFits` | `BuiltLeafFitsItsCA` |
| `AltSignatureFits` | `AltSignatureCovers` |

1. `Types`, with where each script is in its rounds.
2. `Progress`: what a script has done is of its own invocation and stays so,
   since no two scripts write one directory (`OwnerFacts`).
3. `Bounded` and `Fresh`: what a script has *not* done. No file of its chains,
   and no copy of one, is of its invocation before it has written it. This is
   what makes the order of the commands count, and it cannot be seen from the
   properties.
4. `Unmixed`: a leaf certificate beside its own key, on disk or in a bundle, is
   beside the chain it was issued under; the copies of a `bundle()` under way
   that have the leaf certificate of a key that is yet to be copied are the files
   on disk as long as the key is.
5. `BuildInv` and `AltInv`: what the build of the catalyst leaf has read and
   written so far, command by command.

### Isolation (`IsolationProofs`)

For all `NChains` positive and `MaxCalls` natural (`IsolationAssumption`).

| Theorem | Property |
|---|---|
| `TypeCorrect` | `TypeOK` |
| `PeersAreNotEarlier` | `PeerIsNotEarlierChain` |
| `TracesAreOfOneClient` | `TraceIsOfOneClient` |
| `LogsAreOfRows` | `LogIsOfRow` |
| `CallsAdvance` | (the half of `CallsEnd` without fairness) |

`Places`, `Lengths` (at most one row a chain). `Ports` says who can have a port:
a container is started where no other has it, the trace server before this one is
dead, a chain not yet reached has no server, and the clients of
`run-isolation.sh` come when its container is ready. From it, `Logs` and
`Meetings`: whom a server has taken and whom a client has met. `Witnessed`: as long
as the container of a chain is there, its log and then its queue are exactly the
clients of the row that met it, as they came (`Lined`); so what is collected is a
beginning of these, and when schannel, the last of them, has passed, at most its
own line is outstanding.

### Pipeline (`PipelineProofs`)

For all chains, ladders, tickets, prices and numbers of calls, for every minting
that certificates of lengths below 2^24 allow (`PipelineAssumption`), and for
compressors of which nothing is assumed.

| Theorem | Property |
|---|---|
| `TypeCorrect` | `TypeOK` |
| `SizesExact` | `SizesAreExact` |
| `FlightIsWhole` | `FlightEndsWithFinished` |
| `ReportRight` | `ReportIsRight` |
| `FiguresAgree` | `WireFiguresAgree` |
| `FormulaRight` | `FormulaGivesMeasurement` |
| `NoChainLost` | `CalculatorLosesNoChain` |

The invariant is one of provenance: each file that is whole is what its program
makes of certificates that were minted, whichever (`CertificatesAre`, `SizesAre`,
`CompressionIs`, `TransportIs`, `ReportIs`, `CalculatorIs`). It has to say that of
every file, since any program may read what any other left. The work is in the
lemmas about what the programs compute:

- `DerFacts`: `ReadLen` of `DerLen(n)` is `n`, for each of the five forms of a
  length, so that the walk lands where it should (`MeasureFacts`);
- `SumsExist`, `SumsType` and `TotalFacts`: the recursive functions behind
  `sum()` and `int.from_bytes` are defined on every list and compute what their
  recursion says; `TotalOfOne` to `TotalOfFive` unfold them;
- `StretchFacts` and `BytesInFacts`: whatever stretch of a handshake is captured,
  a name other than `NewSessionTicket` occurs once, so its bytes are its
  message's; `AnalyzeFacts` adds them up to the flight;
- `SegmentsFacts`, `FitsFacts`, `HeaviestFacts`: the rounded-up quotient at its
  boundaries, and the last of a stable sort as the greatest of a total order;
- `OutputFacts`: a fixed part that is one number, and a framing of 14 for every
  chain with a typed-in size, give back each flight. Without either assertion of
  `build-calculator-data.py` it is false.

### The calculator's averages (`CalculatorProofs`)

For the same, with any list of chains averaged and any ladder that grows by its
names (`LadderAssumption`).

| Theorem | Property |
|---|---|
| `PricesAreInRange` | `StructuralPredicts` |

`TotalBetween` and `RoundedBetween`: a rounded mean of whole numbers is between
the least and the greatest of them, so each averaged certificate is priced to
within the published range (`AveragedPriced`); this needs no more than that a
certificate is longer than its key and signature. For the ladder, `HeaderGrows`
bounds what a longer content adds to the headers around it and `LadderFacts` what
a list of 10, 50 or 150 names adds to a leaf; `LineFacts` then says how far each
growth is from the line through the ends, with `PerSanFacts` for the rounding of
its slope. The allowance of a name (2,200 hundredths of a byte above) is what the
line costs: names get longer with their number, and the line does not know it.
`AveragesInv`, that a completed `calculator-data.json` has the averages of the
certificates it is of, is inductive given the invariant of `PipelineProofs`.

### Redaction (`RedactionProofs`)

For every path, every vocabulary that shares no token with it and does not have
the marker, every number of words and both limits (`RedactionAssumption`).

| Theorem | Property |
|---|---|
| `NoPathIsLeft` | `NoPathLeft` |
| `EvidenceFaithful` | `EvidenceIsFaithful` |

`FlattenFacts` cuts a text at the boundaries of what it is made of;
`RedactedFacts`, from the last boundary back to the first, shows that `Redact`
gives one token for each piece: the path is found where it begins and nowhere
else. Both properties are then facts about a list of such tokens. The invariant
only has to remember what the client said.

### Progress

`RunsAdvance`, `SweepsAdvance` and `CallsAdvance` say of the harness, the capture
script and the isolation scripts that every step of theirs, an exception and a
kill included, ends the run or takes it to a later chain (row), a later client of
the same chain, or a later step of the same round (`StepsLeft`), and that no
other process sets it back. All of these are bounded, so a run has finitely many
steps, however servers, clients and captures behave. A retry added to one of
these loops would break the theorem. What the liveness properties need beyond it
is that a script that can step does (`FairSpec`), and that it always can but in
the places they name; both are statements about `ENABLED`.

### Induction

The library's induction theorems take an operator as parameter and cannot be
used. Where a recursive function on the naturals had to be unfolded without a
bound, the proof is by least counterexample: `LeastNatural`, from the
well-foundedness of `<` on the naturals, gives the first place at which the claim
fails, and the step before it contradicts. This reaches the recursive functions
of `Pipeline`, `Compression` and `Redaction`, and `FlattenSeq`. It does not reach
folds that take an operator, so sums are over lists, with the recursive `Total`.

## 6. What is only model-checked

- The liveness properties `HangsOnlyInRunner`, `SweepEnds` and `CallsEnd`: they
  rest on fairness, and so on `ENABLED`, which the prover does not handle. That a
  run can only go forward is proved (Progress, above).
- The four runs that end in a violation: a counterexample is their whole point.

## 7. Assumptions of the models

- What a TLS library or `openssl` decides is nondeterministic within its
  interface: `s_server` refuses a certificate that is not the key's, `openssl
  x509 -req` a CA certificate that is not the CA key's, and only one process
  listens on a port.
- A file is whole, torn or missing, and is read in one step (`chain.pem` of
  `bundle()` is written from two readings, `compressibility.py` reads it three
  times and the model once).
- A run that raises and one that is killed are the same for the world: locals
  gone, children alive. The exception is the runner a harness was waiting for: a
  signal that ends the harness is taken to end the runner too, which writes no
  evidence under the next run.
- Of `parse.txt` and `verify.txt` the harness model has whether they name the
  path; that an ok of theirs is of this call is in `Runner` (`OkIsEarned`). The
  detail of a fail may be the text an earlier call left in a file that did not
  open.
- A server's line in its log is written some time after the client connected and
  before the next client's; `docker logs` has the lines written so far.

## 8. What is not modelled, and why

- Two harnesses, or two sweeps, at the same time: they would share the port,
  the bundles and the evidence, and nothing in the code or its docs says they
  may.
- A docker image older than its source: it leaves no state the scripts look at.
- A bundle entry other than `leaf.key` that a source no longer has: the copies
  raise.
- The phase 0 chains that no other program reads.
- Of `sizes.py`, the table of certificates, which repeats `sizes.json`; of
  `transport.py`, the messages of the client, the TCP totals and `records.txt`,
  from which nothing is computed, and the rows with compression on, which no
  program reads; of `compressibility.py`, `COMPRESSION.md`, printed from the
  rows of `compression.json`.
- Of `build-calculator-data.py`, the price of SLH-DSA, put together from two
  certificates, and the copy of the compatibility results.
- `chain-info.txt` of the isolation run, and what its server says of a failure.
- `composite/`, `phase0/go-parse/`: single calls into libraries.
