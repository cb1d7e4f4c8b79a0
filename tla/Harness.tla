------------------------------ MODULE Harness ------------------------------
(***************************************************************************)
(* runners/harness.py: one invocation surveys every chain with every       *)
(* runner.  Per chain it normalises a bundle, starts an openssl s_server   *)
(* on a fixed port if the bundle has a key, waits for the port to answer,  *)
(* and calls the runners one after the other; then it stops the server.    *)
(* At the end it rewrites results.json, then MATRIX.md.                    *)
(*                                                                         *)
(* The harness is sequential.  What happens around it is not: the servers  *)
(* it spawned bind the port, and die, when they please; servers an aborted *)
(* run left behind are still there for the next run; a client gives the    *)
(* verdict it gives or returns nonzero; and the harness itself may raise   *)
(* or be killed at any step, because main() has no try/finally.            *)
(***************************************************************************)
EXTENDS Naturals, Cells

CONSTANTS
    NChains,     \* len(CHAINS); a chain is its position in CHAINS
    NClients,    \* len(RUNNERS); a client is its position in RUNNERS
    Servable,    \* the chains whose leaf key is ever kept (all but composite)
    TlsClients,  \* the clients whose runner has a handshake test
    Echoing,     \* the clients that print the paths they were given
    Locked,      \* the evidence files, by pair, that may refuse to be opened
    MaxRuns      \* bound: invocations of the harness

ASSUME SizeAssumption ==
    /\ NChains \in Nat \ {0}
    /\ NClients \in Nat \ {0}
    /\ MaxRuns \in Nat

Chains == 1 .. NChains
Clients == 1 .. NClients
Runs == 1 .. MaxRuns
Pairs == Chains \X Clients

\* parse.txt and verify.txt, and handshake.txt.
EvFiles == {"off", "hs"}

ASSUME SubsetAssumption ==
    /\ Servable \subseteq Chains
    /\ TlsClients \subseteq Clients
    /\ Echoing \subseteq Clients
    /\ Locked \subseteq Pairs \X EvFiles

\* A run spawns at most one server per chain: <<run, chain>> is its process id.
ProcIds == Runs \X Chains
NoProc == <<0, 0>>

VARIABLES
    pc,          \* where main() is
    run,         \* which invocation this is
    chain,       \* the loop variable `name`, NChains + 1 after the loop
    client,      \* the loop variable `rdir`, NClients + 1 after the loop
    server,      \* the local `server`
    proc,        \* the local `proc`, NoProc for None
    out,         \* what the last runner to return 0 reported
    cells,       \* the local `cells`
    failures,    \* the local `failures`, as pairs
    warned,      \* the chains the WARN line was printed for in this run
    missed,      \* history: the files redact_tree passed over in this run
    procs,       \* every s_server: its state in the operating system
    orphans,     \* history: the servers that runs abandoned when they aborted
    bundleKeys,  \* the chains with results/bundles/<chain>/leaf.key
    ev,          \* results/evidence/<chain>/<client>/
    results,     \* results/results.json
    matrix       \* MATRIX.md

loop == <<run, chain, client>>
handle == <<server, proc>>
tally == <<out, cells, failures, warned, missed>>
servers == <<procs, orphans>>
published == <<results, matrix>>
files == <<bundleKeys, ev, published>>
vars == <<pc, loop, handle, tally, servers, files>>

Resting == {"idle", "done", "aborted"}
Active == {"bundle", "serve", "probe", "runner", "collect", "stop", "wait",
           "openjson", "json", "openmatrix", "matrix"}

\* closing: got SIGTERM, runs no more code, the kernel still holds its socket.
ProcStates == {"none", "starting", "listening", "closing", "dead"}
Holding == {p \in ProcIds : procs[p] \in {"listening", "closing"}}
Listening == {p \in ProcIds : procs[p] = "listening"}

Reports == [hs : Statuses, by : ProcIds \cup {NoProc}]
NoReport == [hs |-> "skip", by |-> NoProc]

\* hs: the run that last wrote handshake.txt (0: no such file); raw: the files
\* that name the checkout's path.
Evidence == [hs : 0 .. MaxRuns, raw : SUBSET EvFiles]
NoEvidence == [hs |-> 0, raw |-> {}]

\* `by` is the server the client talked to; the program does not know it.
Cell == [chain : Chains, client : Clients, hs : Statuses,
         by : ProcIds \cup {NoProc}]
PairOf(c) == <<c.chain, c.client>>
PairsOf(cs) == {PairOf(c) : c \in cs}

\* write_matrix: a column for each client that has a cell, a row for each
\* chain, "n/a" where the pair has none.  The cells of a pair are unique.
MarkOf(cs, p) ==
    IF p \in PairsOf(cs) THEN (CHOOSE c \in cs : PairOf(c) = p).hs ELSE "n/a"
MatrixOf(cs) ==
    [p \in Chains \X {c.client : c \in cs} |-> MarkOf(cs, p)]

\* A file that open(.., "w") has emptied and write() has not filled yet.
TornFile(r) == [run |-> r, whole |-> FALSE, data |-> {}]
WholeFile(r, d) == [run |-> r, whole |-> TRUE, data |-> d]

Init ==
    /\ pc = "idle"
    /\ run = 0
    /\ chain = 1 /\ client = 1
    /\ server = NoServerArg /\ proc = NoProc /\ out = NoReport
    /\ cells = {} /\ failures = {} /\ warned = {} /\ missed = {}
    /\ procs = [p \in ProcIds |-> "none"]
    /\ orphans = {}
    /\ bundleKeys = {}
    /\ ev = [p \in Pairs |-> NoEvidence]
    \* Run 0 stands for the files of the checkout: no modelled run wrote them.
    /\ results = WholeFile(0, {})
    /\ matrix = WholeFile(0, MatrixOf({}))
-----------------------------------------------------------------------------
(* The harness. *)

Start ==
    /\ pc \in Resting
    /\ run < MaxRuns
    /\ pc' = "bundle"
    /\ run' = run + 1
    /\ chain' = 1 /\ client' = 1
    /\ server' = NoServerArg /\ proc' = NoProc /\ out' = NoReport
    /\ cells' = {} /\ failures' = {} /\ warned' = {} /\ missed' = {}
    /\ UNCHANGED <<servers, files>>

\* The two assignments at the head of the loop body.
KeepOldServer == server' = server /\ proc' = NoProc    \* slip: one forgotten
ResetServer == server' = NoServerArg /\ proc' = NoProc

\* bundle() copies the certificates and, where the source directory has it,
\* leaf.key.  It never removes a key an earlier run copied.  Whether the
\* source has a key now is up to whoever minted the corpus.
Bundle ==
    /\ pc = "bundle"
    /\ pc' = "serve"
    /\ \E sourceKeys \in SUBSET (Servable \cap {chain}) :
           bundleKeys' = bundleKeys \cup sourceKeys
    /\ ResetServer
    /\ UNCHANGED <<loop, tally, servers, ev, published>>

NoServer ==
    /\ pc = "serve"
    /\ chain \notin bundleKeys
    /\ pc' = "runner"
    /\ UNCHANGED <<loop, handle, tally, servers, files>>

SpawnServer ==
    /\ pc = "serve"
    /\ chain \in bundleKeys
    /\ pc' = "probe"
    /\ proc' = <<run, chain>>
    /\ procs' = [procs EXCEPT ![<<run, chain>>] = "starting"]
    /\ UNCHANGED <<loop, server, tally, orphans, files>>

\* wait_port connects to whoever holds the port.
ProbeHit ==
    /\ pc = "probe"
    /\ Holding # {}
    /\ pc' = "runner"
    /\ server' = "host:port"
    /\ UNCHANGED <<loop, proc, tally, servers, files>>

NotTerminated(p) == procs    \* slip: the handle dropped without terminate()
Terminated(p) ==
    [procs EXCEPT ![p] = CASE @ = "starting"  -> "dead"
                           [] @ = "listening" -> "closing"
                           [] OTHER           -> @]

\* Five seconds without a connection: terminate(), forget the handle, warn.
ProbeTimeout ==
    /\ pc = "probe"
    /\ pc' = "runner"
    /\ procs' = Terminated(proc)
    /\ proc' = NoProc
    /\ warned' = warned \cup {chain}
    /\ UNCHANGED <<loop, server, out, cells, failures, missed, orphans, files>>

\* The next iteration of the inner loop, or its end.
LastRunnerMissed ==    \* slip: off by one
    /\ client' = client + 1
    /\ pc' = IF client < NClients - 1 THEN "runner" ELSE "stop"
RunnersOverrun ==      \* slip: off by one, the other way
    /\ client' = client + 1
    /\ pc' = IF client <= NClients THEN "runner" ELSE "stop"
NextRunner ==
    /\ client' = client + 1
    /\ pc' = IF client < NClients THEN "runner" ELSE "stop"

\* Whom the client reaches when it connects.  Nobody may be listening by now.
Reached == IF Listening = {} THEN {NoProc} ELSE Listening

\* The evidence of the tests run.sh runs, and what of it is rewritten: a
\* redirection into a file that does not open fails, and an old text stays.
Tested ==
    IF server = NoServerArg \/ client \notin TlsClients THEN {"off"} ELSE EvFiles
MayRefuse == {f \in EvFiles : <<<<chain, client>>, f>> \in Locked}
Redirected(tests) == {tests \ refused : refused \in SUBSET MayRefuse}

\* Under set +e a test whose redirection fails is not run and has rc 1.
OkWithoutOutput == {"ok", "fail"}    \* slip: rc of another command
FailWithoutOutput == {"fail"}

Report(written) ==
    IF Tested = {"off"} THEN out' = NoReport
    ELSE IF "hs" \notin written
         THEN \E hs \in FailWithoutOutput : out' = [hs |-> hs, by |-> NoProc]
         ELSE \E hs \in HandshakeOutcomes(server, client \in TlsClients),
                by \in Reached :
                 /\ hs = "ok" => by # NoProc
                 /\ out' = [hs |-> hs, by |-> by]

\* run.sh redirects a client's output over what a file held: `written` are
\* the files it got to, `raw` those with the absolute bundle path in them.
Rewritten(e, written, raw) ==
    [hs  |-> IF "hs" \in written THEN run ELSE e.hs,
     raw |-> raw \cup (e.raw \ written)]
Echoed(written) == IF client \in Echoing THEN SUBSET written ELSE {{}}
LeavesEvidence(written) ==
    \E raw \in Echoed(written) :
        ev' = [ev EXCEPT ![<<chain, client>>] = Rewritten(@, written, raw)]

\* A runner that does not get to its end has run none, some or all of its tests.
LeavesPart ==
    \E tests \in {{}, {"off"}, Tested} :
        \E written \in Redirected(tests) : LeavesEvidence(written)

\* run.sh exits 0, with the evidence of the tests whose output it could
\* redirect.  subprocess.run has no timeout.
RunnerReturns ==
    /\ pc = "runner"
    /\ \E written \in Redirected(Tested) :
           Report(written) /\ LeavesEvidence(written)
    /\ pc' = "collect"
    /\ UNCHANGED <<loop, handle, cells, failures, warned, missed, servers,
                   bundleKeys, published>>

\* run.sh exits nonzero, before or after it wrote some of its evidence: the
\* failure is noted and `continue` skips redact_tree.
RunnerFails ==
    /\ pc = "runner"
    /\ LeavesPart
    /\ failures' = failures \cup {<<chain, client>>}
    /\ NextRunner
    /\ UNCHANGED <<run, chain, handle, out, cells, warned, missed, servers,
                   bundleKeys, published>>

\* redact_tree rewrites each file that names the path; `continue` passes over
\* one that raises OSError when it is read.
NotRedacted(unread) == ev    \* slip: redact_tree not called
Redacted(unread) == [ev EXCEPT ![<<chain, client>>].raw = unread]

Unreadable == SUBSET (ev[<<chain, client>>].raw \cap MayRefuse)

\* redact_tree(ev), then json.loads and the append.
CollectCell ==
    /\ pc = "collect"
    /\ \E unread \in Unreadable :
           /\ ev' = Redacted(unread)
           /\ missed' = missed \cup ({<<chain, client>>} \X unread)
    /\ cells' = cells \cup
         {[chain |-> chain, client |-> client, hs |-> out.hs, by |-> out.by]}
    /\ NextRunner
    /\ UNCHANGED <<run, chain, handle, out, failures, warned, servers,
                   bundleKeys, published>>

\* The next iteration of the outer loop, or its end.
PublishAfterEach ==    \* slip: the two writes indented into the loop
    /\ chain' = chain + 1
    /\ client' = 1
    /\ pc' = "openjson"
MatrixFirst ==         \* slip: write_matrix before results.json
    /\ chain' = chain + 1
    /\ client' = 1
    /\ pc' = IF chain < NChains THEN "bundle" ELSE "openmatrix"
NextChain ==
    /\ chain' = chain + 1
    /\ client' = 1
    /\ pc' = IF chain < NChains THEN "bundle" ELSE "openjson"

NoServerToStop ==
    /\ pc = "stop"
    /\ proc = NoProc
    /\ NextChain
    /\ UNCHANGED <<run, handle, tally, servers, files>>

KeepServerUp ==    \* slip: the server is not stopped after its chain
    /\ pc = "stop"
    /\ proc # NoProc
    /\ NextChain
    /\ UNCHANGED <<run, handle, tally, servers, files>>
StopServer ==
    /\ pc = "stop"
    /\ proc # NoProc
    /\ pc' = "wait"
    /\ procs' = Terminated(proc)
    /\ UNCHANGED <<loop, handle, tally, orphans, files>>

\* proc.wait returns once the server is dead.
Reaped ==
    /\ pc = "wait"
    /\ procs[proc] = "dead"
    /\ NextChain
    /\ UNCHANGED <<run, handle, tally, servers, files>>

OpenResults ==
    /\ pc = "openjson"
    /\ pc' = "json"
    /\ results' = TornFile(run)
    /\ UNCHANGED <<loop, handle, tally, servers, bundleKeys, ev, matrix>>

WriteResults ==
    /\ pc = "json"
    /\ pc' = "openmatrix"
    /\ results' = WholeFile(run, cells)
    /\ UNCHANGED <<loop, handle, tally, servers, bundleKeys, ev, matrix>>

OpenMatrix ==
    /\ pc = "openmatrix"
    /\ pc' = "matrix"
    /\ matrix' = TornFile(run)
    /\ UNCHANGED <<loop, handle, tally, servers, bundleKeys, ev, results>>

WriteMatrix ==
    /\ pc = "matrix"
    /\ pc' = "done"
    /\ matrix' = WholeFile(run, MatrixOf(cells))
    /\ UNCHANGED <<loop, handle, tally, servers, bundleKeys, ev, results>>

\* The process ends by an exception or a signal.  Its locals are gone; a
\* server it has a handle on lives on, with nobody to stop it.
Die ==
    /\ pc' = "aborted"
    /\ orphans' = orphans \cup ({proc} \ {NoProc})
    /\ chain' = 1 /\ client' = 1
    /\ server' = NoServerArg /\ proc' = NoProc /\ out' = NoReport
    /\ cells' = {} /\ failures' = {} /\ warned' = {} /\ missed' = {}
    /\ UNCHANGED <<run, procs>>

\* The runner exits 0 but its stdout is not JSON: json.loads raises, after
\* redact_tree.
UnparsableOutput ==
    /\ pc = "collect"
    /\ \E unread \in Unreadable : ev' = Redacted(unread)
    /\ Die
    /\ UNCHANGED <<bundleKeys, published>>

\* proc.wait raises TimeoutExpired: the server takes five seconds to die.
WaitsForever == FALSE /\ UNCHANGED vars    \* slip: wait() without timeout
WaitTimesOut ==
    /\ pc = "wait"
    /\ procs[proc] # "dead"
    /\ Die
    /\ UNCHANGED files

\* Any other exception (a missing certificate, no openssl, a full disk), or
\* the operator kills the harness: while a runner writes its evidence, or with
\* the evidence redacted in part (write_text of redact_tree raises, too).
Interrupted ==
    CASE pc = "runner"  -> LeavesPart
      [] pc = "collect" -> \E raw \in SUBSET ev[<<chain, client>>].raw :
                               ev' = Redacted(raw)
      [] OTHER          -> ev' = ev

Abort ==
    /\ pc \in Active
    /\ Interrupted
    /\ Die
    /\ UNCHANGED <<bundleKeys, published>>
-----------------------------------------------------------------------------
(* The servers. *)

\* Only one process can listen; the others exit with "address in use".
Bind(p) ==
    /\ procs[p] = "starting"
    /\ procs' = [procs EXCEPT ![p] = IF Holding = {} THEN "listening"
                                                     ELSE "dead"]
    /\ UNCHANGED <<pc, loop, handle, tally, orphans, files>>

\* Of a SIGTERM, a bad key, a crash, or the operator's hand.
ServerDies(p) ==
    /\ procs[p] \in {"starting", "listening", "closing"}
    /\ procs' = [procs EXCEPT ![p] = "dead"]
    /\ UNCHANGED <<pc, loop, handle, tally, orphans, files>>
-----------------------------------------------------------------------------
\* What the harness does by itself, without waiting for a client.
HarnessStep ==
    \/ Bundle \/ NoServer \/ SpawnServer \/ ProbeHit \/ ProbeTimeout
    \/ CollectCell \/ NoServerToStop \/ StopServer \/ Reaped \/ WaitTimesOut
    \/ OpenResults \/ WriteResults \/ OpenMatrix \/ WriteMatrix

Next ==
    \/ Start
    \/ HarnessStep
    \/ RunnerReturns \/ RunnerFails
    \/ UnparsableOutput \/ Abort
    \/ \E p \in ProcIds : Bind(p) \/ ServerDies(p)

Spec == Init /\ [][Next]_vars

\* A process that can take a step takes it: probes and waits are bounded by
\* their timeouts.  Nothing is assumed of clients, nor of servers.
FairSpec == Spec /\ WF_vars(HarnessStep)
-----------------------------------------------------------------------------
(* What the harness keeps right. *)

TypeOK ==
    /\ pc \in Resting \cup Active
    /\ run \in 0 .. MaxRuns
    /\ chain \in 1 .. NChains + 1
    /\ client \in 1 .. NClients + 1
    /\ server \in ServerArgs
    /\ proc \in ProcIds \cup {NoProc}
    /\ out \in Reports
    /\ cells \subseteq Cell
    /\ failures \subseteq Pairs
    /\ warned \subseteq Chains
    /\ missed \subseteq Pairs \X EvFiles
    /\ procs \in [ProcIds -> ProcStates]
    /\ orphans \subseteq ProcIds
    /\ bundleKeys \subseteq Servable
    /\ ev \in [Pairs -> Evidence]
    /\ results.run \in 0 .. run /\ results.data \subseteq Cell
    /\ matrix.run \in 0 .. run

\* The pairs the nested loops of main() have gone through.
Surveyed == {p \in Pairs : p[1] < chain \/ (p[1] = chain /\ p[2] < client)}

Surveying == pc \in Active \cup {"done"}

\* A cell's handshake was with the server this run started for that chain, or
\* with nobody.  The one exception is a server that an earlier run abandoned
\* when it aborted: it still holds the port, and wait_port takes it for ours.
ForeignServerIsOrphan ==
    \A c \in cells :
        \/ c.by \in {NoProc, <<run, c.chain>>}
        \/ c.by \in orphans /\ c.by[1] < run

\* No server outlives its chain: whatever else listens on the port while a
\* chain is surveyed was abandoned by an earlier run.
OneServerPerChain ==
    Surveying =>
        \A p \in Listening : p # proc => p \in orphans /\ p[1] < run

\* Every pair the loops have passed has one cell or is a reported failure,
\* never both and never neither.
EveryPairAccounted ==
    Surveying =>
        /\ PairsOf(cells) \cap failures = {}
        /\ PairsOf(cells) \cup failures = Surveyed
        /\ \A c, d \in cells : PairOf(c) = PairOf(d) => c = d

\* A handshake is tested only where a server was started and answered; where
\* it was skipped, the chain has no key, or a warning was printed, or the
\* client has no handshake test.
SkipIsExplained ==
    \A c \in cells :
        IF c.hs = "skip"
        THEN c.chain \notin bundleKeys \/ c.chain \in warned
               \/ c.client \notin TlsClients
        ELSE c.chain \in bundleKeys \ warned

\* The evidence of a cell names the checkout's path at most where redact_tree
\* could not read it: whatever an earlier run, a runner failure or an abort left
\* in the directory, and whichever files the runner did not rewrite.
CellsHaveCleanEvidence ==
    \A c \in cells : {PairOf(c)} \X ev[PairOf(c)].raw \subseteq missed

\* A handshake that is ok has its output in handshake.txt: of this run while it
\* surveys, and of the run of results.json once it is published there, unless a
\* later run, which has not published yet or has died, wrote its own over it.
OksHaveEvidence ==
    /\ \A c \in cells : c.hs = "ok" => ev[PairOf(c)].hs = run
    /\ \A c \in results.data :
           c.hs = "ok" => ev[PairOf(c)].hs \in results.run .. run

\* MATRIX.md is never of a later run than results.json, and when both are of
\* the same run it is the table of those results.
MatrixFollowsResults ==
    /\ matrix.run <= results.run
    /\ matrix.run = results.run /\ matrix.whole =>
           results.whole /\ matrix.data = MatrixOf(results.data)

\* A harness that runs comes to an end, unless a client never returns:
\* subprocess.run is the only call in main() without a time limit.
HangsOnlyInRunner ==
    [](pc \in Active => <>(pc \in Resting \/ [](pc = "runner")))

(* What the repository says of the harness and the code does not keep. *)

\* harness.py:62-66: redacting "at the point of collection, covers every
\* runner": a finished run leaves no evidence that names the checkout's path.
EvidenceRedacted == pc = "done" => \A p \in Pairs : ev[p].raw = {}

\* CONTRACT.md:15: `server` is a live server that presents the chain under test:
\* no cell of a chain comes from a handshake with the server of another chain.
HandshakeWithOwnChain == \A c \in cells : c.by # NoProc => c.by[2] = c.chain

(* The survey this run carries out, seen without servers and processes. *)
Verdict(p) == IF p \in PairsOf(cells) THEN "cell"
              ELSE IF p \in failures THEN "failed" ELSE "todo"

PublishedPairs == [whole |-> results.whole, pairs |-> PairsOf(results.data)]
MarkedPairs ==
    [whole |-> matrix.whole,
     pairs |-> IF matrix.whole
               THEN {p \in DOMAIN matrix.data : matrix.data[p] # "n/a"}
               ELSE {}]

S == INSTANCE Survey WITH
        surveying <- pc \in Active,
        verdict   <- [p \in Pairs |-> Verdict(p)],
        results   <- PublishedPairs,
        matrix    <- MarkedPairs

\* A run of the harness is a survey: each pair settled once, nothing published
\* before every pair is, the matrix after the results.
ImplementsSurvey == S!Spec
=============================================================================
