------------------------------- MODULE Runner -------------------------------
(***************************************************************************)
(* One call of runners/<client>/run.sh.  The eleven scripts have one       *)
(* shape: under `set -e` find the arguments, get an image, ask the client  *)
(* its version; under `set +e` run the tests, each with its output         *)
(* redirected into the evidence directory; under `set -e` again, print the *)
(* cell with lib/emit.py.  They differ in what a client can do, which is   *)
(* what the sets below say.                                                *)
(*                                                                         *)
(* `outcome` is what really happened in a test; the script sees only the   *)
(* exit code and the output.                                               *)
(***************************************************************************)
EXTENDS Cells

HostClients == {"go", "openssl-3.5", "schannel"}
PulledImage == {"java-21", "node", "python"}
BuiltImage == {"bouncycastle", "dotnet-8", "gnutls", "openssl-3.0", "rustls"}
Clients == HostClients \cup PulledImage \cup BuiltImage

NoTlsTest == {"bouncycastle"}
NoVerifyTest == {"python"}
StagedBundle == {"schannel"}     \* copied to Windows, with backfill()

\* What the client programs check, where they differ from full validation.
WalksSignatures == {"node"}               \* no path validation in its API
DirectIfSelfSigned == {"bouncycastle"}    \* PKIX refuses an empty path
NoNameCheck == {"openssl-3.0", "openssl-3.5"}
AcceptsAnyCert == {"schannel"}            \* its callback returns $true

Tests == {"parse", "verify", "handshake"}

VARIABLES
    client,     \* which run.sh
    server,     \* the second argument
    hasInt,     \* the bundle has int.crt (no: the self-signed composite)
    facts,      \* what is true of the chain, as far as the client can tell
    pc,         \* the next step of the script, "exited" at its end
    errexit,    \* set -e is on
    image,      \* docker has the client's own image
    intGiven,   \* the verify test is given the intermediate
    outcome,    \* what happened in each test
    rc,         \* PARSE_RC, VERIFY_RC, HS_RC: "zero", "nonzero" or "skip"
    file,       \* parse.txt, verify.txt, handshake.txt
    exit,       \* the exit code of the script
    failedAt,   \* history: the step a nonzero exit came from
    cell        \* the tests of the JSON object printed, by status and detail

args == <<client, server, hasInt, facts>>
record == <<outcome, rc, file>>
ending == <<exit, failedAt, cell>>
vars == <<args, pc, errexit, image, intGiven, record, ending>>

\* none: not written yet; old: left by an earlier call.
Files == {"none", "old", "empty", "text"}
\* swallowed: the client rejected, its host lost both message and exit code;
\* infra: the client never judged the certificates (docker or powershell
\* failed, it was killed, it was not given the whole chain);
\* unopened: the redirection into its file failed, and it was not run at all.
Outcomes == {"none", "accept", "reject", "swallowed", "infra", "unopened"}

\* Signatures are the issuer's, by an algorithm the client has; the chain is
\* in its validity; the leaf is for the host in `server`.
Facts == {"leaf signature", "int signature", "in validity", "name"}

NoCell == [t \in Tests |-> [status |-> "none", detail |-> "none"]]

Init ==
    /\ client \in Clients
    /\ server \in ServerArgs
    /\ hasInt \in BOOLEAN
    /\ facts \in SUBSET Facts
    /\ hasInt \/ server = NoServerArg    \* composite has no key, so no server
    /\ pc = "setup"
    /\ errexit = TRUE
    /\ image \in (IF client \in BuiltImage THEN BOOLEAN ELSE {FALSE})
    /\ intGiven = FALSE
    /\ outcome = [t \in Tests |-> "none"]
    /\ rc = [t \in Tests |-> "unset"]
    /\ \E offline, hs \in {"none", "old"} :
           file = [parse |-> offline, verify |-> offline, handshake |-> hs]
    /\ exit = "running"
    /\ failedAt = "none"
    /\ cell = NoCell

\* A command of the script fails where errexit is on.
ExitNonzero ==
    /\ pc' = "exited"
    /\ exit' = "nonzero"
    /\ failedAt' = pc
    /\ UNCHANGED cell

\* cd, mkdir -p, INT; for schannel also staging.  `[ -f int.crt ] && cp .. &&
\* WIN_INT=.. || WIN_INT=-`: a failed copy of the intermediate is no error.
Setup ==
    /\ pc = "setup"
    /\ \/ /\ pc' = "image"
          /\ intGiven' \in IF client \in StagedBundle THEN {hasInt, FALSE}
                                                      ELSE {hasInt}
          /\ UNCHANGED ending
       \/ /\ ExitNonzero
          /\ UNCHANGED intGiven
    /\ UNCHANGED <<args, errexit, image, record>>

\* docker image inspect || docker build.
GetImage ==
    /\ pc = "image"
    /\ \/ /\ pc' = "version"
          /\ image' = (client \in BuiltImage)
          /\ UNCHANGED ending
       \/ /\ client \in BuiltImage /\ ~image
          /\ ExitNonzero
          /\ UNCHANGED image
    /\ UNCHANGED <<args, errexit, intGiven, record>>

\* VER="$(..)" fails with the client: a stock image docker cannot pull, say.
KeepErrexit == errexit' = errexit    \* slip: no set +e before the tests
ClearErrexit == errexit' = FALSE
AskVersion ==
    /\ pc = "version"
    /\ \/ /\ pc' = "parse"
          /\ ClearErrexit
          /\ UNCHANGED ending
       \/ /\ ExitNonzero
          /\ UNCHANGED errexit
    /\ UNCHANGED <<args, image, intGiven, record>>

(* The client programs. *)

Signatures ==
    IF hasInt THEN {"leaf signature", "int signature"} ELSE {"leaf signature"}

\* Without an intermediate the leaf is the trust anchor, whose own signature a
\* path validation need not look at.
SignaturesOnly ==
    client \in WalksSignatures \/ (client \in DirectIfSelfSigned /\ ~hasInt)

LeafOnly == {"leaf signature"}    \* slip: the walk stops after the leaf
VerifyChecks ==
    CASE SignaturesOnly -> Signatures
      [] ~SignaturesOnly /\ hasInt  -> Signatures \cup {"in validity"}
      [] ~SignaturesOnly /\ ~hasInt -> {"in validity"}

HandshakeChecks ==
    CASE client \in AcceptsAnyCert -> {}
      [] client \in NoNameCheck    -> Signatures \cup {"in validity"}
      [] OTHER                     -> Signatures \cup {"in validity", "name"}

Checks(t) == CASE t = "parse"     -> {}
               [] t = "verify"    -> VerifyChecks
               [] t = "handshake" -> HandshakeChecks

\* What can happen in a test.  A client may also reject what passes its checks
\* (an encoding it cannot parse, a policy of its library).  Powershell's -File
\* host swallows the exception of a self-signed certificate.
Possible(t) ==
    IF t = "verify" /\ hasInt /\ ~intGiven THEN {"infra"}
    ELSE {"reject", "infra"}
           \cup (IF Checks(t) \subseteq facts THEN {"accept"} ELSE {})
           \cup (IF client \in StagedBundle /\ ~hasInt
                 THEN {"swallowed"} ELSE {})

\* A file that does not open keeps what it holds.  backfill() finds the one of
\* an earlier call, or none, which it may get to write.
Unopened(t) ==
    IF client \in StagedBundle /\ t # "handshake" /\ file[t] = "none"
    THEN {"none", "text"} ELSE {file[t]}

\* Exit code and output of a test, by what happened in it.
Seen(t, o) ==
    CASE o = "accept"    -> {<<"zero", "text">>}
      [] o = "reject"    -> {<<"nonzero", "text">>}
      [] o = "swallowed" -> {<<"zero", "empty">>}
      [] o = "infra"     -> {<<"nonzero", "text">>, <<"nonzero", "empty">>}
      [] o = "unopened"  -> {"nonzero"} \X Unopened(t)

\* backfill() of schannel/run.sh: an empty file gets a text and a failed rc.
\* The handshake is not passed through it.
IsBackfilled(t, seen) ==
    client \in StagedBundle /\ t # "handshake" /\ seen[2] = "empty"
TextIntoRc(t, seen) ==       \* slip: the text echoed to stdout, not the file
    IF IsBackfilled(t, seen) THEN <<"text", "empty">> ELSE seen
Backfilled(t, seen) ==
    IF IsBackfilled(t, seen) THEN <<"nonzero", "text">> ELSE seen

\* The outcome, exit code and evidence of test t; the next step.
RunTest(t, next) ==
    /\ pc = t
    /\ \E o \in Possible(t) \cup {"unopened"} : \E seen \in Seen(t, o) :
           /\ outcome' = [outcome EXCEPT ![t] = o]
           /\ rc' = [rc EXCEPT ![t] = Backfilled(t, seen)[1]]
           /\ file' = [file EXCEPT ![t] = Backfilled(t, seen)[2]]
           /\ IF errexit /\ seen[1] # "zero"
              THEN ExitNonzero
              ELSE pc' = next /\ UNCHANGED ending
    /\ UNCHANGED <<args, errexit, image, intGiven>>

SkipTest(t, next) ==
    /\ pc = t
    /\ rc' = [rc EXCEPT ![t] = "skip"]
    /\ pc' = next
    /\ UNCHANGED <<args, errexit, image, intGiven, outcome, file, ending>>

Parse == RunTest("parse", "verify")

Verify ==
    IF client \in NoVerifyTest
    THEN SkipTest("verify", "handshake")
    ELSE RunTest("verify", "handshake")

AlwaysTested == TRUE    \* slip: the test runs without a server
HandshakeTested == server # NoServerArg /\ client \notin NoTlsTest
Handshake ==
    IF HandshakeTested
    THEN RunTest("handshake", "emit")
    ELSE SkipTest("handshake", "emit")

\* emit.py's cell(): the skip reason, or the last lines of the file, which may
\* be missing or empty.
CellOf(t) ==
    IF rc[t] = "skip" THEN [status |-> "skip", detail |-> "reason"]
    ELSE [status |-> IF rc[t] = "zero" THEN "ok" ELSE "fail",
          detail |-> IF file[t] \in {"old", "text"} THEN "text" ELSE ""]

\* set -e; emit.py is the last command.
Emit ==
    /\ pc = "emit"
    /\ errexit' = TRUE
    /\ \/ /\ pc' = "exited"
          /\ exit' = "zero"
          /\ cell' = [t \in Tests |-> CellOf(t)]
          /\ UNCHANGED failedAt
       \/ ExitNonzero
    /\ UNCHANGED <<args, image, intGiven, record>>

Next ==
    \/ Setup \/ GetImage \/ AskVersion
    \/ Parse \/ Verify \/ Handshake
    \/ Emit

Spec == Init /\ [][Next]_vars
-----------------------------------------------------------------------------
TypeOK ==
    /\ client \in Clients /\ server \in ServerArgs /\ hasInt \in BOOLEAN
    /\ facts \subseteq Facts
    /\ pc \in {"setup", "image", "version", "emit", "exited"} \cup Tests
    /\ errexit \in BOOLEAN /\ image \in BOOLEAN /\ intGiven \in BOOLEAN
    /\ outcome \in [Tests -> Outcomes]
    /\ rc \in [Tests -> {"unset", "zero", "nonzero", "skip"}]
    /\ file \in [Tests -> Files]
    /\ exit \in {"running", "zero", "nonzero"}
    /\ DOMAIN cell = Tests

\* An ok is earned in this very call: the client judged the certificates, its
\* host did not lose the exception, the evidence is not an earlier call's.  An
\* offline ok means that every signature up to the root is good, whatever the
\* client's API makes of a chain (of the self-signed one, for the two clients
\* that look); an ok handshake, that the chain is valid, except for schannel,
\* whose callback accepts all.
OkIsEarned ==
    \A t \in Tests : cell[t].status = "ok" =>
        /\ outcome[t] = "accept" /\ file[t] = "text"
        /\ (t = "verify" /\ (hasInt \/ SignaturesOnly))
               => Signatures \subseteq facts
        /\ (t = "handshake" /\ client \notin AcceptsAnyCert)
               => Signatures \cup {"in validity"} \subseteq facts

\* A verdict never makes the script exit nonzero, which would hide the cell:
\* only the steps before the tests and emit.py do.
VerdictIsNotExitCode ==
    exit = "nonzero" => failedAt \in {"setup", "image", "version", "emit"}

\* A call of a runner is what the harness expects of it, for all eleven scripts:
\* one cell or a nonzero exit, and a test is skipped exactly where the client or
\* the harness leaves it no choice.
C == INSTANCE RunnerContract WITH
        offline <- client \notin NoVerifyTest,
        tls    <- client \notin NoTlsTest,
        status <- [t \in Tests |-> cell[t].status]

KeepsContract == C!Spec

\* CONTRACT.md:45-47: infrastructure failure is a nonzero exit and no cell; a
\* cell says fail only because the client rejected.
FailIsVerdict ==
    \A t \in Tests : cell[t].status = "fail" =>
        outcome[t] \in {"reject", "swallowed"}
=============================================================================
