---------------------------- MODULE RunnerProofs ----------------------------
(***************************************************************************)
(* What is proved of one call of a run.sh, whichever client it is of,      *)
(* whatever its arguments and the chain, and wherever one of its commands  *)
(* fails: the cell it prints, its exit code, and that with both it keeps   *)
(* to the contract the harness relies on.                                  *)
(***************************************************************************)
EXTENDS Runner, TLAPS

Places == {"setup", "image", "version", "emit", "exited"} \cup Tests

\* What the script was called with.
Inputs ==
    /\ client \in Clients /\ server \in ServerArgs /\ hasInt \in BOOLEAN
    /\ facts \subseteq Facts
    /\ hasInt \/ server = NoServerArg

\* What the script keeps of its tests.
Types ==
    /\ outcome \in [Tests -> Outcomes]
    /\ rc \in [Tests -> {"unset", "zero", "nonzero", "skip"}]
    /\ file \in [Tests -> Files]

Switches == errexit \in BOOLEAN /\ image \in BOOLEAN /\ intGiven \in BOOLEAN

\* The tests run with errexit off; the script prints its cell last, if at all.
Ending ==
    /\ pc \in Places /\ exit \in {"running", "zero", "nonzero"}
    /\ pc = "exited" <=> exit # "running"
    /\ pc \in Tests \cup {"emit"} => errexit = FALSE
    /\ exit # "zero" => cell = NoCell
    /\ VerdictIsNotExitCode

\* The exit codes a test can have left when the script is past it.
Ran(t) == CASE t = "parse"     -> TRUE
            [] t = "verify"    -> client \notin NoVerifyTest
            [] t = "handshake" -> HandshakeTested
Codes(t) == IF Ran(t) THEN {"zero", "nonzero"} ELSE {"skip"}

Past ==
    /\ pc \in {"verify", "handshake", "emit"} => rc["parse"] \in Codes("parse")
    /\ pc \in {"handshake", "emit"} => rc["verify"] \in Codes("verify")
    /\ pc = "emit" => rc["handshake"] \in Codes("handshake")

\* A test whose exit code counts as zero was passed, in this call.
Passed ==
    \A t \in Tests : rc[t] = "zero" =>
        outcome[t] = "accept" /\ file[t] = "text" /\ Checks(t) \subseteq facts

\* The cell is made of the exit codes of all tests.
CellIsOfTests ==
    exit = "zero" => /\ cell = [t \in Tests |-> CellOf(t)]
                     /\ \A t \in Tests : rc[t] \in Codes(t)

IInv == Inputs /\ Types /\ Switches /\ Ending /\ Past /\ Passed /\ CellIsOfTests

-----------------------------------------------------------------------------
\* A script begins with errexit on and no test behind it.
LEMMA InitIInv == Init => IInv
<1> SUFFICES ASSUME Init PROVE IInv
    OBVIOUS
<1> USE DEF Init
<1>1. Inputs
    BY DEF Inputs
<1>2. Types
    <2>1. outcome \in [Tests -> Outcomes]
        BY DEF Outcomes
    <2>2. file \in [Tests -> Files]
        BY DEF Files, Tests
    <2> QED
        BY <2>1, <2>2 DEF Types
<1>3. Switches
    BY DEF Switches
<1>4. Ending /\ Past /\ CellIsOfTests
    BY DEF Ending, Past, CellIsOfTests, Places, Tests, VerdictIsNotExitCode
<1>5. Passed
    BY DEF Passed
<1> QED
    BY <1>1, <1>2, <1>3, <1>4, <1>5 DEF IInv

\* A test that runs: an exit code of zero is the client's, with what it said,
\* where backfill() has looked at the tests without a server.
LEMMA RunTestFacts ==
    ASSUME Inputs, Types, errexit = FALSE, NEW t \in Tests, NEW next,
           RunTest(t, next), t = "handshake" => hasInt
    PROVE  /\ pc' = next
           /\ UNCHANGED <<args, errexit, image, intGiven, ending>>
           /\ outcome' \in [Tests -> Outcomes]
           /\ rc' \in [Tests -> {"unset", "zero", "nonzero", "skip"}]
           /\ file' \in [Tests -> Files]
           /\ \A u \in Tests : u # t => /\ outcome'[u] = outcome[u]
                                        /\ rc'[u] = rc[u] /\ file'[u] = file[u]
           /\ rc'[t] \in {"zero", "nonzero"}
           /\ rc'[t] = "zero" => /\ outcome'[t] = "accept" /\ file'[t] = "text"
                                 /\ Checks(t) \subseteq facts
<1>1. PICK o \in Possible(t) \cup {"unopened"} : \E s \in Seen(t, o) :
          /\ outcome' = [outcome EXCEPT ![t] = o]
          /\ rc' = [rc EXCEPT ![t] = Backfilled(t, s)[1]]
          /\ file' = [file EXCEPT ![t] = Backfilled(t, s)[2]]
    BY DEF RunTest
<1>2. PICK s \in Seen(t, o) :
          /\ outcome' = [outcome EXCEPT ![t] = o]
          /\ rc' = [rc EXCEPT ![t] = Backfilled(t, s)[1]]
          /\ file' = [file EXCEPT ![t] = Backfilled(t, s)[2]]
    BY <1>1
<1>3. /\ o \in {"accept", "reject", "swallowed", "infra", "unopened"}
      /\ o = "accept" => Checks(t) \subseteq facts
      /\ o = "swallowed" => client \in StagedBundle /\ ~hasInt
    BY DEF Possible
<1>4. /\ s[1] \in {"zero", "nonzero"} /\ s[2] \in Files
      /\ s[1] = "zero" => \/ o = "accept" /\ s[2] = "text"
                          \/ o = "swallowed" /\ s[2] = "empty"
    <2>1. CASE o = "accept"
        BY <2>1 DEF Seen, Files
    <2>2. CASE o = "reject"
        BY <2>2 DEF Seen, Files
    <2>3. CASE o = "swallowed"
        BY <2>3 DEF Seen, Files
    <2>4. CASE o = "infra"
        BY <2>4 DEF Seen, Files
    <2>5. CASE o = "unopened"
        <3>1. Unopened(t) \subseteq Files
            BY DEF Unopened, Types, Files
        <3>2. s \in {"nonzero"} \X Unopened(t)
            BY <2>5 DEF Seen
        <3> QED
            BY <3>1, <3>2
    <2> QED
        BY <1>3, <2>1, <2>2, <2>3, <2>4, <2>5
<1>5. /\ Backfilled(t, s)[1] \in {"zero", "nonzero"}
      /\ Backfilled(t, s)[2] \in Files
      /\ Backfilled(t, s)[1] = "zero" => o = "accept" /\ Backfilled(t, s)[2] = "text"
    BY <1>3, <1>4 DEF Backfilled, IsBackfilled, Files
<1>6. pc' = next /\ UNCHANGED <<args, errexit, image, intGiven, ending>>
    BY DEF RunTest
<1>7. /\ outcome' \in [Tests -> Outcomes] /\ outcome'[t] = o
      /\ rc' \in [Tests -> {"unset", "zero", "nonzero", "skip"}]
      /\ rc'[t] = Backfilled(t, s)[1]
      /\ file' \in [Tests -> Files] /\ file'[t] = Backfilled(t, s)[2]
    BY <1>2, <1>3, <1>5 DEF Types, Outcomes, Files
<1>8. \A u \in Tests : u # t => /\ outcome'[u] = outcome[u]
                                /\ rc'[u] = rc[u] /\ file'[u] = file[u]
    BY <1>2 DEF Types
<1> QED
    BY <1>3, <1>5, <1>6, <1>7, <1>8

\* A test past which the script goes, whether it ran or was left out.
LEMMA TestStep ==
    ASSUME IInv, NEW t \in Tests, NEW next, pc = t,
           IF Ran(t) THEN RunTest(t, next) ELSE SkipTest(t, next)
    PROVE  /\ pc' = next /\ UNCHANGED <<args, errexit, image, intGiven, ending>>
           /\ Types' /\ Passed'
           /\ rc'[t] \in Codes(t)
           /\ \A u \in Tests : u # t => rc'[u] = rc[u]
<1> USE DEF IInv
<1>1. errexit = FALSE
    BY DEF Ending
<1>2. CASE Ran(t)
    <2>1. t = "handshake" => hasInt
        BY <1>2 DEF Ran, HandshakeTested, Inputs
    <2>2. RunTest(t, next)
        BY <1>2
    <2>3. /\ pc' = next
          /\ UNCHANGED <<args, errexit, image, intGiven, ending>>
          /\ outcome' \in [Tests -> Outcomes]
          /\ rc' \in [Tests -> {"unset", "zero", "nonzero", "skip"}]
          /\ file' \in [Tests -> Files]
          /\ \A u \in Tests : u # t => /\ outcome'[u] = outcome[u]
                                       /\ rc'[u] = rc[u] /\ file'[u] = file[u]
          /\ rc'[t] \in {"zero", "nonzero"}
          /\ rc'[t] = "zero" => /\ outcome'[t] = "accept" /\ file'[t] = "text"
                                /\ Checks(t) \subseteq facts
        BY <1>1, <2>1, <2>2, RunTestFacts
    <2>4. facts' = facts /\ \A u \in Tests : Checks(u)' = Checks(u)
        BY <2>3 DEF args, Checks, VerifyChecks, HandshakeChecks, SignaturesOnly,
                    Signatures
    <2>5. Passed'
        BY <2>3, <2>4 DEF Passed
    <2> QED
        BY <1>2, <2>3, <2>5 DEF Types, Codes
<1>3. CASE ~Ran(t)
    <2>1. /\ rc' = [rc EXCEPT ![t] = "skip"] /\ pc' = next
          /\ UNCHANGED <<args, errexit, image, intGiven, outcome, file, ending>>
        BY <1>3 DEF SkipTest
    <2>2. /\ rc' \in [Tests -> {"unset", "zero", "nonzero", "skip"}]
          /\ rc'[t] = "skip" /\ \A u \in Tests : u # t => rc'[u] = rc[u]
        BY <2>1 DEF Types
    <2>3. facts' = facts /\ \A u \in Tests : Checks(u)' = Checks(u)
        BY <2>1 DEF args, Checks, VerifyChecks, HandshakeChecks, SignaturesOnly,
                    Signatures
    <2>4. Passed'
        BY <2>1, <2>2, <2>3 DEF Passed
    <2> QED
        BY <1>3, <2>1, <2>2, <2>4 DEF Types, Codes
<1> QED
    BY <1>2, <1>3

\* Every command of the script keeps the invariant.
LEMMA StepIInv == IInv /\ [Next]_vars => IInv'
<1> SUFFICES ASSUME IInv, [Next]_vars PROVE IInv'
    OBVIOUS
<1> USE DEF IInv
\* What the commands around the tests leave alone.
<1>1. ASSUME UNCHANGED args
      PROVE  /\ Inputs'
             /\ UNCHANGED <<client, server, hasInt, facts>>
             /\ \A t \in Tests : Codes(t)' = Codes(t) /\ Checks(t)' = Checks(t)
    BY <1>1
       DEF args, Inputs, Codes, Ran, HandshakeTested, Checks, VerifyChecks,
           HandshakeChecks, SignaturesOnly, Signatures
<1>2. ASSUME UNCHANGED <<args, record>> PROVE Types' /\ Passed'
    BY <1>1, <1>2 DEF record, Types, Passed
\* Up to the tests.
<1>3. ASSUME UNCHANGED <<args, record>>, Switches',
             pc' \notin {"verify", "handshake", "emit"},
             \/ /\ UNCHANGED ending /\ pc \notin Tests \cup {"exited"}
                /\ pc' \in {"image", "version"} \/ (pc' = "parse" /\ errexit' = FALSE)
             \/ ExitNonzero /\ pc \in {"setup", "image", "version", "emit"}
      PROVE  IInv'
    <2>1. Ending'
        BY <1>3 DEF Ending, ExitNonzero, ending, Places, Tests, VerdictIsNotExitCode
    <2>2. exit' # "zero"
        BY <1>3 DEF Ending, ExitNonzero, ending, Tests
    <2>3. Past' /\ CellIsOfTests'
        BY <1>3, <2>2 DEF Past, CellIsOfTests
    <2> QED
        BY <1>1, <1>2, <1>3, <2>1, <2>3
<1>4. CASE Setup
    BY <1>3, <1>4 DEF Setup, Switches, Inputs, ExitNonzero, Tests
<1>5. CASE GetImage
    <2>1. (client \in BuiltImage) \in BOOLEAN
        OBVIOUS
    <2>2. Switches'
        BY <1>5, <2>1, Zenon DEF GetImage, Switches
    <2> QED
        BY <1>3, <1>5, <2>2 DEF GetImage, ExitNonzero, Tests
<1>6. CASE AskVersion
    BY <1>3, <1>6 DEF AskVersion, Switches, ExitNonzero, ClearErrexit, Tests
\* The tests.
<1>7. ASSUME NEW t \in Tests, NEW next \in {"verify", "handshake", "emit"}, pc = t,
             IF Ran(t) THEN RunTest(t, next) ELSE SkipTest(t, next),
             rc'[t] \in Codes(t) => Past'
      PROVE  IInv'
    <2>1. /\ pc' = next /\ UNCHANGED <<args, errexit, image, intGiven, ending>>
          /\ Types' /\ Passed' /\ rc'[t] \in Codes(t)
        BY <1>7, TestStep
    <2>2. Ending' /\ exit' = "running"
        BY <1>7, <2>1 DEF Ending, ending, Places, Tests, VerdictIsNotExitCode
    <2>3. Switches' /\ CellIsOfTests'
        BY <2>1, <2>2 DEF Switches, CellIsOfTests
    <2> QED
        BY <1>1, <1>7, <2>1, <2>2, <2>3
<1>8. CASE Parse
    <2>1. /\ "parse" \in Tests /\ pc = "parse"
          /\ IF Ran("parse") THEN RunTest("parse", "verify")
                             ELSE SkipTest("parse", "verify")
        BY <1>8 DEF Parse, RunTest, Ran, Tests
    <2>2. pc' = "verify" /\ UNCHANGED args
        BY <2>1, TestStep
    <2>3. rc'["parse"] \in Codes("parse") => Past'
        BY <1>1, <2>1, <2>2 DEF Past
    <2> QED
        BY <1>7, <2>1, <2>3
<1>9. CASE Verify
    <2>1. /\ "verify" \in Tests /\ pc = "verify"
          /\ IF Ran("verify") THEN RunTest("verify", "handshake")
                              ELSE SkipTest("verify", "handshake")
        BY <1>9 DEF Verify, RunTest, SkipTest, Ran, Tests
    <2>2. /\ pc' = "handshake" /\ UNCHANGED args
          /\ \A u \in Tests : u # "verify" => rc'[u] = rc[u]
        BY <2>1, TestStep
    <2>3. rc'["verify"] \in Codes("verify") => Past'
        BY <1>1, <2>1, <2>2 DEF Past, Tests
    <2> QED
        BY <1>7, <2>1, <2>3
<1>10. CASE Handshake
    <2>1. /\ "handshake" \in Tests /\ pc = "handshake"
          /\ IF Ran("handshake") THEN RunTest("handshake", "emit")
                                 ELSE SkipTest("handshake", "emit")
        BY <1>10 DEF Handshake, RunTest, SkipTest, Ran, Tests
    <2>2. /\ pc' = "emit" /\ UNCHANGED args
          /\ \A u \in Tests : u # "handshake" => rc'[u] = rc[u]
        BY <2>1, TestStep
    <2>3. rc'["handshake"] \in Codes("handshake") => Past'
        BY <1>1, <2>1, <2>2 DEF Past, Tests
    <2> QED
        BY <1>7, <2>1, <2>3
<1>11. CASE Emit
    <2>1. /\ pc = "emit" /\ UNCHANGED <<args, record>> /\ Switches'
          /\ pc' = "exited"
        BY <1>11 DEF Emit, ExitNonzero, Switches
    <2>2. CASE ExitNonzero
        BY <1>3, <2>1, <2>2
    <2>3. CASE ~ExitNonzero
        <3>1. /\ exit' = "zero" /\ cell' = [t \in Tests |-> CellOf(t)]
            BY <1>11, <2>3 DEF Emit
        <3>2. Ending' /\ Past'
            BY <2>1, <3>1 DEF Ending, Past, Places, Tests, VerdictIsNotExitCode
        <3>3. \A t \in Tests : rc'[t] \in Codes(t)'
            BY <1>1, <2>1 DEF Past, Tests, record
        <3>4. cell' = [t \in Tests |-> CellOf(t)']
            BY <2>1, <3>1 DEF CellOf, record
        <3>5. CellIsOfTests'
            BY <3>3, <3>4 DEF CellIsOfTests
        <3> QED
            BY <1>1, <1>2, <2>1, <3>2, <3>5
    <2> QED
        BY <2>2, <2>3
<1>12. CASE UNCHANGED vars
    <2>1. UNCHANGED <<args, record>> /\ UNCHANGED <<pc, errexit, image, intGiven>>
          /\ UNCHANGED ending
        BY <1>12 DEF vars
    <2>2. Ending' /\ Past' /\ Switches'
        BY <1>1, <2>1
           DEF Ending, ending, Past, record, Switches, VerdictIsNotExitCode, Tests
    <2>3. \A t \in Tests : CellOf(t)' = CellOf(t)
        BY <2>1 DEF CellOf, record
    <2>4. CellIsOfTests'
        BY <1>1, <2>1, <2>3 DEF CellIsOfTests, record, ending
    <2> QED
        BY <1>1, <1>2, <2>1, <2>2, <2>4
<1> QED
    BY <1>4, <1>5, <1>6, <1>8, <1>9, <1>10, <1>11, <1>12 DEF Next

-----------------------------------------------------------------------------
(* The theorems. *)

\* The invariant holds of every state of a call.
THEOREM Invariance == Spec => []IInv
BY InitIInv, StepIInv, PTL DEF Spec

\* The cell of a call always has the three tests, and every variable of the
\* script one of the values it can have.
THEOREM TypeCorrect == Spec => []TypeOK
<1>1. IInv => DOMAIN cell = Tests
    BY DEF IInv, Ending, CellIsOfTests, NoCell
<1>2. IInv => TypeOK
    BY <1>1 DEF IInv, Inputs, Types, Switches, Ending, Places, TypeOK
<1> QED
    BY <1>2, Invariance, PTL

\* The ok of a cell (emit.py) is of a test that ran in this call and passed, and
\* offline of a chain whose every signature is good.
THEOREM OksAreEarned == Spec => []OkIsEarned
<1>1. IInv => OkIsEarned
    <2> SUFFICES ASSUME IInv, NEW t \in Tests, cell[t].status = "ok"
                 PROVE  /\ outcome[t] = "accept" /\ file[t] = "text"
                        /\ (t = "verify" /\ (hasInt \/ SignaturesOnly))
                               => Signatures \subseteq facts
                        /\ (t = "handshake" /\ client \notin AcceptsAnyCert)
                               => Signatures \cup {"in validity"} \subseteq facts
        BY DEF OkIsEarned
    <2>1. exit = "zero" /\ cell[t] = CellOf(t)
        <3>1. exit # "zero" => cell[t].status = "none"
            BY DEF IInv, Ending, NoCell
        <3> QED
            BY <3>1 DEF IInv, CellIsOfTests
    <2>2. rc[t] = "zero"
        <3>1. CellOf(t).status = IF rc[t] = "skip" THEN "skip"
                                 ELSE IF rc[t] = "zero" THEN "ok" ELSE "fail"
            BY DEF CellOf
        <3> QED
            BY <2>1, <3>1
    <2>3. outcome[t] = "accept" /\ file[t] = "text" /\ Checks(t) \subseteq facts
        BY <2>2 DEF IInv, Passed
    <2>4. t = "verify" /\ (hasInt \/ SignaturesOnly) => Signatures \subseteq facts
        BY <2>3 DEF Checks, VerifyChecks, IInv, Inputs
    <2>5. t = "handshake" /\ client \notin AcceptsAnyCert
              => Signatures \cup {"in validity"} \subseteq facts
        BY <2>3 DEF Checks, HandshakeChecks
    <2> QED
        BY <2>3, <2>4, <2>5
<1> QED
    BY <1>1, Invariance, PTL

\* No test ends the script: set +e is on around all three (run.sh), so that a
\* rejected chain is a cell and not a runner that failed.
THEOREM VerdictsAreNotExitCodes == Spec => []VerdictIsNotExitCode
<1>1. IInv => VerdictIsNotExitCode
    BY DEF IInv, Ending
<1> QED
    BY <1>1, Invariance, PTL

-----------------------------------------------------------------------------
(* The contract. *)

\* A call that has not printed shows no status.
LEMMA ContractInit == Init => C!Init
<1> SUFFICES ASSUME Init PROVE C!Init
    OBVIOUS
<1>1. [t \in Tests |-> cell[t].status] = C!NoStatus
    BY DEF Init, NoCell, C!NoStatus, C!Tests, Tests
<1>2. server \in C!ServerArgs
    BY DEF Init, ServerArgs, NoServerArg, C!ServerArgs, C!NoServerArg
<1> QED
    BY <1>1, <1>2 DEF C!Init, Init

\* A cell the contract allows.
LEMMA CellIsLegal ==
    ASSUME NEW s, s = [t \in Tests |-> CellOf(t).status],
           \A t \in Tests : rc[t] \in Codes(t)
    PROVE  s \in [C!Tests -> C!Statuses] /\ C!LegalStatus(s)
<1>1. \A t \in Tests : CellOf(t).status \in IF Ran(t) THEN {"ok", "fail"} ELSE {"skip"}
    BY DEF CellOf, Codes
<1>2. /\ s["parse"] \in {"ok", "fail"}
      /\ s["verify"] \in IF client \notin NoVerifyTest THEN {"ok", "fail"} ELSE {"skip"}
      /\ s["handshake"] \in IF HandshakeTested THEN {"ok", "fail"} ELSE {"skip"}
    BY <1>1 DEF Ran, Tests
<1>3. s \in [C!Tests -> C!Statuses]
    BY <1>1 DEF C!Tests, C!Statuses, Tests
<1>4. C!LegalStatus(s)
    BY <1>2
       DEF C!LegalStatus, C!HandshakeOutcomes, C!NoServerArg, HandshakeTested,
           NoServerArg
<1> QED
    BY <1>3, <1>4

\* A step of the script prints a legal cell, or breaks off, or is not seen.
LEMMA ContractStep == IInv /\ [Next]_vars => [C!Next]_C!vars
<1> SUFFICES ASSUME IInv, [Next]_vars PROVE [C!Next]_C!vars
    OBVIOUS
<1> DEFINE status == [t \in Tests |-> cell[t].status]
<1>1. ASSUME UNCHANGED <<args, exit, cell>> PROVE UNCHANGED C!vars
    BY <1>1 DEF C!vars, args
<1>2. ASSUME UNCHANGED args, ExitNonzero, pc # "exited" PROVE C!Next
    <2>1. exit = "running" /\ exit' = "nonzero" /\ cell' = cell
        BY <1>2 DEF ExitNonzero, IInv, Ending
    <2> QED
        BY <1>2, <2>1 DEF C!Next, C!Break, args
<1>3. CASE Emit
    <2>1. pc = "emit" /\ UNCHANGED <<args, record>>
        BY <1>3 DEF Emit
    <2>2. CASE ExitNonzero
        BY <1>2, <2>1, <2>2
    <2>3. CASE ~ExitNonzero
        <3>1. /\ exit = "running" /\ exit' = "zero"
              /\ cell' = [t \in Tests |-> CellOf(t)]
            BY <1>3, <2>1, <2>3 DEF Emit, IInv, Ending
        <3>2. \A t \in Tests : rc[t] \in Codes(t)
            BY <2>1 DEF IInv, Past, Tests
        <3>3. status' = [t \in Tests |-> CellOf(t).status]
            BY <3>1
        <3>4. status' \in [C!Tests -> C!Statuses] /\ C!LegalStatus(status')
            BY <3>2, <3>3, CellIsLegal
        <3> QED
            BY <2>1, <3>1, <3>4 DEF C!Next, C!Report, args
    <2> QED
        BY <2>2, <2>3
<1>4. CASE Setup \/ GetImage \/ AskVersion
    BY <1>1, <1>2, <1>4 DEF Setup, GetImage, AskVersion, ending
<1>5. CASE Parse \/ Verify \/ Handshake
    <2>1. PICK t \in Tests, next \in {"verify", "handshake", "emit"} :
              pc = t /\ IF Ran(t) THEN RunTest(t, next) ELSE SkipTest(t, next)
        BY <1>5 DEF Parse, Verify, Handshake, RunTest, SkipTest, Ran, Tests
    <2>2. UNCHANGED <<args, ending>>
        BY <2>1, TestStep
    <2> QED
        BY <1>1, <2>2 DEF ending
<1>6. CASE UNCHANGED vars
    BY <1>1, <1>6 DEF vars, ending
<1> QED
    BY <1>3, <1>4, <1>5, <1>6 DEF Next

\* All eleven scripts are what the harness takes a runner for: the call ends
\* with one legal cell and exit code 0, or with another code and no cell.
THEOREM RunnersKeepContract == Spec => KeepsContract
BY ContractInit, ContractStep, Invariance, PTL DEF Spec, KeepsContract, C!Spec
=============================================================================
