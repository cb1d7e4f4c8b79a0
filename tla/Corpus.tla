------------------------------- MODULE Corpus -------------------------------
(***************************************************************************)
(* From keys to bundles: gen/mint-corpus.sh and phase0/mint-phase0.sh mint *)
(* chains (mint_chain), phase0/catalyst_build.py signs the catalyst leaf   *)
(* with the phase 0 ECDSA CA, and bundle() of runners/harness.py copies a  *)
(* chain to where every measurement reads it.                              *)
(*                                                                         *)
(* They overwrite in place, file by file, and any of it may fail, so a     *)
(* directory can hold files of two mintings, and a bundle those of two     *)
(* directories.  Nobody compares them: what stands between such a mixture  *)
(* and a measurement is the order in which the files are written, because  *)
(* openssl s_server refuses a certificate that is not its key's.           *)
(*                                                                         *)
(* A key is the invocation that generated it, a certificate its subject's  *)
(* key and its issuer's.  Nothing keeps two of the scripts from running at *)
(* the same time; each of them is taken to run at most once at a time.     *)
(***************************************************************************)
EXTENDS Integers, Sequences

CONSTANTS
    CHAINS,      \* what the harness surveys, without the keyless composite
    MINTED,      \* the chains mint-corpus.sh mints, in its order
    LADDER,      \* the chains it makes a SAN ladder for
    MaxCalls     \* bound: invocations of minting scripts, with the build

ECDSA == "phase0/ecdsa"    \* of the chains of mint-phase0.sh, the one used
Catalyst == "catalyst"
Elements(s) == {s[i] : i \in 1 .. Len(s)}
Names == Elements(CHAINS)
Dirs == Names \cup {ECDSA, Catalyst}

Scripts == {"mint-corpus.sh", "mint-phase0.sh"}
ChainsOf(s) == IF s = "mint-corpus.sh" THEN MINTED ELSE <<ECDSA>>
\* The chains a script goes through, first to mint them, then for the ladders.
Rounds(s) == ChainsOf(s) \o IF s = "mint-corpus.sh" THEN LADDER ELSE <<>>

NoRepetition(s) == \A i, j \in 1 .. Len(s) : s[i] = s[j] => i = j

ASSUME CorpusAssumption ==
    /\ CHAINS \in Seq(STRING) /\ NoRepetition(CHAINS)
    /\ ECDSA \notin Names
    /\ MINTED \in Seq(STRING) /\ NoRepetition(MINTED)
    /\ MINTED # <<>> /\ Elements(MINTED) = Names \ {Catalyst}
    /\ LADDER \in Seq(STRING) /\ Elements(LADDER) \subseteq Elements(MINTED)
    /\ MaxCalls \in Nat

\* A file is missing, torn by a failed command, or of an invocation; 1 is the
\* one the committed certificates are of.
None == 0
Torn == -1
Calls == 1 .. MaxCalls + 1
Gens == Calls \cup {None, Torn}
Cert(subject, issuer) == [subject |-> subject, issuer |-> issuer]
Certs == [subject : Gens, issuer : Gens]
TornCert == Cert(Torn, Torn)
IsWhole(c) == c.subject \in Calls /\ c.issuer \in Calls

NewKeys == {"root.key", "int.key", "leaf.key"}
Requests == {"int.csr", "leaf.csr", "san.csr"}
KeyFiles == NewKeys \cup Requests
CertFiles == {"root.crt", "int.crt", "leaf.crt", "san.crt"}
\* chain.pem is its two certificates, each as it was when it was read.
BundleFiles ==
    {"root.crt", "int.crt", "leaf.crt", "chain.leaf", "chain.int", "leaf.key"}
\* san.csr and san.crt stand for the three rungs of a ladder.
IsOf(f, d) == f \in {"san.csr", "san.crt"} => d \in Elements(LADDER)

\* What the alternative signature covers: all of a leaf but the signature.  The
\* program builds it twice, with the same constants.
SerialEachTime(time) == time    \* slip: random_serial_number()
Serial(time) == 0
Tbs(call, time) == <<call, Serial(time)>>
TornTbs == <<Torn, 0>>
TornSig == [by |-> Torn, over |-> TornTbs]

VARIABLES
    calls,    \* invocations of minting scripts so far
    keys,     \* keys[d][f]: the keys and requests of a chain directory
    crts,     \* crts[d][f]: its certificates
    mint,     \* the two minting scripts: command, invocation, chain
    build,    \* catalyst_build.py: step, invocation, CA key in memory
    alt,      \* its alternative key, TBS and signature, and the leaf's copies
    copy,     \* the harness: the next file bundle() copies, and the chain
    bundles,  \* results/bundles/<name>
    copied    \* history: bundle(name) ran to its end

minting == <<calls, keys, crts>>
catalyst == <<build, alt>>
bundling == <<copy, bundles, copied>>
vars == <<minting, mint, catalyst, bundling>>

Resting == {"idle", "done", "failed"}

\* The checkout: certificates and requests are committed, keys exist only
\* where they were minted.
Init ==
    /\ calls = 1
    /\ crts = [d \in Dirs |-> [f \in CertFiles |-> Cert(1, 1)]]
    /\ \E key \in {None, 1} :
           /\ keys = [d \in Dirs |->
                         [f \in KeyFiles |-> IF f \in Requests THEN 1 ELSE key]]
           /\ bundles = [b \in Names |->
                            [f \in BundleFiles |->
                                IF f = "leaf.key" THEN key
                                ELSE Cert(1, 1)]]
    /\ mint = [s \in Scripts |-> [pc |-> "idle", call |-> 1, at |-> 1]]
    /\ build = [pc |-> "idle", call |-> 1, ca |-> None]
    /\ alt = LET tbs == Tbs(1, 1)  sig == [by |-> 1, over |-> tbs]
             IN [key |-> keys[Catalyst]["leaf.key"], tbs |-> tbs, sig |-> sig,
                 leaf |-> [sapki |-> 1, tbs |-> tbs, sig |-> sig]]
    /\ copy = [pc |-> "idle", at |-> 1]
    /\ copied = [b \in Names |-> TRUE]

\* The element of a sequence without repetitions that follows x.
Following(s, x) ==
    s[1 + CHOOSE i \in 1 .. Len(s) - 1 : s[i] = x]

Verifies(root, int, leaf) ==
    /\ IsWhole(root) /\ IsWhole(int) /\ IsWhole(leaf)
    /\ root.issuer = root.subject
    /\ int.issuer = root.subject
    /\ leaf.issuer = int.subject
-----------------------------------------------------------------------------
(* mint_chain: openssl commands under set -e, each with one output file.   *)

KeyNextToRequest ==    \* slip: each key generated where it is first used
    <<"root.key", "root.crt", "int.key", "int.csr", "int.crt", "leaf.key",
      "leaf.csr", "leaf.crt", "verify">>
Commands ==
    <<"root.key", "int.key", "leaf.key", "root.crt", "int.csr", "int.crt",
      "leaf.csr", "leaf.crt", "verify">>

LadderCommands == <<"san.csr", "san.crt", "san.verify">>
Checks == {"verify", "san.verify"}

ChainOf(s) == Rounds(s)[mint[s].at]
FirstCommand(s, at) ==
    IF at <= Len(ChainsOf(s)) THEN Commands[1] ELSE LadderCommands[1]

StartMint(s) ==
    /\ mint[s].pc \in Resting /\ calls <= MaxCalls
    /\ calls' = calls + 1
    /\ mint' = [mint EXCEPT ![s] =
                   [pc |-> Commands[1], call |-> calls + 1, at |-> 1]]
    /\ UNCHANGED <<keys, crts, catalyst, bundling>>

NextCommand(s) ==
    /\ mint' = [mint EXCEPT ![s].pc = Following(Commands \o LadderCommands, @)]
    /\ UNCHANGED <<calls, catalyst, bundling>>

GenKey(s) ==
    /\ mint[s].pc \in NewKeys
    /\ keys' = [keys EXCEPT ![ChainOf(s)][mint[s].pc] = mint[s].call]
    /\ NextCommand(s)
    /\ UNCHANGED crts

SelfSign(s) ==
    LET key == keys[ChainOf(s)]["root.key"]
    IN /\ mint[s].pc = "root.crt"
       /\ key \in Calls
       /\ crts' = [crts EXCEPT ![ChainOf(s)]["root.crt"] = Cert(key, key)]
       /\ NextCommand(s)
       /\ UNCHANGED keys

Request(s, key, csr) ==
    /\ mint[s].pc = csr
    /\ keys[ChainOf(s)][key] \in Calls
    /\ keys' = [keys EXCEPT ![ChainOf(s)][csr] = keys[ChainOf(s)][key]]
    /\ NextCommand(s)
    /\ UNCHANGED crts

\* openssl x509 -req: the CA certificate must be the CA key's.
Issue(s, csr, caKey, caCrt, crt) ==
    LET k == keys[ChainOf(s)] c == crts[ChainOf(s)]
    IN /\ mint[s].pc = crt
       /\ k[csr] \in Calls
       /\ IsWhole(c[caCrt]) /\ c[caCrt].subject = k[caKey]
       /\ crts' = [crts EXCEPT ![ChainOf(s)][crt] = Cert(k[csr], k[caKey])]
       /\ NextCommand(s)
       /\ UNCHANGED keys

\* openssl verify; then the next mint_chain or mint_san_ladder, or the end.
LastChainTwice(s) ==    \* slip: off by one
    mint[s].at <= Len(Rounds(s))
HasNextChain(s) == mint[s].at < Len(Rounds(s))
VerifyChain(s) ==
    LET c == crts[ChainOf(s)]
        leaf == IF mint[s].pc = "verify" THEN "leaf.crt" ELSE "san.crt"
    IN /\ mint[s].pc \in Checks
       /\ Verifies(c["root.crt"], c["int.crt"], c[leaf])
       /\ mint' = [mint EXCEPT ![s] =
                     IF HasNextChain(s)
                     THEN [pc |-> FirstCommand(s, mint[s].at + 1),
                           call |-> mint[s].call, at |-> mint[s].at + 1]
                     ELSE [@ EXCEPT !.pc = "done"]]
       /\ UNCHANGED <<minting, catalyst, bundling>>

\* The command fails, or the script is killed in it; what it was writing is
\* as it was, or torn.
Spoiled(s) ==
    LET d == ChainOf(s) f == mint[s].pc
    IN \/ UNCHANGED <<keys, crts>>
       \/ /\ f \in KeyFiles
          /\ keys' = [keys EXCEPT ![d][f] = Torn] /\ UNCHANGED crts
       \/ /\ f \in CertFiles
          /\ crts' = [crts EXCEPT ![d][f] = TornCert] /\ UNCHANGED keys
NoErrexit(s) ==    \* slip: no set -e
    /\ mint[s].pc \notin Resting \cup Checks
    /\ NextCommand(s)
    /\ Spoiled(s)
CommandFails(s) ==
    /\ mint[s].pc \notin Resting
    /\ mint' = [mint EXCEPT ![s].pc = "failed"]
    /\ Spoiled(s)
    /\ UNCHANGED <<calls, catalyst, bundling>>

Minting(s) ==
    \/ StartMint(s) \/ GenKey(s) \/ SelfSign(s)
    \/ Request(s, "int.key", "int.csr")
    \/ Issue(s, "int.csr", "root.key", "root.crt", "int.crt")
    \/ Request(s, "leaf.key", "leaf.csr")
    \/ Issue(s, "leaf.csr", "int.key", "int.crt", "leaf.crt")
    \/ Request(s, "leaf.key", "san.csr")
    \/ Issue(s, "san.csr", "int.key", "int.crt", "san.crt")
    \/ VerifyChain(s) \/ CommandFails(s)
-----------------------------------------------------------------------------
(* catalyst_build.py.  Of its files the alternative key, the    *)
(* TBS part and the signature are read back; each command of sh() raises   *)
(* if it fails.                                                            *)

BuildStep(from, to) ==
    /\ build.pc = from
    /\ build' = [build EXCEPT !.pc = to]
    /\ UNCHANGED <<calls, mint, bundling>>

StartBuild ==
    /\ build.pc \in Resting /\ calls <= MaxCalls
    /\ calls' = calls + 1
    /\ build' = [pc |-> "ca.key", call |-> calls + 1, ca |-> None]
    /\ UNCHANGED <<keys, crts, mint, alt, bundling>>

ReadCaKey ==
    /\ build.pc = "ca.key"
    /\ keys[ECDSA]["int.key"] \in Calls
    /\ build' = [build EXCEPT !.pc = "ca.crt", !.ca = keys[ECDSA]["int.key"]]
    /\ UNCHANGED <<minting, mint, alt, bundling>>

\* For its name and key identifier; not compared with the key.
ReadCaCert ==
    /\ IsWhole(crts[ECDSA]["int.crt"])
    /\ BuildStep("ca.crt", "alt.key")
    /\ UNCHANGED <<keys, crts, alt>>

GenAltKey ==
    /\ BuildStep("alt.key", "leaf.key")
    /\ alt' = [alt EXCEPT !.key = build.call]
    /\ UNCHANGED <<keys, crts>>

WriteLeafKey ==
    /\ BuildStep("leaf.key", "tbs")
    /\ keys' = [keys EXCEPT ![Catalyst]["leaf.key"] = build.call]
    /\ UNCHANGED <<crts, alt>>

\* The first build, without altSignatureValue.
WriteTbs ==
    /\ BuildStep("tbs", "altsig")
    /\ alt' = [alt EXCEPT !.tbs = Tbs(build.call, 1)]
    /\ UNCHANGED <<keys, crts>>

SignTbs ==
    /\ BuildStep("altsig", "leaf.crt")
    /\ alt' = [alt EXCEPT !.sig = [by |-> alt.key, over |-> alt.tbs]]
    /\ UNCHANGED <<keys, crts>>

\* The second build; sapki was read from the key at the start.
WriteLeafCert ==
    /\ BuildStep("leaf.crt", "altcheck")
    /\ crts' = [crts EXCEPT ![Catalyst]["leaf.crt"] =
                               Cert(build.call, build.ca)]
    /\ alt' = [alt EXCEPT !.leaf = [sapki |-> build.call,
                                    tbs |-> Tbs(build.call, 2),
                                    sig |-> alt.sig]]
    /\ UNCHANGED keys

\* Check 1 reads the three files, not the leaf.
CheckAltSignature ==
    /\ alt.sig = [by |-> alt.key, over |-> alt.tbs]
    /\ BuildStep("altcheck", "check")
    /\ UNCHANGED <<keys, crts, alt>>

CheckChain ==
    /\ Verifies(crts[ECDSA]["root.crt"], crts[ECDSA]["int.crt"],
                crts[Catalyst]["leaf.crt"])
    /\ BuildStep("check", "done")
    /\ UNCHANGED <<keys, crts, alt>>

BuildFails ==
    /\ build.pc \notin Resting
    /\ BuildStep(build.pc, "failed")
    /\ \/ UNCHANGED <<keys, crts, alt>>
       \/ /\ build.pc = "leaf.key"
          /\ keys' = [keys EXCEPT ![Catalyst]["leaf.key"] = Torn]
          /\ UNCHANGED <<crts, alt>>
       \/ /\ build.pc = "leaf.crt"
          /\ crts' = [crts EXCEPT ![Catalyst]["leaf.crt"] = TornCert]
          /\ UNCHANGED <<keys, alt>>
       \/ /\ alt' = CASE build.pc = "alt.key" -> [alt EXCEPT !.key = Torn]
                        [] build.pc = "tbs"     -> [alt EXCEPT !.tbs = TornTbs]
                        [] build.pc = "altsig"  -> [alt EXCEPT !.sig = TornSig]
                        [] OTHER -> alt
          /\ UNCHANGED <<keys, crts>>

Building ==
    \/ StartBuild \/ ReadCaKey \/ ReadCaCert \/ GenAltKey \/ WriteLeafKey
    \/ WriteTbs \/ SignTbs \/ WriteLeafCert \/ CheckAltSignature \/ CheckChain
    \/ BuildFails
-----------------------------------------------------------------------------
(* bundle() in the loop of the harness. *)

KeyFirst ==    \* slip: the key copied before the certificates
    <<"leaf.key", "leaf.crt", "root.crt", "int.crt", "chain.leaf", "chain.int">>
Copies ==
    <<"leaf.crt", "root.crt", "int.crt", "chain.leaf", "chain.int", "leaf.key">>

Name == CHAINS[copy.at]
CaOf(name) == IF name = Catalyst THEN ECDSA ELSE name

StartHarness ==
    /\ copy.pc = "idle"
    /\ copy' = [pc |-> Copies[1], at |-> 1]
    /\ UNCHANGED <<minting, mint, catalyst, bundles, copied>>

\* What the next file is copied from: chain.pem from a second reading of two
\* certificates, one after the other, before it is written; a key that is not
\* there leaves the bundle's alone.
SourceOf(f) ==
    CASE f \in {"leaf.crt", "chain.leaf"} -> crts[Name]["leaf.crt"]
      [] f \in {"int.crt", "chain.int"}   -> crts[CaOf(Name)]["int.crt"]
      [] f = "root.crt"                   -> crts[CaOf(Name)][f]
      [] f = "leaf.key" /\ keys[Name][f] # None -> keys[Name][f]
      [] OTHER -> bundles[Name][f]

TornCopy(f) == IF f = "leaf.key" THEN Torn ELSE TornCert

LastCopy == copy.pc = Copies[Len(Copies)]

\* One file of bundle(), or for chain.pem one of the two readings it is written
\* from; after the last, the chain is surveyed and the loop of main() goes on
\* with the next.
CopyFile ==
    /\ copy.pc # "idle"
    /\ bundles' = [bundles EXCEPT ![Name][copy.pc] = SourceOf(copy.pc)]
    /\ copied' = [copied EXCEPT ![Name] = LastCopy]
    /\ copy' = IF ~LastCopy
               THEN [copy EXCEPT !.pc = Following(Copies, @)]
               ELSE IF copy.at < Len(CHAINS)
               THEN [pc |-> Copies[1], at |-> copy.at + 1]
               ELSE [pc |-> "idle", at |-> 1]
    /\ UNCHANGED <<minting, mint, catalyst>>

\* The copy raises, or the harness is killed, here or between two files.
CopyFails ==
    /\ copy.pc # "idle"
    /\ copy' = [pc |-> "idle", at |-> 1]
    /\ \/ UNCHANGED <<bundles, copied>>
       \/ /\ bundles' = [bundles EXCEPT ![Name][copy.pc] = TornCopy(copy.pc)]
          /\ copied' = [copied EXCEPT ![Name] = FALSE]
    /\ UNCHANGED <<minting, mint, catalyst>>
-----------------------------------------------------------------------------
Next ==
    \/ \E s \in Scripts : Minting(s)
    \/ Building
    \/ StartHarness \/ CopyFile \/ CopyFails

Spec == Init /\ [][Next]_vars
-----------------------------------------------------------------------------
TypeOK ==
    /\ calls \in Calls
    /\ keys \in [Dirs -> [KeyFiles -> Gens]]
    /\ crts \in [Dirs -> [CertFiles -> Certs]]
    /\ \A s \in Scripts :
           /\ mint[s].pc \in Elements(Commands \o LadderCommands) \cup Resting
           /\ mint[s].call \in 1 .. calls
           /\ mint[s].at \in 1 .. Len(Rounds(s))
    /\ build.pc \in {"ca.key", "ca.crt", "alt.key", "leaf.key", "tbs", "altsig",
                     "leaf.crt", "altcheck", "check"} \cup Resting
    /\ alt.key \in Gens /\ alt.leaf.sapki \in Calls
    /\ build.call \in 1 .. calls /\ build.ca \in Gens \ {Torn}
    /\ copy.pc \in Elements(Copies) \cup {"idle"}
    /\ copy.at \in 1 .. Len(CHAINS)
    /\ copied \in [Names -> BOOLEAN]

\* s_server starts: certificates and key are readable, and the leaf
\* certificate is the key's.
Servable(b) ==
    /\ IsWhole(b["leaf.crt"]) /\ IsWhole(b["int.crt"])
    /\ b["leaf.key"] = b["leaf.crt"].subject

\* With the two certificates, and with those of chain.pem, which the gnutls
\* runner reads.
BundleVerifies(b) ==
    /\ Verifies(b["root.crt"], b["int.crt"], b["leaf.crt"])
    /\ Verifies(b["root.crt"], b["chain.int"], b["chain.leaf"])

\* A bundle of a chain of mint-corpus.sh that bundle() has completed and that
\* a server can be started from verifies: however mintings were interrupted,
\* and even if one ran while the bundle was copied, a mixture of two mintings
\* is refused by the server and never measured as a client's failure.
MixtureIsRefused ==
    \A b \in Elements(MINTED) :
        copied[b] /\ Servable(bundles[b]) => BundleVerifies(bundles[b])

\* A minting script that ended without an error left every chain of its list
\* whole, with its ladder, and all of it of this very invocation.
MintedIsWhole ==
    \A s \in Scripts : mint[s].pc = "done" =>
        \A d \in Elements(ChainsOf(s)) :
            /\ \A f \in KeyFiles : IsOf(f, d) => keys[d][f] = mint[s].call
            /\ \A f \in CertFiles : IsOf(f, d) =>
                   crts[d][f] = Cert(mint[s].call, mint[s].call)

\* catalyst_build.py reads the CA key and certificate one after the other and
\* checks the chain after it has written it.  Once it has ended without an
\* error, its leaf verifies for as long as the intermediate key it signed with
\* is still the one in the CA's directory, whatever mint-phase0.sh did.
BuiltLeafFitsItsCA ==
    build.pc = "done" /\ keys[ECDSA]["int.key"] = build.ca =>
        Verifies(crts[ECDSA]["root.crt"], crts[ECDSA]["int.crt"],
                 crts[Catalyst]["leaf.crt"])

\* The leaf of a build that ended without an error carries an alternative
\* signature by the alternative key it carries, over itself without that
\* signature: what the second build repeats of the first.  The program checks
\* the files it left, not the leaf.
AltSignatureCovers ==
    build.pc = "done" =>
        alt.leaf.sig = [by |-> alt.leaf.sapki, over |-> alt.leaf.tbs]
=============================================================================
