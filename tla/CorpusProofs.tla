---------------------------- MODULE CorpusProofs -----------------------------
(***************************************************************************)
(* What is proved of the corpus for every catalogue and every number of    *)
(* invocations: two minting scripts, the build of the catalyst leaf and    *)
(* the harness at the same time, each of them interrupted anywhere.        *)
(*                                                                         *)
(* Everything follows from the order of the commands of a chain and from   *)
(* each directory having one writer.                                       *)
(***************************************************************************)
EXTENDS Corpus, TLAPS

\* The place of a command in mint_chain and in mint_san_ladder.
Rank(f) ==
    CASE f = "root.key" -> 1  [] f = "int.key" -> 2 [] f = "leaf.key" -> 3
      [] f = "root.crt" -> 4  [] f = "int.csr" -> 5 [] f = "int.crt" -> 6
      [] f = "leaf.csr" -> 7  [] f = "leaf.crt" -> 8 [] f = "verify" -> 9
      [] f = "san.csr" -> 10  [] f = "san.crt" -> 11
      [] f = "san.verify" -> 12

SanFiles == {"san.csr", "san.crt"}
ChainFiles == (KeyFiles \cup CertFiles) \ SanFiles
ChainCommands == ChainFiles \cup {"verify"}
SanCommands == SanFiles \cup {"san.verify"}
Running(s) == mint[s].pc \notin Resting

-----------------------------------------------------------------------------
(* Types, and which of its rounds a script is in. *)

MintType ==
    /\ calls \in Calls
    /\ mint \in [Scripts -> [pc : ChainCommands \cup SanCommands \cup Resting,
                             call : Calls, at : Nat]]

InRound ==
    \A s \in Scripts :
        /\ mint[s].call <= calls
        /\ mint[s].at \in 1 .. Len(Rounds(s))
        /\ Running(s) =>
               (mint[s].pc \in ChainCommands <=> mint[s].at <= Len(ChainsOf(s)))

FilesType ==
    /\ keys \in [Dirs -> [KeyFiles -> Gens]]
    /\ crts \in [Dirs -> [CertFiles -> Certs]]

BuildCommands ==
    {"ca.key", "ca.crt", "alt.key", "leaf.key", "tbs", "altsig", "leaf.crt",
     "altcheck", "check"}
BuildType ==
    /\ build \in [pc : BuildCommands \cup Resting, call : Calls,
                  ca : Gens \ {Torn}]
    /\ build.call <= calls

BundlesType ==
    /\ copy \in [pc : BundleFiles \cup {"idle"}, at : 1 .. Len(CHAINS)]
    /\ copied \in [Names -> BOOLEAN]
    /\ bundles = [b \in Names |-> [f \in BundleFiles |-> bundles[b][f]]]
    /\ \A b \in Names : bundles[b]["leaf.key"] \in Gens
                       /\ bundles[b]["leaf.crt"] \in Certs

-----------------------------------------------------------------------------
(* What a script has done: the files before its place are of its invocation. *)

IsOfCall(d, f, c) ==
    /\ f \in KeyFiles => keys[d][f] = c
    /\ f \in CertFiles => crts[d][f] = Cert(c, c)

FilesOf(s, i) == IF i <= Len(ChainsOf(s)) THEN ChainFiles ELSE SanFiles

Settled(s, i, f) ==
    \/ mint[s].pc = "done" \/ i < mint[s].at
    \/ i = mint[s].at /\ Rank(f) < Rank(mint[s].pc)

Progress ==
    \A s \in Scripts : mint[s].pc \notin {"idle", "failed"} =>
        \A i \in 1 .. Len(Rounds(s)) : \A f \in FilesOf(s, i) :
            Settled(s, i, f) => IsOfCall(Rounds(s)[i], f, mint[s].call)

-----------------------------------------------------------------------------
(* What a script has not done: no file of its chains, and nothing copied    *)
(* from them, is of its invocation before it has written it.                *)

Bounded ==
    /\ \A d \in Dirs \ {Catalyst} :
           /\ keys[d]["int.key"] <= calls /\ keys[d]["leaf.key"] <= calls
           /\ crts[d]["int.crt"].subject <= calls
           /\ crts[d]["leaf.crt"].subject <= calls
    /\ \A b \in Names \ {Catalyst} : bundles[b]["leaf.crt"].subject <= calls
    /\ build.ca <= calls

Unset(s, i, f) ==
    /\ Running(s)
    /\ i > mint[s].at \/ (i = mint[s].at /\ Rank(f) >= Rank(mint[s].pc))

FreshAt(s, i) ==
    LET d == ChainsOf(s)[i] c == mint[s].call
    IN /\ Unset(s, i, "leaf.crt") =>
              /\ crts[d]["leaf.crt"].subject # c
              /\ d \in Names => bundles[d]["leaf.crt"].subject # c
       /\ Unset(s, i, "int.crt") => crts[d]["int.crt"].subject # c
       /\ Unset(s, i, "leaf.key") => keys[d]["leaf.key"] # c
       /\ Unset(s, i, "int.key") =>
              keys[d]["int.key"] # c /\ (d = ECDSA => build.ca # c)

Fresh == \A s \in Scripts : \A i \in 1 .. Len(ChainsOf(s)) : FreshAt(s, i)

-----------------------------------------------------------------------------
(* Mixtures.  A leaf certificate beside its own key, on disk or in a bundle, *)
(* is beside the chain it was issued under.                                  *)

DiskMatches(b, g) ==
    \A f \in {"root.crt", "int.crt", "leaf.crt"} : crts[b][f] = Cert(g, g)

LeafHasItsChain ==
    \A b \in Elements(MINTED) : \A g \in Calls :
        keys[b]["leaf.key"] = g =>
            /\ crts[b]["leaf.crt"].subject = g => DiskMatches(b, g)
            /\ bundles[b]["leaf.crt"].subject = g =>
                   DiskMatches(b, g) /\ bundles[b]["leaf.crt"] = Cert(g, g)

\* Before the key is copied: what has been copied is of the key's chain.
AfterLeaf == {"root.crt", "int.crt", "chain.leaf", "chain.int", "leaf.key"}
CopiedFiles(pc) ==
    CASE pc = "root.crt"  -> {"leaf.crt"}
      [] pc = "int.crt"   -> {"leaf.crt", "root.crt"}
      [] pc = "chain.leaf" -> {"leaf.crt", "root.crt", "int.crt"}
      [] pc = "chain.int" -> {"leaf.crt", "root.crt", "int.crt", "chain.leaf"}
      [] pc = "leaf.key"  ->
             {"leaf.crt", "root.crt", "int.crt", "chain.leaf", "chain.int"}
      [] OTHER            -> {}

CopyIsOfKey ==
    copy.pc # "idle" /\ Name \in Elements(MINTED) =>
        \A g \in Calls :
            keys[Name]["leaf.key"] = g /\ bundles[Name]["leaf.crt"].subject = g =>
                \A f \in CopiedFiles(copy.pc) : bundles[Name][f] = Cert(g, g)

NoKeyCopiedBefore ==
    \A b \in Elements(MINTED) :
        keys[b]["leaf.key"] = None => bundles[b]["leaf.key"] \notin Calls

CopiedIsOfKey ==
    \A b \in Elements(MINTED) : \A g \in Calls :
        /\ copied[b] /\ bundles[b]["leaf.key"] = g
        /\ bundles[b]["leaf.crt"].subject = g
        => \A f \in BundleFiles \ {"leaf.key"} : bundles[b][f] = Cert(g, g)

Unmixed == LeafHasItsChain /\ CopyIsOfKey /\ NoKeyCopiedBefore /\ CopiedIsOfKey

-----------------------------------------------------------------------------
(* The catalyst leaf. *)

\* A build that has read the CA key signs with it, and checks the result.
BuildInv ==
    /\ build.pc \in (BuildCommands \cup {"done"}) \ {"ca.key"} => build.ca \in Calls
    /\ build.pc \in {"altcheck", "check", "done"} =>
           crts[Catalyst]["leaf.crt"] = Cert(build.call, build.ca)
    /\ BuiltLeafFitsItsCA

\* What the build has written of the alternative signature is its own.
AltInv ==
    /\ alt = [key |-> alt.key, tbs |-> alt.tbs, sig |-> alt.sig, leaf |-> alt.leaf]
    /\ alt.key \in Gens /\ alt.leaf.sapki \in Calls
    /\ build.pc \in {"leaf.key", "tbs", "altsig", "leaf.crt", "altcheck", "check",
                     "done"}
           => alt.key = build.call
    /\ build.pc \in {"altsig", "leaf.crt", "altcheck", "check", "done"}
           => alt.tbs = Tbs(build.call, 1)
    /\ build.pc \in {"leaf.crt", "altcheck", "check", "done"}
           => alt.sig = [by |-> build.call, over |-> Tbs(build.call, 1)]
    /\ build.pc \in {"altcheck", "check", "done"}
           => alt.leaf = [sapki |-> build.call, tbs |-> Tbs(build.call, 2),
                          sig |-> alt.sig]

-----------------------------------------------------------------------------
(* The catalogue: which script owns which directory. *)

\* The scripts, and how long their lists are.
LEMMA ListFacts ==
    ASSUME NEW s \in Scripts
    PROVE  /\ NoRepetition(ChainsOf(s))
           /\ Len(ChainsOf(s)) \in Nat /\ Len(Rounds(s)) \in Nat
           /\ 1 <= Len(ChainsOf(s)) /\ Len(ChainsOf(s)) <= Len(Rounds(s))
           /\ \A i \in 1 .. Len(ChainsOf(s)) : Rounds(s)[i] = ChainsOf(s)[i]
           /\ \A i \in 1 .. Len(Rounds(s)) :
                  i > Len(ChainsOf(s)) => Rounds(s)[i] \in Elements(ChainsOf(s))
<1>1. CASE s = "mint-corpus.sh"
    <2>1. ChainsOf(s) = MINTED /\ Rounds(s) = MINTED \o LADDER
        BY <1>1 DEF ChainsOf, Rounds
    <2>2. /\ MINTED \in Seq(STRING) /\ LADDER \in Seq(STRING)
          /\ NoRepetition(MINTED) /\ MINTED # <<>>
          /\ Elements(LADDER) \subseteq Elements(MINTED)
        BY CorpusAssumption
    <2>3. /\ Len(MINTED \o LADDER) = Len(MINTED) + Len(LADDER)
          /\ \A i \in 1 .. Len(MINTED) + Len(LADDER) :
                 (MINTED \o LADDER)[i] = IF i <= Len(MINTED) THEN MINTED[i]
                                         ELSE LADDER[i - Len(MINTED)]
        BY <2>2
    <2>4. Len(MINTED) \in Nat /\ Len(LADDER) \in Nat /\ Len(MINTED) # 0
        BY <2>2
    <2>5. ASSUME NEW i \in 1 .. Len(MINTED) + Len(LADDER), i > Len(MINTED)
          PROVE  (MINTED \o LADDER)[i] \in Elements(MINTED)
        <3>1. i - Len(MINTED) \in 1 .. Len(LADDER)
            BY <2>4, <2>5
        <3>2. LADDER[i - Len(MINTED)] \in Elements(LADDER)
            BY <3>1 DEF Elements
        <3> QED
            BY <2>2, <2>3, <2>4, <2>5, <3>2
    <2> QED
        BY <2>1, <2>2, <2>3, <2>4, <2>5
<1>2. CASE s = "mint-phase0.sh"
    <2>1. ChainsOf(s) = <<ECDSA>> /\ Rounds(s) = <<ECDSA>> \o <<>>
        BY <1>2 DEF ChainsOf, Rounds
    <2>2. LET q == <<ECDSA>> \o <<>>
          IN Len(q) = 1 /\ q[1] = ECDSA
        OBVIOUS
    <2>3. Len(<<ECDSA>>) = 1 /\ <<ECDSA>>[1] = ECDSA
        OBVIOUS
    <2> QED
        BY <2>1, <2>2, <2>3 DEF NoRepetition
<1> QED
    BY <1>1, <1>2 DEF Scripts

\* No directory belongs to two scripts, and the build's to neither.
LEMMA OwnerFacts ==
    /\ \A s \in Scripts : \A i \in 1 .. Len(Rounds(s)) :
           /\ Rounds(s)[i] \in Elements(ChainsOf(s))
           /\ Rounds(s)[i] \in Dirs \ {Catalyst}
    /\ \A s \in Scripts : Elements(ChainsOf(s)) \subseteq Dirs \ {Catalyst}
    /\ \A s, t \in Scripts : s # t =>
           Elements(ChainsOf(s)) \cap Elements(ChainsOf(t)) = {}
    /\ Elements(ChainsOf("mint-corpus.sh")) = Elements(MINTED)
    /\ Elements(ChainsOf("mint-phase0.sh")) = {ECDSA}
    /\ Elements(MINTED) = Names \ {Catalyst}
    /\ ECDSA \notin Names /\ ECDSA # Catalyst
<1>1. ECDSA \notin Names /\ Elements(MINTED) = Names \ {Catalyst}
    BY CorpusAssumption
<1>2. ECDSA # Catalyst
    BY DEF ECDSA, Catalyst
<1>3. Elements(ChainsOf("mint-corpus.sh")) = Elements(MINTED)
    BY DEF ChainsOf
<1>4. Elements(ChainsOf("mint-phase0.sh")) = {ECDSA}
    BY DEF ChainsOf, Elements
<1>5. \A s \in Scripts : \A i \in 1 .. Len(Rounds(s)) :
          Rounds(s)[i] \in Elements(ChainsOf(s))
    BY ListFacts DEF Elements
<1>6. \A s \in Scripts : Elements(ChainsOf(s)) \subseteq Dirs \ {Catalyst}
    BY <1>1, <1>2, <1>3, <1>4 DEF Scripts, Dirs
<1>7. \A s, t \in Scripts : s # t =>
          Elements(ChainsOf(s)) \cap Elements(ChainsOf(t)) = {}
    BY <1>1, <1>3, <1>4 DEF Scripts
<1> QED
    BY <1>1, <1>2, <1>3, <1>4, <1>5, <1>6, <1>7

\* The element of a sequence that follows its i-th.
LEMMA FollowingFact ==
    ASSUME NEW q, Len(q) \in Nat, NoRepetition(q), NEW i \in 1 .. Len(q) - 1
    PROVE  Following(q, q[i]) = q[1 + i]
<1>1. (CHOOSE j \in 1 .. Len(q) - 1 : q[j] = q[i]) = i
    BY DEF NoRepetition
<1> QED
    BY <1>1 DEF Following

\* The command after one that writes a file.
LEMMA NextCommandFacts ==
    LET next(f) == Following(Commands \o LadderCommands, f)
    IN /\ \A f \in ChainFiles :
              next(f) \in ChainCommands /\ Rank(next(f)) = Rank(f) + 1
       /\ \A f \in SanFiles :
              next(f) \in SanCommands /\ Rank(next(f)) = Rank(f) + 1
<1> DEFINE q == Commands \o LadderCommands
<1>1. /\ Len(q) = 12
      /\ q[1] = "root.key" /\ q[2] = "int.key" /\ q[3] = "leaf.key"
      /\ q[4] = "root.crt" /\ q[5] = "int.csr" /\ q[6] = "int.crt"
      /\ q[7] = "leaf.csr" /\ q[8] = "leaf.crt" /\ q[9] = "verify"
      /\ q[10] = "san.csr" /\ q[11] = "san.crt" /\ q[12] = "san.verify"
    BY DEF Commands, LadderCommands
<1> HIDE DEF q
<1>2. NoRepetition(q)
    BY <1>1 DEF NoRepetition
<1>3. ASSUME NEW i \in 1 .. 11
      PROVE  Following(q, q[i]) = q[1 + i]
    <2>1. Len(q) \in Nat /\ i \in 1 .. Len(q) - 1
        BY <1>1
    <2> QED
        BY ONLY <1>2, <2>1, FollowingFact
<1>4. /\ Following(q, "root.key") = "int.key"
      /\ Following(q, "int.key") = "leaf.key"
      /\ Following(q, "leaf.key") = "root.crt"
      /\ Following(q, "root.crt") = "int.csr"
      /\ Following(q, "int.csr") = "int.crt"
      /\ Following(q, "int.crt") = "leaf.csr"
      /\ Following(q, "leaf.csr") = "leaf.crt"
      /\ Following(q, "leaf.crt") = "verify"
      /\ Following(q, "san.csr") = "san.crt"
      /\ Following(q, "san.crt") = "san.verify"
    BY <1>1, <1>3
<1> QED
    BY <1>4
       DEF q, Rank, ChainFiles, SanFiles, ChainCommands, SanCommands, KeyFiles,
           CertFiles, NewKeys, Requests

\* The file that bundle() copies after another.
LEMMA NextCopyFacts ==
    /\ Copies[1] = "leaf.crt" /\ Copies[Len(Copies)] = "leaf.key"
    /\ Following(Copies, "leaf.crt") = "root.crt"
    /\ Following(Copies, "root.crt") = "int.crt"
    /\ Following(Copies, "int.crt") = "chain.leaf"
    /\ Following(Copies, "chain.leaf") = "chain.int"
    /\ Following(Copies, "chain.int") = "leaf.key"
    /\ Elements(Copies) = BundleFiles
<1>1. /\ Len(Copies) = 6
      /\ Copies[1] = "leaf.crt" /\ Copies[2] = "root.crt"
      /\ Copies[3] = "int.crt" /\ Copies[4] = "chain.leaf"
      /\ Copies[5] = "chain.int" /\ Copies[6] = "leaf.key"
    BY DEF Copies
<1>2. NoRepetition(Copies)
    BY <1>1 DEF NoRepetition
<1>3. ASSUME NEW i \in 1 .. 5
      PROVE  Following(Copies, Copies[i]) = Copies[1 + i]
    <2>1. Len(Copies) \in Nat /\ i \in 1 .. Len(Copies) - 1
        BY <1>1
    <2> QED
        BY ONLY <1>2, <2>1, FollowingFact
<1>4. Elements(Copies) = BundleFiles
    BY <1>1 DEF Elements, BundleFiles
<1> QED
    BY <1>1, <1>3, <1>4

\* The commands and files as TypeOK names them.
LEMMA CommandSet ==
    Elements(Commands \o LadderCommands) = ChainCommands \cup SanCommands
<1> DEFINE q == Commands \o LadderCommands
<1>1. /\ Len(q) = 12
      /\ q[1] = "root.key" /\ q[2] = "int.key" /\ q[3] = "leaf.key"
      /\ q[4] = "root.crt" /\ q[5] = "int.csr" /\ q[6] = "int.crt"
      /\ q[7] = "leaf.csr" /\ q[8] = "leaf.crt" /\ q[9] = "verify"
      /\ q[10] = "san.csr" /\ q[11] = "san.crt" /\ q[12] = "san.verify"
    BY DEF Commands, LadderCommands
<1> HIDE DEF q
<1>2. \A i \in 1 .. 12 : q[i] \in ChainCommands \cup SanCommands
    BY <1>1 DEF ChainFiles, SanFiles, ChainCommands, SanCommands, KeyFiles,
                CertFiles, NewKeys, Requests
<1>3. \A f \in ChainCommands \cup SanCommands : \E i \in 1 .. 12 : q[i] = f
    BY <1>1 DEF ChainFiles, SanFiles, ChainCommands, SanCommands, KeyFiles,
                CertFiles, NewKeys, Requests
<1> QED
    BY <1>1, <1>2, <1>3 DEF Elements, q

\* The chains of a ladder come again in the rounds, after all that are minted.
LEMMA LadderFact ==
    ASSUME NEW s \in Scripts, NEW d \in Elements(LADDER) \cap Elements(ChainsOf(s))
    PROVE  \E i \in 1 .. Len(Rounds(s)) : i > Len(ChainsOf(s)) /\ Rounds(s)[i] = d
<1>1. s = "mint-corpus.sh"
    BY CorpusAssumption, OwnerFacts DEF Scripts
<1>2. PICK j \in 1 .. Len(LADDER) : LADDER[j] = d
    BY DEF Elements
<1>3. MINTED \in Seq(STRING) /\ LADDER \in Seq(STRING)
    BY CorpusAssumption
<1>4. /\ Len(MINTED) \in Nat /\ Len(LADDER) \in Nat
      /\ Len(MINTED \o LADDER) = Len(MINTED) + Len(LADDER)
      /\ (MINTED \o LADDER)[Len(MINTED) + j] = LADDER[j]
    BY <1>2, <1>3
<1>5. ChainsOf(s) = MINTED /\ Rounds(s) = MINTED \o LADDER
    BY <1>1 DEF ChainsOf, Rounds
<1>6. /\ Len(MINTED) + j \in 1 .. Len(Rounds(s))
      /\ Len(MINTED) + j > Len(ChainsOf(s)) /\ Rounds(s)[Len(MINTED) + j] = d
    BY <1>2, <1>4, <1>5
<1> QED
    BY <1>6

-----------------------------------------------------------------------------
(* What the steps of the minting scripts do to the files. *)

Types == MintType /\ InRound /\ FilesType /\ BuildType /\ BundlesType

\* A command that succeeds writes its file of its own invocation.
WritesOwn(s) ==
    LET f == mint[s].pc c == mint[s].call
    IN /\ f \in ChainFiles \cup SanFiles
       /\ NextCommand(s)
       /\ IF f \in KeyFiles
          THEN keys' = [keys EXCEPT ![ChainOf(s)][f] = c] /\ UNCHANGED crts
          ELSE crts' = [crts EXCEPT ![ChainOf(s)][f] = Cert(c, c)] /\ UNCHANGED keys

\* What a script reads of its chain is of its invocation.
LEMMA ReadsOwn ==
    ASSUME Types, Progress, NEW s \in Scripts, Running(s),
           NEW f \in ChainFiles, Rank(f) < Rank(mint[s].pc)
    PROVE  IsOfCall(ChainOf(s), f, mint[s].call)
<1> DEFINE at == mint[s].at
<1>1. /\ at \in 1 .. Len(Rounds(s)) /\ mint[s].pc \notin {"idle", "failed"}
      /\ ChainOf(s) = Rounds(s)[at] /\ at \in Nat
    BY DEF Types, InRound, MintType, Running, Resting, ChainOf
<1>2. CASE at <= Len(ChainsOf(s))
    <2>1. Settled(s, at, f) /\ f \in FilesOf(s, at)
        BY <1>2 DEF Settled, FilesOf
    <2> QED
        BY <1>1, <2>1 DEF Progress
<1>3. CASE ~(at <= Len(ChainsOf(s)))
    <2>1. PICK i \in 1 .. Len(ChainsOf(s)) : ChainsOf(s)[i] = Rounds(s)[at]
        BY <1>1, <1>3, ListFacts DEF Elements
    <2>2. /\ i \in 1 .. Len(Rounds(s)) /\ i < at /\ i <= Len(ChainsOf(s))
          /\ Rounds(s)[i] = Rounds(s)[at]
        BY <1>1, <1>3, <2>1, ListFacts
    <2>3. Settled(s, i, f) /\ f \in FilesOf(s, i)
        BY <2>2 DEF Settled, FilesOf
    <2> QED
        BY <1>1, <2>2, <2>3 DEF Progress
<1> QED
    BY <1>2, <1>3

\* So every command that succeeds writes its own.
LEMMA CommandWritesOwn ==
    ASSUME Types, Progress, NEW s \in Scripts, Minting(s)
    PROVE  StartMint(s) \/ WritesOwn(s) \/ VerifyChain(s) \/ CommandFails(s)
<1> DEFINE c == mint[s].call
<1> USE DEF Types
<1>1. CASE GenKey(s)
    BY <1>1 DEF GenKey, WritesOwn, ChainFiles, SanFiles, KeyFiles, NewKeys, Requests
<1>2. CASE SelfSign(s)
    <2>1. mint[s].pc = "root.crt"
        BY <1>2 DEF SelfSign
    <2>2. IsOfCall(ChainOf(s), "root.key", c)
        BY <2>1, ReadsOwn
           DEF Running, Resting, Rank, ChainFiles, SanFiles, KeyFiles, CertFiles,
               NewKeys, Requests
    <2> QED
        BY <1>2, <2>1, <2>2
           DEF SelfSign, WritesOwn, IsOfCall, ChainFiles, SanFiles, KeyFiles,
               CertFiles, NewKeys, Requests
<1>3. ASSUME NEW key \in {"int.key", "leaf.key"},
             NEW csr \in {"int.csr", "leaf.csr", "san.csr"}, Request(s, key, csr)
      PROVE  WritesOwn(s)
    <2>1. mint[s].pc = csr
        BY <1>3 DEF Request
    <2>2. IsOfCall(ChainOf(s), key, c)
        BY <2>1, ReadsOwn
           DEF Running, Resting, Rank, ChainFiles, SanFiles, KeyFiles, CertFiles,
               NewKeys, Requests
    <2> QED
        BY <1>3, <2>1, <2>2
           DEF Request, WritesOwn, IsOfCall, ChainFiles, SanFiles, KeyFiles,
               NewKeys, Requests
<1>4. CASE Issue(s, "int.csr", "root.key", "root.crt", "int.crt")
    <2>1. mint[s].pc = "int.crt"
        BY <1>4 DEF Issue
    <2>2. /\ IsOfCall(ChainOf(s), "int.csr", c) /\ IsOfCall(ChainOf(s), "root.key", c)
          /\ IsOfCall(ChainOf(s), "root.crt", c)
        BY <2>1, ReadsOwn
           DEF Running, Resting, Rank, ChainFiles, SanFiles, KeyFiles, CertFiles,
               NewKeys, Requests
    <2> QED
        BY <1>4, <2>1, <2>2
           DEF Issue, WritesOwn, IsOfCall, ChainFiles, SanFiles, KeyFiles,
               CertFiles, NewKeys, Requests
<1>5. CASE Issue(s, "leaf.csr", "int.key", "int.crt", "leaf.crt")
    <2>1. mint[s].pc = "leaf.crt"
        BY <1>5 DEF Issue
    <2>2. IsOfCall(ChainOf(s), "leaf.csr", c) /\ IsOfCall(ChainOf(s), "int.key", c)
        BY <2>1, ReadsOwn
           DEF Running, Resting, Rank, ChainFiles, SanFiles, KeyFiles, CertFiles,
               NewKeys, Requests
    <2> QED
        BY <1>5, <2>1, <2>2
           DEF Issue, WritesOwn, IsOfCall, ChainFiles, SanFiles, KeyFiles,
               CertFiles, NewKeys, Requests
<1>6. CASE Issue(s, "san.csr", "int.key", "int.crt", "san.crt")
    <2>1. mint[s].pc = "san.crt"
        BY <1>6 DEF Issue
    <2>2. IsOfCall(ChainOf(s), "int.key", c)
        BY <2>1, ReadsOwn
           DEF Running, Resting, Rank, ChainFiles, SanFiles, KeyFiles, CertFiles,
               NewKeys, Requests
    <2>3. /\ mint[s].at \in 1 .. Len(Rounds(s)) /\ mint[s].at > Len(ChainsOf(s))
          /\ mint[s].at \in Nat
        BY <2>1, ListFacts
           DEF InRound, MintType, Running, Resting, ChainCommands, ChainFiles, SanFiles
    <2>4. "san.csr" \in FilesOf(s, mint[s].at) /\ Settled(s, mint[s].at, "san.csr")
        BY <2>1, <2>3, ListFacts DEF FilesOf, SanFiles, Settled, Rank
    <2>5. IsOfCall(ChainOf(s), "san.csr", c)
        BY <2>1, <2>3, <2>4 DEF Progress, ChainOf
    <2> QED
        BY <1>6, <2>1, <2>2, <2>5
           DEF Issue, WritesOwn, IsOfCall, ChainFiles, SanFiles, KeyFiles,
               CertFiles, NewKeys, Requests
<1> QED
    BY <1>1, <1>2, <1>3, <1>4, <1>5, <1>6 DEF Minting

\* The four things a minting script may do, and what else may happen.
LEMMA NextCases ==
    ASSUME Types, Progress, [Next]_vars
    PROVE  \/ \E s \in Scripts :
                  StartMint(s) \/ WritesOwn(s) \/ VerifyChain(s) \/ CommandFails(s)
           \/ Building \/ StartHarness \/ CopyFile \/ CopyFails
           \/ UNCHANGED vars
BY CommandWritesOwn DEF Next

\* Where a script is after a command that wrote a file.
LEMMA NextPlace ==
    ASSUME Types, NEW s \in Scripts, WritesOwn(s)
    PROVE  /\ mint' = [mint EXCEPT ![s].pc = mint'[s].pc]
           /\ mint[s].pc \in ChainFiles => mint'[s].pc \in ChainCommands
           /\ mint[s].pc \in SanFiles => mint'[s].pc \in SanCommands
           /\ Rank(mint'[s].pc) = Rank(mint[s].pc) + 1
           /\ mint[s].pc \in ChainFiles \cup SanFiles
<1> DEFINE next == Following(Commands \o LadderCommands, mint[s].pc)
<1>1. mint' = [mint EXCEPT ![s].pc = next] /\ mint[s].pc \in ChainFiles \cup SanFiles
    BY DEF WritesOwn, NextCommand
<1>2. mint'[s].pc = next
    BY <1>1 DEF Types, MintType
<1>3. /\ mint[s].pc \in ChainFiles => next \in ChainCommands
      /\ mint[s].pc \in SanFiles => next \in SanCommands
      /\ Rank(next) = Rank(mint[s].pc) + 1
    BY <1>1, NextCommandFacts
<1> HIDE DEF next
<1> QED
    BY <1>1, <1>2, <1>3

\* A checkout has a call of every script behind it and none running.
LEMMA TypesInit == Init => Types
<1> SUFFICES ASSUME Init PROVE Types
    OBVIOUS
<1>1. MaxCalls \in Nat /\ Calls = 1 .. MaxCalls + 1 /\ 1 \in Calls
    BY CorpusAssumption DEF Calls
<1>2. MintType
    BY <1>1 DEF Init, MintType, Resting
<1>3. InRound
    BY <1>1, ListFacts DEF Init, InRound, Running, Resting
<1>4. FilesType
    BY <1>1 DEF Init, FilesType, Gens, Certs, Cert
<1>5. BuildType
    BY <1>1 DEF Init, BuildType, Gens, None, Torn, Resting
<1>6. 1 \in 1 .. Len(CHAINS)
    <2>1. CHAINS \in Seq(STRING) /\ Elements(CHAINS) # {}
        <3>1. PICK i \in 1 .. Len(MINTED) : TRUE
            BY CorpusAssumption
        <3>2. MINTED[i] \in Elements(CHAINS)
            BY <3>1, CorpusAssumption DEF Elements, Names
        <3> QED
            BY <3>2, CorpusAssumption
    <2> QED
        BY <2>1 DEF Elements
<1>7. BundlesType
    BY <1>1, <1>6 DEF Init, BundlesType, BundleFiles, Gens, Certs, Cert
<1> QED
    BY <1>2, <1>3, <1>4, <1>5, <1>7 DEF Types

\* A command, failing or not, changes at most its own file of its own chain.
OnlyItsFile(s) ==
    LET d == ChainOf(s) f == mint[s].pc c == mint[s].call
    IN /\ \A e \in Dirs : \A x \in KeyFiles :
              keys'[e][x] # keys[e][x] =>
                  e = d /\ x = f /\ keys'[e][x] \in {c, Torn}
       /\ \A e \in Dirs : \A x \in CertFiles :
              crts'[e][x] # crts[e][x] =>
                  e = d /\ x = f /\ crts'[e][x] \in {Cert(c, c), TornCert}

\* One file is written.
LEMMA KeyWritten ==
    ASSUME FilesType, NEW d \in Dirs, NEW f \in KeyFiles, NEW v \in Gens,
           keys' = [keys EXCEPT ![d][f] = v]
    PROVE  /\ keys' \in [Dirs -> [KeyFiles -> Gens]]
           /\ keys'[d][f] = v
           /\ \A e \in Dirs : \A x \in KeyFiles :
                  keys'[e][x] # keys[e][x] => e = d /\ x = f
           /\ \A e \in Dirs \ {d} : keys'[e] = keys[e]
BY DEF FilesType

\* A certificate file that is written changes no other.
LEMMA CertWritten ==
    ASSUME FilesType, NEW d \in Dirs, NEW f \in CertFiles, NEW v \in Certs,
           crts' = [crts EXCEPT ![d][f] = v]
    PROVE  /\ crts' \in [Dirs -> [CertFiles -> Certs]]
           /\ crts'[d][f] = v
           /\ \A e \in Dirs : \A x \in CertFiles :
                  crts'[e][x] # crts[e][x] => e = d /\ x = f
           /\ \A e \in Dirs \ {d} : crts'[e] = crts[e]
BY DEF FilesType

\* A command of a mint script, whether it ends or fails, touches its own file.
LEMMA CommandTouches ==
    ASSUME Types, NEW s \in Scripts, WritesOwn(s) \/ CommandFails(s)
    PROVE  OnlyItsFile(s) /\ FilesType' /\ Running(s) /\ ChainOf(s) \in Dirs
<1> USE DEF Types
<1>1. /\ mint[s].call \in Calls /\ ChainOf(s) \in Dirs
      /\ mint[s].call \in Gens /\ Torn \in Gens
    BY OwnerFacts DEF MintType, InRound, ChainOf, Gens
<1>2. Cert(mint[s].call, mint[s].call) \in Certs /\ TornCert \in Certs
    BY <1>1 DEF Cert, Certs, TornCert
<1>3. CASE WritesOwn(s)
    <2>1. Running(s)
        BY <1>3 DEF WritesOwn, Running, Resting, ChainFiles, SanFiles, KeyFiles,
                    CertFiles, NewKeys, Requests
    <2>2. mint[s].pc \in KeyFiles \/ mint[s].pc \in CertFiles
        BY <1>3 DEF WritesOwn, ChainFiles, SanFiles, KeyFiles, CertFiles, NewKeys,
                    Requests
    <2>3. CASE mint[s].pc \in KeyFiles
        BY <1>1, <1>3, <2>1, <2>3, KeyWritten DEF WritesOwn, OnlyItsFile, FilesType
    <2>4. CASE mint[s].pc \notin KeyFiles
        <3>1. /\ mint[s].pc \in CertFiles /\ keys' = keys
              /\ crts' = [crts EXCEPT ![ChainOf(s)][mint[s].pc] =
                                         Cert(mint[s].call, mint[s].call)]
            BY <1>3, <2>2, <2>4 DEF WritesOwn
        <3> QED
            BY <1>1, <1>2, <2>1, <3>1, CertWritten DEF OnlyItsFile, FilesType
    <2> QED
        BY <2>3, <2>4
<1>4. CASE CommandFails(s)
    <2>1. Running(s) /\ Spoiled(s)
        BY <1>4 DEF CommandFails, Running
    <2>2. CASE UNCHANGED <<keys, crts>>
        BY <1>1, <2>1, <2>2 DEF OnlyItsFile, FilesType
    <2>3. CASE /\ mint[s].pc \in KeyFiles
               /\ keys' = [keys EXCEPT ![ChainOf(s)][mint[s].pc] = Torn]
               /\ UNCHANGED crts
        BY <1>1, <2>1, <2>3, KeyWritten DEF OnlyItsFile, FilesType
    <2>4. CASE /\ mint[s].pc \in CertFiles
               /\ crts' = [crts EXCEPT ![ChainOf(s)][mint[s].pc] = TornCert]
               /\ UNCHANGED keys
        BY <1>1, <1>2, <2>1, <2>4, CertWritten DEF OnlyItsFile, FilesType
    <2> QED
        BY <2>1, <2>2, <2>3, <2>4 DEF Spoiled
<1> QED
    BY <1>3, <1>4

\* catalyst_build.py leaves the directories of the other chains alone.
BuildLeaves ==
    /\ UNCHANGED <<mint, bundling>>
    /\ \A d \in Dirs \ {Catalyst} : keys'[d] = keys[d] /\ crts'[d] = crts[d]

\* What catalyst_build.py leaves has the types it found.
LEMMA BuildTypes ==
    ASSUME Types, Building
    PROVE  FilesType' /\ BuildType' /\ calls' \in Calls /\ calls <= calls'
<1> USE DEF Types
<1>1. /\ calls \in Calls /\ build.call \in Calls /\ build.ca \in Gens \ {Torn}
      /\ Calls \subseteq Int /\ Calls \subseteq Gens \ {Torn} /\ Torn \in Gens
      /\ None \in Gens \ {Torn} /\ Catalyst \in Dirs
    BY CorpusAssumption
       DEF MintType, BuildType, Calls, Gens, None, Torn, Dirs
<1>2. FilesType'
    <2>1. "leaf.key" \in KeyFiles /\ "leaf.crt" \in CertFiles
        BY DEF KeyFiles, NewKeys, CertFiles
    <2>2. Cert(build.call, build.ca) \in Certs /\ TornCert \in Certs
        BY <1>1 DEF Cert, Certs, TornCert
    <2>3. \/ keys' = keys
          \/ \E v \in Gens : keys' = [keys EXCEPT ![Catalyst]["leaf.key"] = v]
        BY <1>1
           DEF Building, StartBuild, ReadCaKey, ReadCaCert, GenAltKey, WriteLeafKey,
               WriteTbs, SignTbs, WriteLeafCert, CheckAltSignature, CheckChain,
               BuildFails, minting
    <2>4. \/ crts' = crts
          \/ \E v \in Certs : crts' = [crts EXCEPT ![Catalyst]["leaf.crt"] = v]
        BY <2>2
           DEF Building, StartBuild, ReadCaKey, ReadCaCert, GenAltKey, WriteLeafKey,
               WriteTbs, SignTbs, WriteLeafCert, CheckAltSignature, CheckChain,
               BuildFails, minting
    <2>5. keys' \in [Dirs -> [KeyFiles -> Gens]]
        BY <1>1, <2>1, <2>3, KeyWritten DEF FilesType
    <2>6. crts' \in [Dirs -> [CertFiles -> Certs]]
        BY <1>1, <2>1, <2>4, CertWritten DEF FilesType
    <2> QED
        BY <2>5, <2>6 DEF FilesType
<1>3. BuildType' /\ calls' \in Calls /\ calls <= calls'
    <2>1. CASE StartBuild
        BY <1>1, <2>1, CorpusAssumption
           DEF StartBuild, BuildType, BuildCommands, Calls
    <2>2. CASE ReadCaKey
        <3> DEFINE key == keys[ECDSA]["int.key"]
        <3>1. /\ calls' = calls /\ key \in Gens \ {Torn}
              /\ build' = [build EXCEPT !.pc = "ca.crt", !.ca = key]
            BY <1>1, <2>2 DEF ReadCaKey, minting
        <3> HIDE DEF key
        <3>2. build' = [pc |-> "ca.crt", call |-> build.call, ca |-> key]
            BY <3>1 DEF BuildType
        <3> QED
            BY <1>1, <3>1, <3>2 DEF BuildType, BuildCommands
    <2>3. CASE \/ ReadCaCert \/ GenAltKey \/ WriteLeafKey \/ WriteTbs \/ SignTbs
               \/ WriteLeafCert \/ CheckAltSignature \/ CheckChain \/ BuildFails
        <3>1. calls' = calls /\ \E to \in BuildCommands \cup Resting :
                                    build' = [build EXCEPT !.pc = to]
            BY <2>3
               DEF ReadCaCert, GenAltKey, WriteLeafKey, WriteTbs, SignTbs,
                   WriteLeafCert, CheckAltSignature, CheckChain, BuildFails,
                   BuildStep, BuildCommands, Resting
        <3> QED
            BY <1>1, <3>1 DEF BuildType
    <2> QED
        BY <2>1, <2>2, <2>3 DEF Building
<1> QED
    BY <1>2, <1>3

\* The build signs with what it read, if it has read.
LEMMA BuildReads ==
    ASSUME Types, Building
    PROVE  build'.ca \in {build.ca, keys[ECDSA]["int.key"], None}
<1>1. CASE ReadCaKey
    BY <1>1 DEF ReadCaKey, Types, BuildType
<1>2. CASE StartBuild
    BY <1>2 DEF StartBuild
<1>3. CASE ~ReadCaKey /\ ~StartBuild
    <2>1. \E to : build' = [build EXCEPT !.pc = to]
        BY <1>3
           DEF Building, ReadCaCert, GenAltKey, WriteLeafKey, WriteTbs, SignTbs,
               WriteLeafCert, CheckAltSignature, CheckChain, BuildFails, BuildStep
    <2> QED
        BY <2>1 DEF Types, BuildType
<1> QED
    BY <1>1, <1>2, <1>3

\* catalyst_build.py writes into the directory of the Catalyst chain alone.
LEMMA BuildLeavesOthers ==
    ASSUME Types, Building
    PROVE  BuildLeaves
BY DEF Types, FilesType, Building, StartBuild, ReadCaKey, ReadCaCert, GenAltKey,
       WriteLeafKey, WriteTbs, SignTbs, WriteLeafCert, CheckAltSignature,
       CheckChain, BuildFails, BuildStep, BuildLeaves, minting, bundling

\* Every value that bundle() copies has a type.
LEMMA CopyTypes ==
    ASSUME Types, StartHarness \/ CopyFile \/ CopyFails
    PROVE  BundlesType'
<1> USE DEF Types
<1>1. /\ copy.pc \in BundleFiles \cup {"idle"} /\ copy.at \in 1 .. Len(CHAINS)
      /\ Len(CHAINS) \in Nat
    BY CorpusAssumption DEF BundlesType
<1>2. Name \in Names /\ Name \in Dirs /\ CaOf(Name) \in Dirs
    BY <1>1 DEF Name, Names, Elements, Dirs, CaOf
<1>3. copy' \in [pc : BundleFiles \cup {"idle"}, at : 1 .. Len(CHAINS)]
    <2>1. CASE StartHarness \/ CopyFails
        BY <1>1, <2>1, NextCopyFacts
           DEF StartHarness, CopyFails, BundlesType, BundleFiles
    <2>2. CASE CopyFile
        <3>1. CASE ~LastCopy
            <4>1. /\ copy' = [copy EXCEPT !.pc = Following(Copies, copy.pc)]
                  /\ copy.pc \in BundleFiles \ {"leaf.key"}
                BY <1>1, <2>2, <3>1, NextCopyFacts DEF CopyFile, LastCopy
            <4>2. Following(Copies, copy.pc) \in BundleFiles
                BY <4>1, NextCopyFacts DEF BundleFiles
            <4> HIDE DEF Following
            <4> QED
                BY <4>1, <4>2 DEF BundlesType
        <3>2. CASE LastCopy
            BY <1>1, <2>2, <3>2, NextCopyFacts DEF CopyFile, BundleFiles
        <3> QED
            BY <3>1, <3>2
    <2> QED
        BY <2>1, <2>2
<1>4. copied' \in [Names -> BOOLEAN]
    BY <1>2 DEF StartHarness, CopyFile, CopyFails, LastCopy, BundlesType
<1>5. \/ bundles' = bundles
      \/ /\ copy.pc # "idle"
         /\ \/ bundles' = [bundles EXCEPT ![Name][copy.pc] = SourceOf(copy.pc)]
            \/ bundles' = [bundles EXCEPT ![Name][copy.pc] = TornCopy(copy.pc)]
    BY DEF StartHarness, CopyFile, CopyFails
<1>6. /\ copy.pc = "leaf.key" =>
             SourceOf(copy.pc) \in Gens /\ TornCopy(copy.pc) \in Gens
      /\ copy.pc = "leaf.crt" =>
             SourceOf(copy.pc) \in Certs /\ TornCopy(copy.pc) \in Certs
    <2>1. CASE copy.pc = "leaf.key"
        BY <1>2, <2>1
           DEF SourceOf, TornCopy, BundlesType, FilesType, KeyFiles, NewKeys, Gens
    <2>2. CASE copy.pc = "leaf.crt"
        BY <1>2, <2>2
           DEF SourceOf, TornCopy, FilesType, CertFiles, Gens, Certs, Cert, TornCert
    <2> QED
        BY <2>1, <2>2
<1>7. /\ bundles' = [b \in Names |-> [f \in BundleFiles |-> bundles'[b][f]]]
      /\ \A b \in Names : bundles'[b]["leaf.key"] \in Gens
                          /\ bundles'[b]["leaf.crt"] \in Certs
    <2>1. /\ bundles = [b \in Names |-> [f \in BundleFiles |-> bundles[b][f]]]
          /\ \A b \in Names : bundles[b]["leaf.key"] \in Gens
                              /\ bundles[b]["leaf.crt"] \in Certs
        BY DEF BundlesType
    <2>2. CASE bundles' = bundles
        BY <2>1, <2>2
    <2>3. ASSUME NEW v, copy.pc # "idle",
                 bundles' = [bundles EXCEPT ![Name][copy.pc] = v],
                 copy.pc = "leaf.key" => v \in Gens,
                 copy.pc = "leaf.crt" => v \in Certs
          PROVE  /\ bundles' = [b \in Names |-> [f \in BundleFiles |-> bundles'[b][f]]]
                 /\ \A b \in Names : bundles'[b]["leaf.key"] \in Gens
                                     /\ bundles'[b]["leaf.crt"] \in Certs
        BY <1>1, <1>2, <2>1, <2>3 DEF BundleFiles
    <2> HIDE DEF Types
    <2> QED
        BY <1>5, <1>6, <2>2, <2>3
<1> QED
    BY <1>3, <1>4, <1>7 DEF BundlesType

\* After a chain comes the next, or the end.
LEMMA NextRound ==
    ASSUME Types, NEW s \in Scripts, VerifyChain(s)
    PROVE  LET at == mint[s].at IN
           \/ /\ at + 1 \in 1 .. Len(Rounds(s))
              /\ mint' = [mint EXCEPT ![s] = mint'[s]]
              /\ mint'[s] = [pc |-> FirstCommand(s, at + 1),
                             call |-> mint[s].call, at |-> at + 1]
           \/ /\ at = Len(Rounds(s))
              /\ mint' = [mint EXCEPT ![s] = mint'[s]]
              /\ mint'[s] = [pc |-> "done", call |-> mint[s].call, at |-> at]
<1> DEFINE at == mint[s].at
<1>1. /\ mint[s] \in [pc : ChainCommands \cup SanCommands \cup Resting,
                      call : Calls, at : Nat]
      /\ DOMAIN mint = Scripts /\ mint = [t \in Scripts |-> mint[t]]
    BY DEF Types, MintType
<1>2. at \in 1 .. Len(Rounds(s)) /\ Len(Rounds(s)) \in Nat
    BY ListFacts DEF Types, InRound
<1>3. CASE HasNextChain(s)
    <2>1. mint' = [mint EXCEPT ![s] = [pc |-> FirstCommand(s, at + 1),
                                       call |-> mint[s].call, at |-> at + 1]]
        BY <1>3 DEF VerifyChain
    <2>3. mint'[s] = [pc |-> FirstCommand(s, at + 1), call |-> mint[s].call,
                      at |-> at + 1]
        BY <1>1, <2>1
    <2>4. mint' = [mint EXCEPT ![s] = mint'[s]]
        BY <1>1, <2>1, <2>3
    <2>5. at + 1 \in 1 .. Len(Rounds(s))
        BY <1>2, <1>3 DEF HasNextChain
    <2> QED
        BY <2>3, <2>4, <2>5
<1>4. CASE ~HasNextChain(s)
    <2>1. [mint[s] EXCEPT !.pc = "done"]
              = [pc |-> "done", call |-> mint[s].call, at |-> at]
        BY <1>1
    <2>2. mint' = [mint EXCEPT ![s] = [mint[s] EXCEPT !.pc = "done"]]
        BY <1>4 DEF VerifyChain
    <2>3. mint'[s] = [pc |-> "done", call |-> mint[s].call, at |-> at]
        BY <1>1, <2>1, <2>2
    <2>4. mint' = [mint EXCEPT ![s] = mint'[s]]
        BY <1>1, <2>1, <2>2, <2>3
    <2>5. at = Len(Rounds(s))
        BY <1>2, <1>4 DEF HasNextChain
    <2> QED
        BY <2>3, <2>4, <2>5
<1> QED
    BY <1>3, <1>4

\* The first commands of a chain and of a ladder.
LEMMA FirstCommands ==
    ASSUME NEW s \in Scripts, NEW at \in Nat
    PROVE  FirstCommand(s, at) = IF at <= Len(ChainsOf(s)) THEN "root.key"
                                 ELSE "san.csr"
BY DEF FirstCommand, Commands, LadderCommands

\* One script moves, to a place of a round of its own.
Moves(s) ==
    /\ calls' \in Calls /\ calls <= calls'
    /\ mint' = [mint EXCEPT ![s] = mint'[s]]
    /\ mint'[s] \in [pc : ChainCommands \cup SanCommands \cup Resting,
                     call : Calls, at : Nat]
    /\ mint'[s].call <= calls'
    /\ mint'[s].at \in 1 .. Len(Rounds(s))
    /\ mint'[s].pc \notin Resting =>
           (mint'[s].pc \in ChainCommands <=> mint'[s].at <= Len(ChainsOf(s)))

\* A script that moves on stays in the range of its commands and rounds.
LEMMA MovesInRound ==
    ASSUME Types, NEW s \in Scripts, Moves(s)
    PROVE  MintType' /\ InRound'
<1>1. MintType'
    BY DEF Moves, Types, MintType
<1>2. \A t \in Scripts \ {s} : mint'[t] = mint[t]
    BY DEF Moves, Types, MintType
<1>3. ASSUME NEW t \in Scripts PROVE mint'[t].call <= calls'
    <2>1. /\ mint[t].call <= calls /\ calls <= calls'
          /\ mint[t].call \in Int /\ calls \in Int /\ calls' \in Int
        BY CorpusAssumption DEF Types, MintType, InRound, Moves, Calls
    <2> QED
        BY <1>2, <2>1 DEF Moves
<1>4. ASSUME NEW t \in Scripts PROVE mint'[t].at \in 1 .. Len(Rounds(t))
    BY <1>2 DEF Types, InRound, Moves
<1>5. ASSUME NEW t \in Scripts, mint'[t].pc \notin Resting
      PROVE  mint'[t].pc \in ChainCommands <=> mint'[t].at <= Len(ChainsOf(t))
    <2>1. CASE t = s
        BY <1>5, <2>1 DEF Moves
    <2>2. CASE t # s
        BY <1>2, <1>5, <2>2 DEF Types, InRound, Running
    <2> QED
        BY <2>1, <2>2
<1> QED
    BY <1>1, <1>3, <1>4, <1>5 DEF InRound, Running

\* Every step of a mint script is a move of it.
LEMMA MintMoves ==
    ASSUME Types, NEW s \in Scripts,
           StartMint(s) \/ WritesOwn(s) \/ VerifyChain(s) \/ CommandFails(s)
    PROVE  Moves(s)
<1> USE DEF Types
<1>1. /\ calls \in Calls /\ mint[s].call \in Calls /\ mint[s].call <= calls
      /\ mint[s].at \in 1 .. Len(Rounds(s)) /\ Calls \subseteq Int
      /\ mint[s].at \in Nat
      /\ Len(Rounds(s)) \in Nat /\ Len(ChainsOf(s)) \in Nat
      /\ 1 <= Len(ChainsOf(s)) /\ Len(ChainsOf(s)) <= Len(Rounds(s))
    BY ListFacts, CorpusAssumption DEF MintType, InRound, Calls
<1>2. /\ "root.key" \in ChainCommands /\ "san.csr" \in SanCommands
      /\ "san.csr" \notin ChainCommands
      /\ "done" \in Resting /\ "failed" \in Resting
    BY DEF ChainCommands, SanCommands, ChainFiles, SanFiles, KeyFiles, NewKeys,
           Resting
<1>3. CASE StartMint(s)
    <2>1. /\ mint' = [mint EXCEPT ![s] =
                        [pc |-> "root.key", call |-> calls + 1, at |-> 1]]
          /\ calls' = calls + 1 /\ calls <= MaxCalls
        BY <1>3 DEF StartMint, Commands
    <2>2. calls + 1 \in Calls /\ calls <= calls'
        BY <1>1, <2>1, CorpusAssumption DEF Calls
    <2>3. mint'[s] = [pc |-> "root.key", call |-> calls + 1, at |-> 1]
        BY <2>1 DEF MintType
    <2>4. 1 \in 1 .. Len(Rounds(s)) /\ 1 <= Len(ChainsOf(s)) /\ 1 \in Nat
        BY <1>1
    <2>5. mint' = [mint EXCEPT ![s] = mint'[s]]
        BY <2>1, <2>3
    <2> QED
        BY <1>1, <1>2, <2>1, <2>2, <2>3, <2>4, <2>5 DEF Moves
<1>4. CASE WritesOwn(s)
    <2> DEFINE p == mint'[s].pc
    <2>1. mint' = [mint EXCEPT ![s].pc = p]
        BY NextPlace, <1>4
    <2>2. mint'[s] = [pc |-> p, call |-> mint[s].call, at |-> mint[s].at]
        BY <2>1 DEF MintType
    <2>3. mint' = [mint EXCEPT ![s] = mint'[s]]
        BY <2>1 DEF MintType
    <2>4. /\ p \in ChainCommands \cup SanCommands
          /\ p \in ChainCommands <=> mint[s].pc \in ChainCommands
          /\ Running(s)
        BY <1>4, NextPlace
           DEF Running, Resting, ChainCommands, SanCommands, ChainFiles, SanFiles,
               KeyFiles, CertFiles, NewKeys, Requests
    <2>5. calls' = calls
        BY <1>4 DEF WritesOwn, NextCommand
    <2>6. p \in ChainCommands <=> mint[s].at <= Len(ChainsOf(s))
        BY <2>4 DEF InRound
    <2> HIDE DEF p
    <2>7. mint'[s].pc = p /\ mint'[s].call = mint[s].call /\ mint'[s].at = mint[s].at
        BY <2>2
    <2>8. mint'[s].pc \in ChainCommands <=> mint'[s].at <= Len(ChainsOf(s))
        BY <2>6, <2>7
    <2>9. mint'[s] \in [pc : ChainCommands \cup SanCommands \cup Resting,
                        call : Calls, at : Nat]
        BY <1>1, <2>2, <2>4
    <2> QED
        BY <1>1, <2>3, <2>5, <2>7, <2>8, <2>9 DEF Moves
<1>5. CASE VerifyChain(s)
    <2>1. calls' = calls
        BY <1>5 DEF VerifyChain, minting
    <2>2. CASE mint'[s] = [pc |-> "done", call |-> mint[s].call, at |-> mint[s].at]
        <3>1. mint' = [mint EXCEPT ![s] = mint'[s]]
            BY <1>5, NextRound
        <3> QED
            BY <1>1, <1>2, <2>1, <2>2, <3>1 DEF Moves
    <2>3. CASE mint'[s] # [pc |-> "done", call |-> mint[s].call, at |-> mint[s].at]
        <3> DEFINE at == mint[s].at + 1
        <3>1. /\ at \in 1 .. Len(Rounds(s))
              /\ mint' = [mint EXCEPT ![s] = mint'[s]]
              /\ mint'[s] = [pc |-> FirstCommand(s, at), call |-> mint[s].call,
                             at |-> at]
            BY <1>5, <2>3, NextRound
        <3>2. FirstCommand(s, at) = IF at <= Len(ChainsOf(s)) THEN "root.key"
                                    ELSE "san.csr"
            BY <3>1, FirstCommands
        <3>3. CASE at <= Len(ChainsOf(s))
            BY <1>1, <1>2, <2>1, <3>1, <3>2, <3>3 DEF Moves
        <3>4. CASE ~(at <= Len(ChainsOf(s)))
            BY <1>1, <1>2, <2>1, <3>1, <3>2, <3>4 DEF Moves
        <3> QED
            BY <3>3, <3>4
    <2> QED
        BY <2>2, <2>3
<1>6. CASE CommandFails(s)
    <2>1. mint' = [mint EXCEPT ![s].pc = "failed"] /\ calls' = calls
        BY <1>6 DEF CommandFails
    <2>2. mint'[s] = [pc |-> "failed", call |-> mint[s].call, at |-> mint[s].at]
        BY <2>1 DEF MintType
    <2>3. mint' = [mint EXCEPT ![s] = mint'[s]]
        BY <2>1 DEF MintType
    <2> QED
        BY <1>1, <1>2, <2>1, <2>2, <2>3 DEF Moves
<1> QED
    BY <1>3, <1>4, <1>5, <1>6

\* Every step keeps the types.
LEMMA TypesStep == Types /\ Progress /\ [Next]_vars => Types'
<1> SUFFICES ASSUME Types, Progress, [Next]_vars PROVE Types'
    OBVIOUS
<1>1. calls \in Int /\ build.call \in Int /\ build.call <= calls
    BY CorpusAssumption DEF Types, MintType, BuildType, Calls
<1>2. ASSUME NEW s \in Scripts,
             StartMint(s) \/ WritesOwn(s) \/ VerifyChain(s) \/ CommandFails(s)
      PROVE  Types'
    <2>1. Moves(s) /\ MintType' /\ InRound'
        BY <1>2, MintMoves, MovesInRound
    <2>2. build' = build /\ copy' = copy /\ bundles' = bundles /\ copied' = copied
        BY <1>2
           DEF StartMint, WritesOwn, NextCommand, VerifyChain, CommandFails,
               catalyst, bundling
    <2>3. FilesType'
        BY <1>2, CommandTouches
           DEF StartMint, VerifyChain, minting, Types, FilesType
    <2>4. calls' \in Int /\ calls <= calls'
        BY <2>1, CorpusAssumption DEF Moves, Calls
    <2>5. BuildType'
        BY <1>1, <2>2, <2>4 DEF Types, BuildType
    <2>6. BundlesType'
        BY <2>2 DEF Types, BundlesType
    <2> QED
        BY <2>1, <2>3, <2>5, <2>6 DEF Types
<1>3. CASE Building
    <2>1. /\ FilesType' /\ BuildType' /\ calls' \in Calls /\ calls <= calls'
          /\ UNCHANGED <<mint, bundling>>
        BY <1>3, BuildTypes, BuildLeavesOthers DEF BuildLeaves
    <2>2. calls \in Int /\ calls' \in Int
          /\ \A s \in Scripts : mint[s].call \in Int
        BY <2>1, CorpusAssumption DEF Types, MintType, Calls
    <2>3. MintType'
        BY <2>1 DEF Types, MintType
    <2>4. \A s \in Scripts : mint'[s].call <= calls'
        BY <2>1, <2>2 DEF Types, InRound
    <2>5. InRound'
        BY <2>1, <2>4 DEF Types, InRound, Running
    <2>6. BundlesType'
        BY <2>1 DEF Types, BundlesType, bundling
    <2> QED
        BY <2>1, <2>3, <2>5, <2>6 DEF Types
<1>4. CASE StartHarness \/ CopyFile \/ CopyFails
    <2>1. UNCHANGED <<minting, mint, catalyst>> /\ BundlesType'
        BY <1>4, CopyTypes DEF StartHarness, CopyFile, CopyFails
    <2> QED
        BY <2>1 DEF Types, MintType, InRound, Running, FilesType, BuildType,
                    minting, catalyst
<1>5. CASE UNCHANGED vars
    BY <1>5 DEF Types, MintType, InRound, Running, FilesType, BuildType,
                BundlesType, vars, minting, catalyst, bundling
<1> QED
    BY <1>2, <1>3, <1>4, <1>5, NextCases

-----------------------------------------------------------------------------
(* Progress: no step of another actor disturbs what a script has done. *)

\* Nothing of a script changes, in its place or in its directories.
Undisturbed(s) ==
    /\ mint'[s] = mint[s]
    /\ \A d \in Elements(ChainsOf(s)) : keys'[d] = keys[d] /\ crts'[d] = crts[d]

\* A directory none of whose files changes is as it was.
LEMMA SameFiles ==
    ASSUME Types, FilesType', NEW d \in Dirs,
           \A x \in KeyFiles : keys'[d][x] = keys[d][x],
           \A x \in CertFiles : crts'[d][x] = crts[d][x]
    PROVE  keys'[d] = keys[d] /\ crts'[d] = crts[d]
BY DEF Types, FilesType

\* A script leaves the files of another and its place in them alone.
LEMMA OthersUndisturbed ==
    ASSUME Types, NEW s \in Scripts, NEW t \in Scripts \ {s},
           StartMint(t) \/ WritesOwn(t) \/ VerifyChain(t) \/ CommandFails(t)
    PROVE  Undisturbed(s)
<1>1. mint'[s] = mint[s]
    BY MintMoves DEF Moves, Types, MintType
<1>2. CASE StartMint(t) \/ VerifyChain(t)
    BY <1>1, <1>2 DEF StartMint, VerifyChain, minting, Undisturbed
<1>3. CASE WritesOwn(t) \/ CommandFails(t)
    <2>1. OnlyItsFile(t) /\ FilesType'
        BY <1>3, CommandTouches
    <2>2. ChainOf(t) \in Elements(ChainsOf(t))
        BY OwnerFacts DEF Types, InRound, ChainOf
    <2>3. ASSUME NEW d \in Elements(ChainsOf(s))
          PROVE  keys'[d] = keys[d] /\ crts'[d] = crts[d]
        <3>1. d # ChainOf(t) /\ d \in Dirs
            BY <2>2, OwnerFacts
        <3>2. /\ \A x \in KeyFiles : keys'[d][x] = keys[d][x]
              /\ \A x \in CertFiles : crts'[d][x] = crts[d][x]
            BY <2>1, <3>1 DEF OnlyItsFile
        <3> QED
            BY <2>1, <3>1, <3>2, SameFiles
    <2> QED
        BY <1>1, <2>3 DEF Undisturbed
<1> QED
    BY <1>2, <1>3

\* The build and the harness disturb none.
LEMMA AllUndisturbed ==
    ASSUME Types, NEW s \in Scripts,
           Building \/ StartHarness \/ CopyFile \/ CopyFails \/ UNCHANGED vars
    PROVE  Undisturbed(s)
<1>1. CASE Building
    <2>1. \A d \in Elements(ChainsOf(s)) : d \in Dirs \ {Catalyst}
        BY OwnerFacts, ListFacts DEF Elements
    <2> QED
        BY <1>1, <2>1, BuildLeavesOthers DEF BuildLeaves, Undisturbed
<1>2. CASE ~Building
    BY <1>2 DEF StartHarness, CopyFile, CopyFails, vars, minting, Undisturbed
<1> QED
    BY <1>1, <1>2

\* The order of the commands is the order of the files.
LEMMA RankFacts ==
    /\ \A f \in ChainFiles : Rank(f) \in 1 .. 8
    /\ \A f \in SanFiles : Rank(f) \in 10 .. 11
    /\ \A f, g \in ChainFiles \cup SanFiles : Rank(f) = Rank(g) => f = g
    /\ Rank("verify") = 9 /\ Rank("san.verify") = 12
    /\ Rank("root.key") = 1 /\ Rank("san.csr") = 10
    /\ ChainFiles \cup SanFiles = KeyFiles \cup CertFiles
    /\ KeyFiles \cap CertFiles = {}
    /\ ChainFiles \cap SanFiles = {}
BY DEF Rank, ChainFiles, SanFiles, KeyFiles, CertFiles, NewKeys, Requests

ProgressOf(s) ==
    mint[s].pc \notin {"idle", "failed"} =>
        \A i \in 1 .. Len(Rounds(s)) : \A f \in FilesOf(s, i) :
            Settled(s, i, f) => IsOfCall(Rounds(s)[i], f, mint[s].call)

\* What a script has done stays done while it is not disturbed.
LEMMA UndisturbedProgress ==
    ASSUME Types, NEW s \in Scripts, ProgressOf(s), Undisturbed(s)
    PROVE  ProgressOf(s)'
<1>1. \A i \in 1 .. Len(Rounds(s)) :
          /\ keys'[Rounds(s)[i]] = keys[Rounds(s)[i]]
          /\ crts'[Rounds(s)[i]] = crts[Rounds(s)[i]]
    BY OwnerFacts DEF Undisturbed
<1>2. mint'[s] = mint[s]
    BY DEF Undisturbed
<1> QED
    BY <1>1, <1>2 DEF ProgressOf, Settled, IsOfCall

\* A command adds its file to what the call has written.
LEMMA WriteProgress ==
    ASSUME Types, NEW s \in Scripts, ProgressOf(s), WritesOwn(s)
    PROVE  ProgressOf(s)'
<1> DEFINE c == mint[s].call
           at == mint[s].at
           g == mint[s].pc
           Becomes(d, f) == /\ f \in KeyFiles => keys'[d][f] = c
                            /\ f \in CertFiles => crts'[d][f] = Cert(c, c)
<1>1. /\ mint'[s].call = c /\ mint'[s].at = at /\ Running(s)
      /\ Rank(mint'[s].pc) = Rank(g) + 1
      /\ g \in ChainFiles \cup SanFiles
      /\ mint'[s].pc # "done"
    BY NextPlace, CommandTouches
       DEF Types, MintType, ChainCommands, SanCommands, ChainFiles, SanFiles,
           KeyFiles, CertFiles, NewKeys, Requests
<1>2. /\ ChainOf(s) = Rounds(s)[at] /\ at \in 1 .. Len(Rounds(s)) /\ at \in Nat
      /\ ChainOf(s) \in Dirs /\ c \in Gens
    BY OwnerFacts DEF ChainOf, Types, InRound, MintType, Gens
<1>3. /\ OnlyItsFile(s)
      /\ Becomes(ChainOf(s), g)
    <2>1. CASE g \in KeyFiles
        <3>1. keys' = [keys EXCEPT ![ChainOf(s)][g] = c] /\ g \notin CertFiles
            BY <2>1, RankFacts DEF WritesOwn
        <3>2. keys'[ChainOf(s)][g] = c
            BY <1>2, <2>1, <3>1, KeyWritten DEF Types
        <3> QED
            BY <3>1, <3>2, CommandTouches
    <2>2. CASE g \notin KeyFiles
        <3>1. /\ crts' = [crts EXCEPT ![ChainOf(s)][g] = Cert(c, c)]
              /\ g \in CertFiles
            BY <1>1, <2>2, RankFacts DEF WritesOwn
        <3>2. crts'[ChainOf(s)][g] = Cert(c, c)
            <4>1. Cert(c, c) \in Certs
                BY <1>2 DEF Cert, Certs
            <4> QED
                BY <1>2, <3>1, <4>1, CertWritten DEF Types
        <3> QED
            BY <2>2, <3>1, <3>2, CommandTouches
    <2> QED
        BY <2>1, <2>2
<1>4. ASSUME NEW i \in 1 .. Len(Rounds(s)), NEW f \in FilesOf(s, i),
             Settled(s, i, f)'
      PROVE  Becomes(Rounds(s)[i], f)
    <2>1. /\ f \in ChainFiles \cup SanFiles /\ i \in Nat
          /\ Rounds(s)[i] \in Dirs
          /\ Rank(f) \in Nat /\ Rank(g) \in Nat
        BY <1>1, RankFacts, OwnerFacts, ListFacts DEF FilesOf
    <2>2. Settled(s, i, f) \/ (i = at /\ f = g)
        BY <1>1, <1>2, <1>4, <2>1, RankFacts DEF Settled
    <2>3. CASE Settled(s, i, f)
        <3>1. IsOfCall(Rounds(s)[i], f, c)
            BY <1>1, <2>3 DEF ProgressOf, Running, Resting
        <3>2. CASE Rounds(s)[i] = ChainOf(s) /\ f = g
            BY <1>3, <3>2
        <3>3. CASE ~(Rounds(s)[i] = ChainOf(s) /\ f = g)
            <4>1. /\ f \in KeyFiles => keys'[Rounds(s)[i]][f] = keys[Rounds(s)[i]][f]
                  /\ f \in CertFiles => crts'[Rounds(s)[i]][f] = crts[Rounds(s)[i]][f]
                BY <1>3, <2>1, <3>3 DEF OnlyItsFile
            <4> QED
                BY <3>1, <4>1 DEF IsOfCall
        <3> QED
            BY <3>2, <3>3
    <2>4. CASE i = at /\ f = g
        BY <1>2, <1>3, <2>4
    <2> QED
        BY <2>2, <2>3, <2>4
<1> QED
    BY <1>1, <1>4 DEF ProgressOf, IsOfCall

\* A call that starts has written nothing yet.
LEMMA StartProgress ==
    ASSUME Types, NEW s \in Scripts, StartMint(s)
    PROVE  ProgressOf(s)'
<1>1. mint'[s] = [pc |-> "root.key", call |-> calls + 1, at |-> 1]
    BY DEF StartMint, Commands, Types, MintType
<1>2. ASSUME NEW i \in 1 .. Len(Rounds(s)), NEW f \in FilesOf(s, i)
      PROVE  ~Settled(s, i, f)'
    <2>1. i # 1 \/ f \in ChainFiles
        BY ListFacts DEF FilesOf
    <2>2. /\ mint'[s].pc = "root.key" /\ mint'[s].at = 1
          /\ i \in Nat /\ i >= 1
        BY <1>1, ListFacts
    <2> QED
        BY <2>1, <2>2, RankFacts DEF Settled
<1> QED
    BY <1>2 DEF ProgressOf

\* A chain is left with all its files of this call.
LEMMA NextRoundProgress ==
    ASSUME Types, NEW s \in Scripts, ProgressOf(s), VerifyChain(s)
    PROVE  ProgressOf(s)'
<1> DEFINE c == mint[s].call
           at == mint[s].at
           g == mint[s].pc
<1>1. /\ UNCHANGED <<keys, crts>> /\ g \in {"verify", "san.verify"}
      /\ Running(s)
    BY DEF VerifyChain, minting, Checks, Running, Resting
<1>2. /\ at \in 1 .. Len(Rounds(s)) /\ at \in Nat
      /\ Len(Rounds(s)) \in Nat /\ Len(ChainsOf(s)) \in Nat
      /\ g \in ChainCommands <=> at <= Len(ChainsOf(s))
    BY <1>1, ListFacts DEF Types, InRound, MintType
<1>3. Rank(g) = IF at <= Len(ChainsOf(s)) THEN 9 ELSE 12
    BY <1>1, <1>2, RankFacts
       DEF ChainCommands, ChainFiles, KeyFiles, CertFiles, NewKeys, Requests
<1>4. ASSUME NEW i \in 1 .. Len(Rounds(s)), NEW f \in FilesOf(s, i), i <= at
      PROVE  IsOfCall(Rounds(s)[i], f, c)
    <2>1. i < at \/ (i = at /\ Rank(f) < Rank(g))
        BY <1>2, <1>3, <1>4, RankFacts DEF FilesOf
    <2>2. Settled(s, i, f)
        BY <2>1 DEF Settled
    <2> QED
        BY <1>1, <2>2 DEF ProgressOf, Running, Resting
<1>5. ASSUME NEW i \in 1 .. Len(Rounds(s)), NEW f \in FilesOf(s, i),
             Settled(s, i, f)'
      PROVE  i <= at
    <2>1. CASE /\ at + 1 \in 1 .. Len(Rounds(s))
               /\ mint'[s] = [pc |-> FirstCommand(s, at + 1), call |-> c,
                              at |-> at + 1]
        <3>1. FirstCommand(s, at + 1) =
                  IF at + 1 <= Len(ChainsOf(s)) THEN "root.key" ELSE "san.csr"
            BY <2>1, FirstCommands
        <3>2. /\ mint'[s].at = at + 1 /\ mint'[s].pc # "done"
              /\ Rank(mint'[s].pc) = IF at + 1 <= Len(ChainsOf(s)) THEN 1 ELSE 10
            BY <2>1, <3>1, RankFacts
        <3>3. CASE i = at + 1
            <4>1. Rank(f) \in Nat /\ Rank(f) >= Rank(mint'[s].pc)
                BY <1>2, <3>2, <3>3, RankFacts DEF FilesOf
            <4>2. Rank(mint'[s].pc) \in Nat
                BY <1>2, <3>2
            <4> QED
                BY <1>2, <1>5, <3>2, <3>3, <4>1, <4>2 DEF Settled
        <3>4. CASE i # at + 1
            BY <1>2, <1>5, <3>2, <3>4 DEF Settled
        <3> QED
            BY <3>3, <3>4
    <2>2. CASE at = Len(Rounds(s))
        BY <1>2, <2>2
    <2> QED
        BY <2>1, <2>2, NextRound
<1>6. mint'[s].call = c
    <2>1. \/ mint'[s] = [pc |-> FirstCommand(s, at + 1), call |-> c, at |-> at + 1]
          \/ mint'[s] = [pc |-> "done", call |-> c, at |-> at]
        BY NextRound
    <2> QED
        BY <2>1
<1> QED
    BY <1>1, <1>4, <1>5, <1>6 DEF ProgressOf, IsOfCall

\* No script runs at first.
LEMMA ProgressInit == Init => Progress
BY DEF Init, Progress

\* Every step keeps the account of what a running script has written.
LEMMA ProgressStep == Types /\ Progress /\ [Next]_vars => Progress'
<1> SUFFICES ASSUME Types, Progress, [Next]_vars, NEW s \in Scripts
             PROVE  ProgressOf(s)'
    BY DEF Progress, ProgressOf
<1>1. ProgressOf(s)
    BY DEF Progress, ProgressOf
<1>2. ASSUME NEW t \in Scripts,
             StartMint(t) \/ WritesOwn(t) \/ VerifyChain(t) \/ CommandFails(t)
      PROVE  ProgressOf(s)'
    <2>1. CASE s # t
        BY <1>1, <1>2, <2>1, OthersUndisturbed, UndisturbedProgress
    <2>2. CASE s = t /\ StartMint(s)
        BY <2>2, StartProgress
    <2>3. CASE s = t /\ WritesOwn(s)
        BY <1>1, <2>3, WriteProgress
    <2>4. CASE s = t /\ VerifyChain(s)
        BY <1>1, <2>4, NextRoundProgress
    <2>5. CASE s = t /\ CommandFails(s)
        BY <2>5 DEF CommandFails, ProgressOf, Types, MintType
    <2> QED
        BY <1>2, <2>1, <2>2, <2>3, <2>4, <2>5
<1>3. CASE Building \/ StartHarness \/ CopyFile \/ CopyFails \/ UNCHANGED vars
    BY <1>1, <1>3, AllUndisturbed, UndisturbedProgress
<1> QED
    BY <1>2, <1>3, NextCases

-----------------------------------------------------------------------------
(* Freshness. *)

\* All files of a checkout are of one call.
LEMMA FreshInit == Init => Bounded /\ Fresh
<1> SUFFICES ASSUME Init PROVE Bounded /\ Fresh
    OBVIOUS
<1>1. /\ calls = 1 /\ build.ca = 0
      /\ \A d \in Dirs : \A f \in CertFiles : crts[d][f] = Cert(1, 1)
      /\ \A d \in Dirs : \A f \in NewKeys : keys[d][f] \in {0, 1}
      /\ \A b \in Names : bundles[b]["leaf.crt"] = Cert(1, 1)
      /\ \A s \in Scripts : ~Running(s)
    BY DEF Init, None, Running, Resting, KeyFiles, NewKeys, Requests, BundleFiles
<1>2. /\ "int.key" \in NewKeys /\ "leaf.key" \in NewKeys
      /\ "int.crt" \in CertFiles /\ "leaf.crt" \in CertFiles
      /\ Cert(1, 1).subject = 1
    BY DEF NewKeys, CertFiles, Cert
<1>3. Bounded
    BY <1>1, <1>2 DEF Bounded
<1>4. Fresh
    BY <1>1 DEF Fresh, FreshAt, Unset
<1> QED
    BY <1>3, <1>4

\* Where a key in a chain's directory comes from, and its bounds.
LEMMA IntFacts ==
    ASSUME Types
    PROVE  /\ calls \in Nat /\ calls \in Calls
           /\ Calls \subseteq Nat /\ Gens \subseteq Int
           /\ \A s \in Scripts : mint[s].call \in Calls /\ mint[s].call <= calls
           /\ \A d \in Dirs : \A f \in KeyFiles : keys[d][f] \in Gens
           /\ \A d \in Dirs : \A f \in CertFiles :
                  crts[d][f].subject \in Gens /\ crts[d][f].issuer \in Gens
           /\ \A b \in Names : bundles[b]["leaf.crt"].subject \in Gens
           /\ build.ca \in Gens \ {Torn} /\ build.call \in Calls
           /\ Torn \notin Calls /\ None \notin Calls
           /\ \A k \in Calls : Torn < k
<1>1. /\ Calls \subseteq Nat /\ Gens \subseteq Int
      /\ Torn \notin Calls /\ None \notin Calls /\ \A k \in Calls : Torn < k
    BY CorpusAssumption DEF Calls, Gens, None, Torn
<1>2. calls \in Calls /\ \A s \in Scripts : mint[s].call \in Calls
    BY DEF Types, MintType
<1>3. \A s \in Scripts : mint[s].call <= calls
    BY DEF Types, InRound
<1>4. \A d \in Dirs : \A f \in KeyFiles : keys[d][f] \in Gens
    BY DEF Types, FilesType
<1>5. \A c \in Certs : c.subject \in Gens /\ c.issuer \in Gens
    BY DEF Certs
<1>6. \A d \in Dirs : \A f \in CertFiles : crts[d][f] \in Certs
    BY DEF Types, FilesType
<1>7. \A b \in Names : bundles[b]["leaf.crt"] \in Certs
    BY DEF Types, BundlesType
<1>8. build.ca \in Gens \ {Torn} /\ build.call \in Calls
    BY DEF Types, BuildType
<1> QED
    BY <1>1, <1>2, <1>3, <1>4, <1>5, <1>6, <1>7, <1>8

\* What bundle() does to the certificate of a chain it copies.
LEMMA LeafCopied ==
    ASSUME Types, StartHarness \/ CopyFile \/ CopyFails,
           NEW b \in Names,
           bundles'[b]["leaf.crt"] # bundles[b]["leaf.crt"]
    PROVE  bundles'[b]["leaf.crt"] \in {crts[b]["leaf.crt"], TornCert}
<1>1. copy.at \in 1 .. Len(CHAINS)
    BY DEF Types, BundlesType
<1>2. Name \in Names
    BY <1>1 DEF Name, Names, Elements
<1>3. CASE StartHarness
    BY <1>3 DEF StartHarness
<1>4. ASSUME NEW v, bundles' = [bundles EXCEPT ![Name][copy.pc] = v]
      PROVE  /\ b = Name /\ copy.pc = "leaf.crt"
             /\ bundles'[b]["leaf.crt"] = v
    <2>1. "leaf.crt" \in BundleFiles
        BY DEF BundleFiles
    <2>2. /\ bundles = [x \in Names |-> [f \in BundleFiles |-> bundles[x][f]]]
          /\ copy.pc \in BundleFiles \cup {"idle"}
        BY DEF Types, BundlesType
    <2> QED
        BY <1>2, <1>4, <2>1, <2>2
<1>5. CASE CopyFile
    BY <1>4, <1>5 DEF CopyFile, SourceOf
<1>6. CASE CopyFails
    BY <1>4, <1>6 DEF CopyFails, TornCopy
<1> QED
    BY <1>3, <1>5, <1>6

\* No key or certificate is of a call that has not begun.
LEMMA BoundedStep ==
    ASSUME Types, Types', Progress, Bounded, [Next]_vars
    PROVE  Bounded'
<1>1. /\ calls \in Nat /\ calls' \in Nat /\ calls <= calls'
      /\ Torn <= calls' /\ TornCert.subject = Torn
      /\ "int.key" \in KeyFiles /\ "leaf.key" \in KeyFiles
      /\ "int.crt" \in CertFiles /\ "leaf.crt" \in CertFiles
    <2>1. calls <= calls'
        <3>1. ASSUME NEW s \in Scripts,
                     \/ StartMint(s) \/ WritesOwn(s) \/ VerifyChain(s)
                     \/ CommandFails(s)
              PROVE  calls <= calls'
            BY <3>1, MintMoves DEF Moves
        <3>2. CASE Building
            BY <3>2, BuildTypes
        <3>3. CASE StartHarness \/ CopyFile \/ CopyFails \/ UNCHANGED vars
            <4>1. calls' = calls
                BY <3>3 DEF StartHarness, CopyFile, CopyFails, vars, minting
            <4> QED
                BY <4>1, IntFacts
        <3> QED
            BY <3>1, <3>2, <3>3, NextCases
    <2>2. calls' \in Nat
        BY CorpusAssumption DEF Types, MintType, Calls
    <2> QED
        BY <2>1, <2>2, IntFacts
           DEF Torn, TornCert, Cert, KeyFiles, NewKeys, CertFiles
<1>2. ASSUME NEW d \in Dirs \ {Catalyst}
      PROVE  /\ keys'[d]["int.key"] <= calls' /\ keys'[d]["leaf.key"] <= calls'
             /\ crts'[d]["int.crt"].subject <= calls'
             /\ crts'[d]["leaf.crt"].subject <= calls'
    <2>1. /\ keys[d]["int.key"] <= calls /\ keys[d]["leaf.key"] <= calls
          /\ crts[d]["int.crt"].subject <= calls
          /\ crts[d]["leaf.crt"].subject <= calls
          /\ keys[d]["int.key"] \in Int /\ keys[d]["leaf.key"] \in Int
          /\ crts[d]["int.crt"].subject \in Int
          /\ crts[d]["leaf.crt"].subject \in Int
        BY <1>1, IntFacts DEF Bounded
    <2>2. CASE keys'[d] = keys[d] /\ crts'[d] = crts[d]
        BY <1>1, <2>1, <2>2
    <2>3. ASSUME NEW s \in Scripts, WritesOwn(s) \/ CommandFails(s)
          PROVE  /\ keys'[d]["int.key"] <= calls' /\ keys'[d]["leaf.key"] <= calls'
                 /\ crts'[d]["int.crt"].subject <= calls'
                 /\ crts'[d]["leaf.crt"].subject <= calls'
        <3>1. /\ mint[s].call <= calls /\ mint[s].call \in Nat
              /\ Cert(mint[s].call, mint[s].call).subject = mint[s].call
            BY IntFacts DEF Cert
        <3>2. /\ \A x \in KeyFiles : keys'[d][x] # keys[d][x] =>
                     keys'[d][x] \in {mint[s].call, Torn}
              /\ \A x \in CertFiles : crts'[d][x] # crts[d][x] =>
                     crts'[d][x] \in {Cert(mint[s].call, mint[s].call), TornCert}
            BY <2>3, CommandTouches DEF OnlyItsFile
        <3>3. \A x \in KeyFiles : keys[d][x] \in Int /\ keys[d][x] <= calls =>
                                      keys'[d][x] <= calls'
            BY <1>1, <3>1, <3>2
        <3>4. \A x \in CertFiles :
                  crts[d][x].subject \in Int /\ crts[d][x].subject <= calls =>
                      crts'[d][x].subject <= calls'
            BY <1>1, <3>1, <3>2
        <3> QED
            BY <1>1, <2>1, <3>3, <3>4
    <2>4. ASSUME NEW s \in Scripts, StartMint(s) \/ VerifyChain(s)
          PROVE  keys'[d] = keys[d] /\ crts'[d] = crts[d]
        BY <2>4 DEF StartMint, VerifyChain, minting
    <2>5. CASE Building
        BY <2>2, <2>5, BuildLeavesOthers DEF BuildLeaves
    <2>6. CASE StartHarness \/ CopyFile \/ CopyFails \/ UNCHANGED vars
        BY <2>2, <2>6 DEF StartHarness, CopyFile, CopyFails, vars, minting
    <2> QED
        BY <2>2, <2>3, <2>4, <2>5, <2>6, NextCases
<1>3. ASSUME NEW b \in Names \ {Catalyst}
      PROVE  bundles'[b]["leaf.crt"].subject <= calls'
    <2>1. /\ bundles[b]["leaf.crt"].subject <= calls
          /\ bundles[b]["leaf.crt"].subject \in Int
          /\ crts[b]["leaf.crt"].subject <= calls
          /\ crts[b]["leaf.crt"].subject \in Int
        BY <1>1, IntFacts DEF Bounded, Dirs
    <2>2. CASE bundles'[b]["leaf.crt"] = bundles[b]["leaf.crt"]
        BY <1>1, <2>1, <2>2
    <2>3. CASE StartHarness \/ CopyFile \/ CopyFails
        BY <1>1, <2>1, <2>2, <2>3, LeafCopied
    <2>4. ASSUME NEW s \in Scripts,
                 \/ StartMint(s) \/ WritesOwn(s) \/ VerifyChain(s) \/ CommandFails(s)
          PROVE  bundles' = bundles
        BY <2>4 DEF StartMint, WritesOwn, NextCommand, VerifyChain, CommandFails,
                    bundling
    <2>5. CASE Building \/ UNCHANGED vars
        BY <2>2, <2>5, BuildLeavesOthers DEF BuildLeaves, vars, bundling
    <2> QED
        BY <2>2, <2>3, <2>4, <2>5, NextCases
<1>4. build'.ca <= calls'
    <2>1. build.ca <= calls /\ build.ca \in Int
        BY IntFacts DEF Bounded
    <2>2. CASE build'.ca = build.ca
        BY <1>1, <2>1, <2>2
    <2>3. CASE Building
        <3>1. ECDSA \in Dirs \ {Catalyst}
            BY OwnerFacts DEF Dirs
        <3>2. keys[ECDSA]["int.key"] <= calls /\ keys[ECDSA]["int.key"] \in Int
            BY <1>1, <3>1, IntFacts DEF Bounded
        <3> QED
            BY <1>1, <2>1, <2>3, <3>2, BuildReads DEF None
    <2>4. ASSUME NEW s \in Scripts,
                 \/ StartMint(s) \/ WritesOwn(s) \/ VerifyChain(s) \/ CommandFails(s)
          PROVE  build' = build
        BY <2>4 DEF StartMint, WritesOwn, NextCommand, VerifyChain, CommandFails,
                    catalyst
    <2>5. CASE StartHarness \/ CopyFile \/ CopyFails \/ UNCHANGED vars
        BY <2>2, <2>5 DEF StartHarness, CopyFile, CopyFails, vars, catalyst
    <2> QED
        BY <2>2, <2>3, <2>4, <2>5, NextCases
<1> QED
    BY <1>2, <1>3, <1>4 DEF Bounded

\* Whoever else moves, a script stays as fresh.
LEMMA UndisturbedFresh ==
    ASSUME Types, NEW s \in Scripts, NEW i \in 1 .. Len(ChainsOf(s)),
           FreshAt(s, i), Undisturbed(s),
           LET d == ChainsOf(s)[i] c == mint[s].call
           IN /\ Unset(s, i, "leaf.crt") /\ d \in Names =>
                     bundles'[d]["leaf.crt"].subject # c
              /\ Unset(s, i, "int.key") /\ d = ECDSA => build'.ca # c
    PROVE  FreshAt(s, i)'
<1> DEFINE d == ChainsOf(s)[i]
<1>1. mint'[s] = mint[s] /\ keys'[d] = keys[d] /\ crts'[d] = crts[d]
    BY DEF Undisturbed, Elements
<1> QED
    BY <1>1 DEF FreshAt, Unset, Running

\* A call that starts has a number no file has.
LEMMA StartFresh ==
    ASSUME Types, Bounded, NEW s \in Scripts, NEW i \in 1 .. Len(ChainsOf(s)),
           StartMint(s)
    PROVE  FreshAt(s, i)'
<1> DEFINE d == ChainsOf(s)[i]
<1>1. /\ mint'[s].call = calls + 1
      /\ UNCHANGED <<keys, crts, build, bundles>>
    BY DEF StartMint, Types, MintType, catalyst, bundling
<1>2. d \in Dirs \ {Catalyst}
    BY OwnerFacts DEF Elements
<1>3. /\ keys[d]["int.key"] # calls + 1 /\ keys[d]["leaf.key"] # calls + 1
      /\ crts[d]["int.crt"].subject # calls + 1
      /\ crts[d]["leaf.crt"].subject # calls + 1
      /\ d \in Names => bundles[d]["leaf.crt"].subject # calls + 1
      /\ build.ca # calls + 1
    BY <1>2, IntFacts DEF Bounded
<1> QED
    BY <1>1, <1>3 DEF FreshAt

\* A command leaves the files it has not come to older than the call.
LEMMA WriteFresh ==
    ASSUME Types, NEW s \in Scripts, NEW i \in 1 .. Len(ChainsOf(s)),
           FreshAt(s, i), WritesOwn(s)
    PROVE  FreshAt(s, i)'
<1> DEFINE d == ChainsOf(s)[i]
           at == mint[s].at
<1>1. /\ mint'[s].call = mint[s].call /\ mint'[s].at = at
      /\ Rank(mint'[s].pc) = Rank(mint[s].pc) + 1
      /\ mint[s].pc \in ChainFiles \cup SanFiles /\ Running(s)
      /\ build' = build /\ bundles' = bundles
    <2>1. build' = build /\ bundles' = bundles
        BY DEF WritesOwn, NextCommand, catalyst, bundling
    <2>2. mint' = [mint EXCEPT ![s].pc = mint'[s].pc]
        BY NextPlace
    <2>3. mint'[s].call = mint[s].call /\ mint'[s].at = at
        BY <2>2 DEF Types, MintType
    <2> QED
        BY <2>1, <2>3, NextPlace, CommandTouches
<1>2. /\ at \in Nat /\ i \in Nat /\ d \in Dirs
      /\ at <= Len(ChainsOf(s)) => ChainOf(s) = ChainsOf(s)[at]
                                   /\ at \in 1 .. Len(ChainsOf(s))
    BY ListFacts, OwnerFacts
       DEF Types, MintType, InRound, ChainOf, Elements
<1>3. ASSUME NEW f \in ChainFiles, Unset(s, i, f)'
      PROVE  /\ Unset(s, i, f)
             /\ f \in KeyFiles => keys'[d][f] = keys[d][f]
             /\ f \in CertFiles => crts'[d][f] = crts[d][f]
    <2>1. Rank(f) \in Nat /\ Rank(mint[s].pc) \in Nat
        BY <1>1, RankFacts
    <2>2. Unset(s, i, f) /\ (i > at \/ (i = at /\ f # mint[s].pc))
        BY <1>1, <1>2, <1>3, <2>1 DEF Unset
    <2>3. d # ChainOf(s) \/ f # mint[s].pc
        <3>1. CASE i > at
            <4>1. at <= Len(ChainsOf(s))
                BY <1>2, <3>1, ListFacts
            <4>2. d # ChainsOf(s)[at]
                BY <1>2, <3>1, <4>1, ListFacts DEF NoRepetition
            <4> QED
                BY <1>2, <4>1, <4>2
        <3> QED
            BY <2>2, <3>1
    <2> QED
        BY <1>2, <2>2, <2>3, CommandTouches DEF OnlyItsFile
<1>4. /\ "leaf.crt" \in ChainFiles /\ "leaf.crt" \in CertFiles
      /\ "int.crt" \in ChainFiles /\ "int.crt" \in CertFiles
      /\ "leaf.key" \in ChainFiles /\ "leaf.key" \in KeyFiles
      /\ "int.key" \in ChainFiles /\ "int.key" \in KeyFiles
    BY DEF ChainFiles, SanFiles, KeyFiles, CertFiles, NewKeys
<1>5. /\ Unset(s, i, "leaf.crt")' =>
             Unset(s, i, "leaf.crt") /\ crts'[d]["leaf.crt"] = crts[d]["leaf.crt"]
      /\ Unset(s, i, "int.crt")' =>
             Unset(s, i, "int.crt") /\ crts'[d]["int.crt"] = crts[d]["int.crt"]
      /\ Unset(s, i, "leaf.key")' =>
             Unset(s, i, "leaf.key") /\ keys'[d]["leaf.key"] = keys[d]["leaf.key"]
      /\ Unset(s, i, "int.key")' =>
             Unset(s, i, "int.key") /\ keys'[d]["int.key"] = keys[d]["int.key"]
    BY <1>3, <1>4
<1> QED
    BY <1>1, <1>5 DEF FreshAt

\* The chain that comes next has nothing of this call yet.
LEMMA NextRoundFresh ==
    ASSUME Types, NEW s \in Scripts, NEW i \in 1 .. Len(ChainsOf(s)),
           FreshAt(s, i), VerifyChain(s)
    PROVE  FreshAt(s, i)'
<1> DEFINE at == mint[s].at
<1>1. UNCHANGED <<keys, crts, build, bundles>> /\ Running(s)
    BY DEF VerifyChain, minting, catalyst, bundling, Checks, Running, Resting
<1>2. /\ mint'[s].call = mint[s].call
      /\ (mint'[s].pc = "done") \/ mint'[s].at = at + 1
      /\ at \in Nat /\ i \in Nat
    <2>1. \/ mint'[s] = [pc |-> FirstCommand(s, at + 1), call |-> mint[s].call,
                         at |-> at + 1]
          \/ mint'[s] = [pc |-> "done", call |-> mint[s].call, at |-> at]
        BY NextRound
    <2>2. at \in Nat
        BY DEF Types, MintType
    <2> QED
        BY <2>1, <2>2
<1>3. ASSUME NEW f, Unset(s, i, f)' PROVE Unset(s, i, f)
    BY <1>1, <1>2, <1>3 DEF Unset, Running, Resting
<1> QED
    BY <1>1, <1>2, <1>3 DEF FreshAt

\* Every step keeps the files that a call will write older than it.
LEMMA FreshStep ==
    ASSUME Types, Progress, Bounded, Fresh, [Next]_vars
    PROVE  Fresh'
<1> SUFFICES ASSUME NEW s \in Scripts, NEW i \in 1 .. Len(ChainsOf(s))
             PROVE  FreshAt(s, i)'
    BY DEF Fresh
<1> DEFINE d == ChainsOf(s)[i]
           c == mint[s].call
<1>1. FreshAt(s, i) /\ d \in Dirs \ {Catalyst} /\ c \in Calls
    BY OwnerFacts, IntFacts DEF Fresh, Elements
<1>2. ASSUME NEW t \in Scripts,
             StartMint(t) \/ WritesOwn(t) \/ VerifyChain(t) \/ CommandFails(t)
      PROVE  FreshAt(s, i)'
    <2>1. CASE t = s
        <3>1. CASE StartMint(s)
            BY <3>1, StartFresh
        <3>2. CASE WritesOwn(s)
            BY <1>1, <3>2, WriteFresh
        <3>3. CASE VerifyChain(s)
            BY <1>1, <3>3, NextRoundFresh
        <3>4. CASE CommandFails(s)
            BY <3>4 DEF CommandFails, FreshAt, Unset, Running, Resting, Types, MintType
        <3> QED
            BY <1>2, <2>1, <3>1, <3>2, <3>3, <3>4
    <2>2. CASE t # s
        <3>1. Undisturbed(s) /\ bundles' = bundles /\ build' = build
            BY <1>2, <2>2, OthersUndisturbed
               DEF StartMint, WritesOwn, NextCommand, VerifyChain, CommandFails,
                   catalyst, bundling
        <3> QED
            BY <1>1, <3>1, UndisturbedFresh DEF FreshAt
    <2> QED
        BY <2>1, <2>2
<1>3. CASE Building
    <2>1. Undisturbed(s) /\ bundles' = bundles
        BY <1>3, AllUndisturbed, BuildLeavesOthers DEF BuildLeaves, bundling
    <2>2. ASSUME Unset(s, i, "int.key"), d = ECDSA PROVE build'.ca # c
        <3>1. keys[ECDSA]["int.key"] # c /\ build.ca # c /\ None # c
            BY <1>1, <2>2, IntFacts DEF FreshAt
        <3>2. build'.ca \in {build.ca, keys[ECDSA]["int.key"], None}
            BY <1>3, BuildReads
        <3> QED
            BY <3>1, <3>2
    <2> QED
        BY <1>1, <2>1, <2>2, UndisturbedFresh DEF FreshAt
<1>4. CASE StartHarness \/ CopyFile \/ CopyFails
    <2>1. Undisturbed(s) /\ build' = build
        BY <1>4, AllUndisturbed DEF StartHarness, CopyFile, CopyFails, catalyst
    <2>2. ASSUME Unset(s, i, "leaf.crt"), d \in Names
          PROVE  bundles'[d]["leaf.crt"].subject # c
        <3>1. /\ crts[d]["leaf.crt"].subject # c
              /\ bundles[d]["leaf.crt"].subject # c
            BY <1>1, <2>2 DEF FreshAt
        <3>2. TornCert.subject # c
            BY <1>1, IntFacts DEF TornCert, Cert
        <3> QED
            BY <1>4, <2>2, <3>1, <3>2, LeafCopied
    <2> QED
        BY <1>1, <2>1, <2>2, UndisturbedFresh DEF FreshAt
<1>5. CASE UNCHANGED vars
    BY <1>1, <1>5 DEF FreshAt, Unset, Running, vars, minting, catalyst, bundling
<1> QED
    BY <1>2, <1>3, <1>4, <1>5, NextCases

-----------------------------------------------------------------------------
(* Mixtures.  A leaf key is new before its certificate is, so for as long as *)
(* a chain is being replaced its leaf certificate is not the key's.          *)

\* A minted chain has a CA of its own, and is not the Catalyst chain.
LEMMA MintedFacts ==
    ASSUME NEW b \in Elements(MINTED)
    PROVE  /\ b \in Names \ {Catalyst} /\ b \in Dirs \ {Catalyst} /\ b # ECDSA
           /\ CaOf(b) = b
BY OwnerFacts DEF Dirs, CaOf

\* The files the properties of a mixture read.
LEMMA FileFacts ==
    /\ {"leaf.key", "int.key"} \subseteq KeyFiles \cap ChainFiles
    /\ {"root.crt", "int.crt", "leaf.crt"} \subseteq CertFiles \cap ChainFiles
    /\ Rank("int.key") = 2 /\ Rank("leaf.key") = 3 /\ Rank("root.crt") = 4
    /\ Rank("int.crt") = 6 /\ Rank("leaf.crt") = 8
BY DEF ChainFiles, SanFiles, KeyFiles, CertFiles, NewKeys, Rank

\* While a script is at one of the files it mints, before the leaf certificate
\* or at it, no leaf certificate of its invocation is anywhere.
LEMMA LeafUnset ==
    ASSUME Types, Fresh, NEW s \in Scripts, Running(s),
           mint[s].pc \in ChainFiles
    PROVE  LET d == ChainOf(s) c == mint[s].call
           IN /\ crts[d]["leaf.crt"].subject # c
              /\ d \in Names => bundles[d]["leaf.crt"].subject # c
<1> DEFINE at == mint[s].at
<1>1. /\ at \in 1 .. Len(ChainsOf(s)) /\ ChainOf(s) = ChainsOf(s)[at]
      /\ at \in 1 .. Len(Rounds(s))
    BY ListFacts DEF Types, MintType, InRound, ChainCommands, ChainOf
<1>2. Unset(s, at, "leaf.crt")
    BY <1>1, RankFacts, FileFacts DEF Unset
<1> QED
    BY <1>1, <1>2 DEF Fresh, FreshAt

\* A step of a script that replaces a leaf key.
LEMMA KeyIsNew ==
    ASSUME Types, Fresh, NEW s \in Scripts, WritesOwn(s) \/ CommandFails(s),
           NEW b \in Elements(MINTED),
           keys'[b]["leaf.key"] # keys[b]["leaf.key"]
    PROVE  /\ keys'[b]["leaf.key"] \in {mint[s].call, Torn}
           /\ crts' = crts
           /\ crts[b]["leaf.crt"].subject # mint[s].call
           /\ bundles[b]["leaf.crt"].subject # mint[s].call
<1>1. /\ b = ChainOf(s) /\ mint[s].pc = "leaf.key" /\ Running(s)
      /\ keys'[b]["leaf.key"] \in {mint[s].call, Torn}
    BY MintedFacts, FileFacts, CommandTouches DEF OnlyItsFile
<1>2. crts' = crts
    BY <1>1, FileFacts, RankFacts DEF WritesOwn, CommandFails, Spoiled
<1> QED
    BY <1>1, <1>2, LeafUnset, MintedFacts, FileFacts

\* A step of a script leaves every leaf certificate with its chain.
LEMMA CommandLeaves ==
    ASSUME Types, Progress, Fresh, LeafHasItsChain, NEW s \in Scripts,
           WritesOwn(s) \/ CommandFails(s)
    PROVE  LeafHasItsChain'
<1> SUFFICES ASSUME NEW b \in Elements(MINTED), NEW g \in Calls,
                    keys'[b]["leaf.key"] = g
             PROVE  /\ crts'[b]["leaf.crt"].subject = g => DiskMatches(b, g)'
                    /\ bundles'[b]["leaf.crt"].subject = g =>
                           DiskMatches(b, g)' /\ bundles'[b]["leaf.crt"] = Cert(g, g)
    BY DEF LeafHasItsChain
<1> DEFINE c == mint[s].call
           f == mint[s].pc
<1>1. /\ OnlyItsFile(s) /\ Running(s) /\ bundles' = bundles
      /\ b \in Dirs /\ b \in Names
      /\ TornCert.subject # g /\ Torn # g
    BY CommandTouches, MintedFacts, IntFacts
       DEF WritesOwn, NextCommand, CommandFails, bundling, TornCert, Cert
<1>2. CASE keys'[b]["leaf.key"] # keys[b]["leaf.key"]
    BY <1>1, <1>2, KeyIsNew
<1>3. CASE keys'[b]["leaf.key"] = keys[b]["leaf.key"]
    <2>1. CASE \A x \in {"root.crt", "int.crt", "leaf.crt"} :
                   crts'[b][x] = crts[b][x]
        BY <1>1, <1>3, <2>1 DEF LeafHasItsChain, DiskMatches
    <2>2. ASSUME NEW x \in {"root.crt", "int.crt", "leaf.crt"},
                 crts'[b][x] # crts[b][x]
          PROVE  /\ crts'[b]["leaf.crt"].subject = g => DiskMatches(b, g)'
                 /\ bundles'[b]["leaf.crt"].subject = g =>
                        DiskMatches(b, g)' /\ bundles'[b]["leaf.crt"] = Cert(g, g)
        <3>1. /\ b = ChainOf(s) /\ x = f /\ crts'[b][x] \in {Cert(c, c), TornCert}
              /\ \A y \in CertFiles \ {x} : crts'[b][y] = crts[b][y]
            BY <1>1, <2>2, FileFacts DEF OnlyItsFile
        <3>2. g = c
            BY <1>1, <1>3, <3>1, ReadsOwn, FileFacts DEF IsOfCall
        <3>3. /\ crts[b]["leaf.crt"].subject # g
              /\ bundles[b]["leaf.crt"].subject # g
            BY <1>1, <3>1, <3>2, LeafUnset, FileFacts
        <3>4. CASE x # "leaf.crt"
            BY <1>1, <3>1, <3>3, <3>4, FileFacts
        <3>5. CASE x = "leaf.crt"
            <4>1. crts[b]["root.crt"] = Cert(g, g) /\ crts[b]["int.crt"] = Cert(g, g)
                <5>1. ASSUME NEW y \in {"root.crt", "int.crt"}
                      PROVE  IsOfCall(b, y, g)
                    <6>1. y \in ChainFiles /\ Rank(y) < Rank(mint[s].pc)
                        BY <3>1, <3>5, FileFacts
                    <6>2. IsOfCall(ChainOf(s), y, mint[s].call)
                        BY <1>1, <6>1, ReadsOwn
                    <6> QED
                        BY <3>1, <3>2, <6>2
                <5> QED
                    BY <5>1, FileFacts DEF IsOfCall
            <4>2. /\ crts'[b]["root.crt"] = Cert(g, g)
                  /\ crts'[b]["int.crt"] = Cert(g, g)
                BY <3>1, <3>5, <4>1, FileFacts
            <4> QED
                BY <1>1, <3>1, <3>2, <3>3, <3>5, <4>2 DEF DiskMatches
        <3> QED
            BY <3>4, <3>5
    <2> QED
        BY <2>1, <2>2
<1> QED
    BY <1>2, <1>3

\* What one step of bundle() does to the bundles.
Copied(v) ==
    /\ \A b \in Names : \A f \in BundleFiles :
           bundles'[b][f] = IF b = Name /\ f = copy.pc THEN v ELSE bundles[b][f]
    /\ \A b \in Names \ {Name} : copied'[b] = copied[b]

\* A step of bundle() writes one file of one bundle.
LEMMA CopyWrites ==
    ASSUME Types, NEW v, copy.pc # "idle",
           bundles' = [bundles EXCEPT ![Name][copy.pc] = v],
           \E w : copied' = [copied EXCEPT ![Name] = w]
    PROVE  Copied(v) /\ Name \in Names /\ copy.pc \in BundleFiles
<1>1. /\ bundles = [b \in Names |-> [f \in BundleFiles |-> bundles[b][f]]]
      /\ copy.at \in 1 .. Len(CHAINS) /\ copy.pc \in BundleFiles
      /\ copied \in [Names -> BOOLEAN]
    BY DEF Types, BundlesType
<1>2. Name \in Names
    BY <1>1 DEF Name, Names, Elements
<1>3. /\ \A b \in Names : bundles[b] = [f \in BundleFiles |-> bundles[b][f]]
      /\ bundles = [b \in Names |-> bundles[b]]
    BY <1>1
<1>4. ASSUME NEW b \in Names, NEW f \in BundleFiles
      PROVE  bundles'[b][f] = IF b = Name /\ f = copy.pc THEN v ELSE bundles[b][f]
    <2>1. CASE b = Name
        <3>1. bundles'[b] = [bundles[b] EXCEPT ![copy.pc] = v]
            BY <1>3, <2>1
        <3> QED
            BY <1>3, <2>1, <3>1
    <2>2. CASE b # Name
        BY <1>3, <2>2
    <2> QED
        BY <2>1, <2>2
<1>5. \A b \in Names \ {Name} : copied'[b] = copied[b]
    BY <1>1
<1> QED
    BY <1>1, <1>2, <1>4, <1>5 DEF Copied

\* A leaf certificate is copied from beside its key, so with its chain.
LEMMA CopyLeaves ==
    ASSUME Types, LeafHasItsChain, StartHarness \/ CopyFile \/ CopyFails
    PROVE  LeafHasItsChain'
<1> SUFFICES ASSUME NEW b \in Elements(MINTED), NEW g \in Calls,
                    keys[b]["leaf.key"] = g
             PROVE  /\ crts[b]["leaf.crt"].subject = g => DiskMatches(b, g)
                    /\ bundles'[b]["leaf.crt"].subject = g =>
                           DiskMatches(b, g) /\ bundles'[b]["leaf.crt"] = Cert(g, g)
    <2>1. UNCHANGED <<keys, crts>>
        BY DEF StartHarness, CopyFile, CopyFails, minting
    <2> QED
        BY <2>1 DEF LeafHasItsChain, DiskMatches
<1>1. /\ crts[b]["leaf.crt"].subject = g => DiskMatches(b, g)
      /\ bundles[b]["leaf.crt"].subject = g =>
             DiskMatches(b, g) /\ bundles[b]["leaf.crt"] = Cert(g, g)
    BY DEF LeafHasItsChain
<1>2. TornCert.subject # g /\ b \in Names
    BY IntFacts, MintedFacts DEF TornCert, Cert
<1>3. \/ bundles'[b]["leaf.crt"] = bundles[b]["leaf.crt"]
      \/ bundles'[b]["leaf.crt"] = crts[b]["leaf.crt"]
      \/ bundles'[b]["leaf.crt"] = TornCert
    BY <1>2, LeafCopied
<1> QED
    BY <1>1, <1>2, <1>3 DEF DiskMatches

\* What a command of a script leaves of the other facts about mixtures.
LEMMA CommandUnmixed ==
    ASSUME Types, Progress, Fresh, Unmixed, NEW s \in Scripts,
           WritesOwn(s) \/ CommandFails(s)
    PROVE  Unmixed'
<1>1. LeafHasItsChain'
    BY CommandLeaves DEF Unmixed
<1>2. UNCHANGED <<copy, bundles, copied>>
    BY DEF WritesOwn, NextCommand, CommandFails, bundling
<1>3. ASSUME NEW b \in Elements(MINTED), NEW g \in Calls,
             keys'[b]["leaf.key"] = g, bundles[b]["leaf.crt"].subject = g
      PROVE  keys[b]["leaf.key"] = g
    BY <1>3, KeyIsNew, IntFacts
<1>4. CopyIsOfKey'
    BY <1>2, <1>3 DEF Unmixed, CopyIsOfKey, Name
<1>5. ASSUME NEW b \in Elements(MINTED), keys'[b]["leaf.key"] = None
      PROVE  keys[b]["leaf.key"] = None
    BY <1>5, KeyIsNew, IntFacts DEF None, Torn
<1>6. NoKeyCopiedBefore'
    BY <1>2, <1>5 DEF Unmixed, NoKeyCopiedBefore
<1>7. CopiedIsOfKey'
    BY <1>2 DEF Unmixed, CopiedIsOfKey
<1> QED
    BY <1>1, <1>4, <1>6, <1>7 DEF Unmixed

\* One file copied.
LEMMA FileCopied ==
    ASSUME Types, Unmixed, CopyFile, NEW b \in Elements(MINTED), b = Name,
           NEW g \in Calls, keys[b]["leaf.key"] = g
    PROVE  /\ copy.pc \in BundleFiles
           /\ bundles'[b][copy.pc] = SourceOf(copy.pc)
           /\ \A f \in BundleFiles \ {copy.pc} : bundles'[b][f] = bundles[b][f]
           /\ bundles'[b]["leaf.crt"].subject = g /\ copy.pc # "leaf.key" =>
                  \A f \in CopiedFiles(copy.pc) \cup {copy.pc} :
                      bundles'[b][f] = Cert(g, g)
<1>1. /\ Copied(SourceOf(copy.pc)) /\ Name \in Names /\ copy.pc \in BundleFiles
    BY CopyWrites DEF CopyFile
<1>2. /\ bundles'[b][copy.pc] = SourceOf(copy.pc)
      /\ \A f \in BundleFiles \ {copy.pc} : bundles'[b][f] = bundles[b][f]
    BY <1>1 DEF Copied
<1>3. /\ "leaf.crt" \in BundleFiles
      /\ CopiedFiles(copy.pc) \subseteq BundleFiles
      /\ copy.pc \notin CopiedFiles(copy.pc)
      /\ copy.pc # "leaf.crt" => "leaf.crt" \in CopiedFiles(copy.pc)
    BY <1>1 DEF BundleFiles, CopiedFiles
<1>4. LeafHasItsChain /\ CopyIsOfKey
    BY DEF Unmixed
<1>5. ASSUME bundles'[b]["leaf.crt"].subject = g, copy.pc # "leaf.key"
      PROVE  \A f \in CopiedFiles(copy.pc) \cup {copy.pc} :
                 bundles'[b][f] = Cert(g, g)
    <2>1. CaOf(b) = b
        BY MintedFacts
    <2>2. CASE copy.pc = "leaf.crt"
        <3>1. bundles'[b]["leaf.crt"] = crts[b]["leaf.crt"]
            BY <1>2, <2>2 DEF SourceOf
        <3>2. crts[b]["leaf.crt"] = Cert(g, g)
            BY <1>4, <1>5, <3>1 DEF LeafHasItsChain, DiskMatches
        <3> QED
            BY <2>2, <3>1, <3>2 DEF CopiedFiles
    <2>3. CASE copy.pc # "leaf.crt"
        <3>1. bundles[b]["leaf.crt"].subject = g
            BY <1>2, <1>3, <1>5, <2>3
        <3>2. DiskMatches(b, g)
            BY <1>4, <3>1 DEF LeafHasItsChain
        <3>3. \A f \in CopiedFiles(copy.pc) : bundles[b][f] = Cert(g, g)
            BY <1>1, <1>4, <3>1 DEF CopyIsOfKey, BundleFiles
        <3>4. SourceOf(copy.pc) = Cert(g, g)
            <4>1. copy.pc \in {"root.crt", "int.crt", "chain.leaf", "chain.int"}
                BY <1>1, <1>5, <2>3 DEF BundleFiles
            <4> QED
                BY <2>1, <3>2, <4>1 DEF SourceOf, DiskMatches
        <3> QED
            BY <1>2, <1>3, <3>3, <3>4
    <2> QED
        BY <2>2, <2>3
<1> QED
    BY <1>1, <1>2, <1>5

\* The next file to copy, and what is copied before it.
LEMMA NextCopy ==
    ASSUME Types, CopyFile
    PROVE  /\ copy.pc = "leaf.key" => copy'.pc \in {"leaf.crt", "idle"}
           /\ copy.pc # "leaf.key" =>
                  /\ copy'.pc \in BundleFiles /\ copy'.at = copy.at
                  /\ CopiedFiles(copy'.pc) = CopiedFiles(copy.pc) \cup {copy.pc}
           /\ copied'[Name] => copy.pc = "leaf.key"
<1>1. /\ copy.pc \in BundleFiles /\ Name \in Names
      /\ LastCopy <=> copy.pc = "leaf.key"
    BY NextCopyFacts DEF CopyFile, Types, BundlesType, LastCopy, Name, Names, Elements
<1>2. CASE copy.pc = "leaf.key"
    BY <1>1, <1>2, NextCopyFacts DEF CopyFile, Types, BundlesType
<1>3. CASE copy.pc # "leaf.key"
    <2>1. copy' = [copy EXCEPT !.pc = Following(Copies, copy.pc)]
        BY <1>1, <1>3 DEF CopyFile
    <2>2. copy'.pc = Following(Copies, copy.pc) /\ copy'.at = copy.at
        BY <2>1 DEF Types, BundlesType
    <2>3. copy.pc \in {"leaf.crt", "root.crt", "int.crt", "chain.leaf", "chain.int"}
        BY <1>1, <1>3 DEF BundleFiles
    <2>4. /\ copy'.pc \in BundleFiles
          /\ CopiedFiles(copy'.pc) = CopiedFiles(copy.pc) \cup {copy.pc}
        BY <2>2, <2>3, NextCopyFacts DEF BundleFiles, CopiedFiles
    <2>5. ~copied'[Name]
        <3>1. copied' = [copied EXCEPT ![Name] = LastCopy] /\ ~LastCopy
            BY <1>1, <1>3 DEF CopyFile
        <3>2. copied \in [Names -> BOOLEAN]
            BY DEF Types, BundlesType
        <3> QED
            BY <1>1, <3>1, <3>2
    <2> QED
        BY <1>1, <1>3, <2>2, <2>4, <2>5 DEF BundleFiles
<1> QED
    BY <1>2, <1>3

\* A copied file brings no mixture into a bundle that counts as copied.
LEMMA CopyFileUnmixed ==
    ASSUME Types, Unmixed, CopyFile
    PROVE  Unmixed'
<1>1. /\ UNCHANGED <<keys, crts>> /\ copy.pc # "idle"
      /\ Copied(SourceOf(copy.pc)) /\ Name \in Names /\ copy.pc \in BundleFiles
    BY CopyWrites DEF CopyFile, minting
<1>2. LeafHasItsChain'
    BY CopyLeaves DEF Unmixed
<1>3. CopyIsOfKey'
    <2>1. SUFFICES ASSUME NEW g \in Calls, copy'.pc # "idle",
                          Name' \in Elements(MINTED), keys[Name']["leaf.key"] = g,
                          bundles'[Name']["leaf.crt"].subject = g
                   PROVE  \A f \in CopiedFiles(copy'.pc) :
                              bundles'[Name'][f] = Cert(g, g)
        BY <1>1 DEF CopyIsOfKey
    <2>2. CASE copy.pc = "leaf.key"
        BY <2>1, <2>2, NextCopy DEF CopiedFiles
    <2>3. CASE copy.pc # "leaf.key"
        <3>1. /\ copy'.at = copy.at
              /\ CopiedFiles(copy'.pc) = CopiedFiles(copy.pc) \cup {copy.pc}
            BY <2>3, NextCopy
        <3>2. Name' = Name
            BY <3>1 DEF Name
        <3> QED
            BY <2>1, <2>3, <3>1, <3>2, FileCopied
    <2> QED
        BY <2>2, <2>3
<1>4. NoKeyCopiedBefore'
    <2>1. SUFFICES ASSUME NEW b \in Elements(MINTED), keys[b]["leaf.key"] = None
                   PROVE  bundles'[b]["leaf.key"] \notin Calls
        BY <1>1 DEF NoKeyCopiedBefore
    <2>2. bundles[b]["leaf.key"] \notin Calls
        BY <2>1 DEF Unmixed, NoKeyCopiedBefore
    <2>3. b \in Names /\ "leaf.key" \in BundleFiles
        BY MintedFacts DEF BundleFiles
    <2>4. CASE b = Name /\ copy.pc = "leaf.key"
        <3>1. SourceOf(copy.pc) = bundles[b]["leaf.key"]
            BY <2>1, <2>4 DEF SourceOf
        <3> QED
            BY <1>1, <2>2, <2>3, <2>4, <3>1 DEF Copied
    <2>5. CASE ~(b = Name /\ copy.pc = "leaf.key")
        BY <1>1, <2>2, <2>3, <2>5 DEF Copied
    <2> QED
        BY <2>4, <2>5
<1>5. CopiedIsOfKey'
    <2>1. SUFFICES ASSUME NEW b \in Elements(MINTED), NEW g \in Calls, copied'[b],
                          bundles'[b]["leaf.key"] = g,
                          bundles'[b]["leaf.crt"].subject = g
                   PROVE  \A f \in BundleFiles \ {"leaf.key"} :
                              bundles'[b][f] = Cert(g, g)
        BY DEF CopiedIsOfKey
    <2>2. CASE b # Name
        <3>1. /\ copied'[b] = copied[b]
              /\ \A f \in BundleFiles : bundles'[b][f] = bundles[b][f]
            BY <1>1, <2>2, MintedFacts DEF Copied
        <3>2. "leaf.key" \in BundleFiles /\ "leaf.crt" \in BundleFiles
            BY DEF BundleFiles
        <3> QED
            BY <2>1, <3>1, <3>2 DEF Unmixed, CopiedIsOfKey
    <2>3. CASE b = Name
        <3>1. copy.pc = "leaf.key"
            BY <2>1, <2>3, NextCopy
        <3>2. /\ bundles'[b]["leaf.key"] = SourceOf("leaf.key")
              /\ \A f \in BundleFiles \ {"leaf.key"} : bundles'[b][f] = bundles[b][f]
            BY <1>1, <2>3, <3>1 DEF Copied
        <3>3. keys[b]["leaf.key"] = g
            BY <2>1, <2>3, <3>2 DEF SourceOf, Unmixed, NoKeyCopiedBefore
        <3>4. bundles[b]["leaf.crt"].subject = g
            BY <2>1, <3>2 DEF BundleFiles
        <3>5. \A f \in CopiedFiles("leaf.key") : bundles[b][f] = Cert(g, g)
            BY <1>1, <2>3, <3>1, <3>3, <3>4 DEF Unmixed, CopyIsOfKey
        <3>6. BundleFiles \ {"leaf.key"} = CopiedFiles("leaf.key")
            BY DEF BundleFiles, CopiedFiles
        <3> QED
            BY <3>2, <3>5, <3>6
    <2> QED
        BY <2>2, <2>3
<1> QED
    BY <1>2, <1>3, <1>4, <1>5 DEF Unmixed

\* A copy that breaks off leaves a bundle that does not count as copied.
LEMMA CopyFailsUnmixed ==
    ASSUME Types, Unmixed, CopyFails
    PROVE  Unmixed'
<1>1. UNCHANGED <<keys, crts>> /\ copy'.pc = "idle"
    BY DEF CopyFails, minting
<1>2. LeafHasItsChain'
    BY CopyLeaves DEF Unmixed
<1>3. CopyIsOfKey'
    BY <1>1 DEF CopyIsOfKey
<1>4. CASE UNCHANGED <<bundles, copied>>
    BY <1>1, <1>2, <1>3, <1>4 DEF Unmixed, NoKeyCopiedBefore, CopiedIsOfKey
<1>5. CASE /\ bundles' = [bundles EXCEPT ![Name][copy.pc] = TornCopy(copy.pc)]
           /\ copied' = [copied EXCEPT ![Name] = FALSE]
    <2>1. /\ Copied(TornCopy(copy.pc)) /\ Name \in Names /\ copy.pc \in BundleFiles
          /\ ~copied'[Name]
        <3>1. copied \in [Names -> BOOLEAN]
            BY DEF Types, BundlesType
        <3>2. Copied(TornCopy(copy.pc)) /\ Name \in Names /\ copy.pc \in BundleFiles
            BY <1>5, CopyWrites DEF CopyFails
        <3> QED
            BY <1>5, <3>1, <3>2
    <2>2. "leaf.key" \in BundleFiles /\ "leaf.crt" \in BundleFiles
        BY DEF BundleFiles
    <2>3. NoKeyCopiedBefore'
        <3>1. TornCopy("leaf.key") \notin Calls
            BY IntFacts DEF TornCopy
        <3> QED
            BY <1>1, <2>1, <2>2, <3>1, MintedFacts
               DEF Unmixed, NoKeyCopiedBefore, Copied
    <2>4. CopiedIsOfKey'
        <3>1. ASSUME NEW b \in Elements(MINTED), copied'[b]
              PROVE  /\ copied[b]
                     /\ \A f \in BundleFiles : bundles'[b][f] = bundles[b][f]
            BY <2>1, <3>1, MintedFacts DEF Copied
        <3> QED
            BY <2>2, <3>1 DEF Unmixed, CopiedIsOfKey
    <2> QED
        BY <1>2, <1>3, <2>3, <2>4 DEF Unmixed
<1> QED
    BY <1>4, <1>5 DEF CopyFails

\* Nothing is mixed in a checkout.
LEMMA UnmixedInit == Init => Unmixed
<1> SUFFICES ASSUME Init PROVE Unmixed
    OBVIOUS
<1>1. PICK key \in {None, 1} :
          /\ \A b \in Elements(MINTED) :
                 keys[b]["leaf.key"] = key /\ bundles[b]["leaf.key"] = key
          /\ \A b \in Elements(MINTED) : \A f \in BundleFiles \ {"leaf.key"} :
                 bundles[b][f] = Cert(1, 1)
    BY MintedFacts, FileFacts
       DEF Init, KeyFiles, Requests, NewKeys, BundleFiles
<1>2. \A b \in Elements(MINTED) : \A f \in CertFiles : crts[b][f] = Cert(1, 1)
    BY MintedFacts DEF Init
<1>3. /\ None \notin Calls /\ copy.pc = "idle" /\ Cert(1, 1).subject = 1
      /\ "leaf.crt" \in BundleFiles \ {"leaf.key"}
    BY DEF None, Calls, Init, Cert, BundleFiles
<1>4. LeafHasItsChain
    BY <1>1, <1>2, <1>3, FileFacts DEF LeafHasItsChain, DiskMatches
<1>5. CopyIsOfKey
    BY <1>3 DEF CopyIsOfKey
<1>6. NoKeyCopiedBefore
    BY <1>1, <1>3 DEF NoKeyCopiedBefore
<1>7. CopiedIsOfKey
    BY <1>1, <1>3 DEF CopiedIsOfKey
<1> QED
    BY <1>4, <1>5, <1>6, <1>7 DEF Unmixed

\* Every step keeps mixtures out of reach of the check of the bundle.
LEMMA UnmixedStep ==
    ASSUME Types, Progress, Fresh, Unmixed, [Next]_vars
    PROVE  Unmixed'
<1>1. ASSUME UNCHANGED <<keys, crts, bundles, copy, copied>> PROVE Unmixed'
    BY <1>1 DEF Unmixed, LeafHasItsChain, DiskMatches, CopyIsOfKey, Name,
                NoKeyCopiedBefore, CopiedIsOfKey
<1>2. ASSUME NEW s \in Scripts,
             StartMint(s) \/ WritesOwn(s) \/ VerifyChain(s) \/ CommandFails(s)
      PROVE  Unmixed'
    <2>1. CASE StartMint(s) \/ VerifyChain(s)
        BY <1>1, <2>1 DEF StartMint, VerifyChain, minting, bundling
    <2>2. CASE WritesOwn(s) \/ CommandFails(s)
        BY <2>2, CommandUnmixed
    <2> QED
        BY <1>2, <2>1, <2>2
<1>3. CASE Building
    <2>1. /\ UNCHANGED <<copy, bundles, copied>>
          /\ \A b \in Elements(MINTED) : keys'[b] = keys[b] /\ crts'[b] = crts[b]
        BY <1>3, BuildLeavesOthers, MintedFacts DEF BuildLeaves, bundling
    <2>2. LeafHasItsChain'
        BY <2>1 DEF Unmixed, LeafHasItsChain, DiskMatches
    <2>3. CopyIsOfKey'
        BY <2>1 DEF Unmixed, CopyIsOfKey, Name
    <2>4. NoKeyCopiedBefore' /\ CopiedIsOfKey'
        BY <2>1 DEF Unmixed, NoKeyCopiedBefore, CopiedIsOfKey
    <2> QED
        BY <2>2, <2>3, <2>4 DEF Unmixed
<1>4. CASE StartHarness
    <2>1. UNCHANGED <<keys, crts, bundles, copied>> /\ copy'.pc = "leaf.crt"
        BY <1>4, NextCopyFacts DEF StartHarness, minting
    <2>2. CopyIsOfKey'
        BY <2>1 DEF CopyIsOfKey, CopiedFiles
    <2> QED
        BY <2>1, <2>2 DEF Unmixed, LeafHasItsChain, DiskMatches,
                          NoKeyCopiedBefore, CopiedIsOfKey
<1>5. CASE UNCHANGED vars
    BY <1>1, <1>5 DEF vars, minting, bundling
<1> QED
    BY <1>2, <1>3, <1>4, <1>5, NextCases, CopyFileUnmixed, CopyFailsUnmixed

-----------------------------------------------------------------------------
(* The catalyst leaf: what mint-phase0.sh may do under the build.            *)


\* A command of mint-phase0.sh that changes any of them makes the key another
\* than the one the build signed with, or finds it so.
LEMMA CommandKeepsFit ==
    ASSUME Types, Progress, Fresh, BuildInv, NEW s \in Scripts,
           WritesOwn(s) \/ CommandFails(s)
    PROVE  BuildInv'
<1> DEFINE c == mint[s].call
           f == mint[s].pc
<1>1. /\ OnlyItsFile(s) /\ Running(s) /\ UNCHANGED build
      /\ ECDSA \in Dirs /\ Catalyst \in Dirs
    BY CommandTouches
       DEF WritesOwn, NextCommand, CommandFails, catalyst, Dirs
<1>2. crts'[Catalyst]["leaf.crt"] = crts[Catalyst]["leaf.crt"]
    <2>1. ChainOf(s) # Catalyst
        BY OwnerFacts DEF Types, InRound, ChainOf
    <2> QED
        BY <1>1, <2>1, FileFacts DEF OnlyItsFile
<1>3. ASSUME build.pc = "done", keys'[ECDSA]["int.key"] = build.ca
      PROVE  Verifies(crts'[ECDSA]["root.crt"], crts'[ECDSA]["int.crt"],
                      crts[Catalyst]["leaf.crt"])
    <2>1. /\ build.ca \in Calls
          /\ crts[Catalyst]["leaf.crt"].issuer = build.ca
        BY <1>3 DEF BuildInv, BuildCommands, Cert
    <2>2. ASSUME ECDSA = ChainOf(s), f \in {"int.key", "root.crt", "int.crt"}
          PROVE  /\ mint[s].at \in 1 .. Len(ChainsOf(s))
                 /\ ChainsOf(s)[mint[s].at] = ECDSA
                 /\ FreshAt(s, mint[s].at)
        <3>1. f \in ChainCommands
            BY <2>2, FileFacts DEF ChainCommands
        <3> QED
            BY <1>1, <2>2, <3>1, ListFacts
               DEF Fresh, Types, MintType, InRound, ChainOf
    <2>3. keys[ECDSA]["int.key"] = build.ca
        <3>1. SUFFICES ASSUME keys'[ECDSA]["int.key"] # keys[ECDSA]["int.key"]
                       PROVE  FALSE
            BY <1>3
        <3>2. /\ ECDSA = ChainOf(s) /\ f = "int.key"
              /\ keys'[ECDSA]["int.key"] \in {c, Torn}
            BY <1>1, <3>1, FileFacts DEF OnlyItsFile
        <3>3. Unset(s, mint[s].at, "int.key")
            BY <1>1, <3>2, FileFacts DEF Unset
        <3>4. build.ca # c
            BY <2>2, <3>2, <3>3 DEF FreshAt
        <3> QED
            BY <1>3, <2>1, <3>2, <3>4, IntFacts
    <2>4. /\ Verifies(crts[ECDSA]["root.crt"], crts[ECDSA]["int.crt"],
                      crts[Catalyst]["leaf.crt"])
          /\ crts[ECDSA]["int.crt"].subject = build.ca
        BY <1>3, <2>1, <2>3 DEF BuildInv, BuiltLeafFitsItsCA, Verifies
    <2>5. ASSUME NEW x \in {"root.crt", "int.crt"},
                 crts'[ECDSA][x] # crts[ECDSA][x]
          PROVE  FALSE
        <3>1. ECDSA = ChainOf(s) /\ f = x
            BY <1>1, <2>5, FileFacts DEF OnlyItsFile
        <3>2. Rank("int.key") < Rank(f) /\ Rank("int.crt") >= Rank(f)
            BY <3>1, FileFacts
        <3>3. keys[ECDSA]["int.key"] = c
            BY <1>1, <3>1, <3>2, ReadsOwn, FileFacts DEF IsOfCall
        <3>4. Unset(s, mint[s].at, "int.crt")
            BY <1>1, <3>2 DEF Unset
        <3>5. crts[ECDSA]["int.crt"].subject # c
            BY <2>2, <3>1, <3>4 DEF FreshAt
        <3> QED
            BY <2>3, <2>4, <3>3, <3>5
    <2> QED
        BY <2>4, <2>5
<1> QED
    BY <1>1, <1>2, <1>3 DEF BuildInv, BuiltLeafFitsItsCA

\* The build itself: it signs with the key it has read, and is done only after
\* the check.
LEMMA BuildKeepsFit ==
    ASSUME Types, BuildInv, Building
    PROVE  BuildInv'
<1>1. /\ build = [pc |-> build.pc, call |-> build.call, ca |-> build.ca]
      /\ Catalyst \in Dirs
    BY DEF Types, BuildType, Dirs
<1>2. CASE StartBuild
    <2>1. build'.pc = "ca.key"
        BY <1>2 DEF StartBuild
    <2> QED
        BY <2>1 DEF BuildInv, BuiltLeafFitsItsCA
<1>3. CASE ReadCaKey
    <2>1. /\ build'.pc = "ca.crt" /\ build'.ca \in Calls
        BY <1>1, <1>3 DEF ReadCaKey
    <2> QED
        BY <2>1 DEF BuildInv, BuiltLeafFitsItsCA
<1>4. CASE ReadCaCert \/ GenAltKey \/ WriteLeafKey \/ WriteTbs \/ SignTbs
    <2>1. /\ build'.pc \in {"alt.key", "leaf.key", "tbs", "altsig", "leaf.crt"}
          /\ build.pc \in BuildCommands \ {"ca.key"}
          /\ build'.ca = build.ca
        BY <1>1, <1>4
           DEF ReadCaCert, GenAltKey, WriteLeafKey, WriteTbs, SignTbs, BuildStep,
               BuildCommands
    <2> QED
        BY <2>1 DEF BuildInv, BuiltLeafFitsItsCA
<1>5. CASE WriteLeafCert
    <2>1. /\ build'.pc = "altcheck" /\ build.pc = "leaf.crt"
          /\ build'.ca = build.ca /\ build'.call = build.call
          /\ crts' = [crts EXCEPT ![Catalyst]["leaf.crt"] =
                                     Cert(build.call, build.ca)]
        BY <1>1, <1>5 DEF WriteLeafCert, BuildStep
    <2>2. crts'[Catalyst]["leaf.crt"] = Cert(build.call, build.ca)
        BY <1>1, <2>1, FileFacts DEF Types, FilesType
    <2>3. build.ca \in Calls
        BY <2>1 DEF BuildInv, BuildCommands
    <2> QED
        BY <2>1, <2>2, <2>3 DEF BuildInv, BuiltLeafFitsItsCA
<1>6. CASE CheckAltSignature \/ CheckChain
    <2>1. /\ build'.pc \in {"check", "done"} /\ build.pc \in {"altcheck", "check"}
          /\ build'.ca = build.ca /\ build'.call = build.call
          /\ UNCHANGED <<keys, crts>>
        BY <1>1, <1>6 DEF CheckAltSignature, CheckChain, BuildStep
    <2>2. build'.pc = "done" =>
              Verifies(crts[ECDSA]["root.crt"], crts[ECDSA]["int.crt"],
                       crts[Catalyst]["leaf.crt"])
        BY <1>1, <1>6 DEF CheckAltSignature, CheckChain, BuildStep
    <2> QED
        BY <2>1, <2>2 DEF BuildInv, BuiltLeafFitsItsCA, BuildCommands
<1>7. CASE BuildFails
    <2>1. build'.pc = "failed"
        BY <1>1, <1>7 DEF BuildFails, BuildStep
    <2> QED
        BY <2>1 DEF BuildInv, BuiltLeafFitsItsCA, BuildCommands
<1> QED
    BY <1>2, <1>3, <1>4, <1>5, <1>6, <1>7 DEF Building

\* catalyst_build.py does not run at first.
LEMMA BuildInit == Init => BuildInv /\ AltInv
<1> SUFFICES ASSUME Init PROVE BuildInv /\ AltInv
    OBVIOUS
<1>1. build.pc = "idle"
    BY DEF Init
<1>2. alt.key \in Gens /\ alt.leaf.sapki \in Calls
    BY CorpusAssumption, FileFacts
       DEF Init, KeyFiles, Requests, Dirs, Gens, Calls
<1>3. alt = [key |-> alt.key, tbs |-> alt.tbs, sig |-> alt.sig, leaf |-> alt.leaf]
    BY DEF Init
<1> QED
    BY <1>1, <1>2, <1>3 DEF BuildInv, BuiltLeafFitsItsCA, AltInv, BuildCommands

\* Every step keeps what catalyst_build.py has made of the CA it has read.
LEMMA BuildInvStep ==
    ASSUME Types, Progress, Fresh, BuildInv, [Next]_vars
    PROVE  BuildInv'
<1>1. ASSUME UNCHANGED <<keys, crts, build>> PROVE BuildInv'
    BY <1>1 DEF BuildInv, BuiltLeafFitsItsCA
<1>2. ASSUME NEW s \in Scripts,
             StartMint(s) \/ WritesOwn(s) \/ VerifyChain(s) \/ CommandFails(s)
      PROVE  BuildInv'
    <2>1. CASE StartMint(s) \/ VerifyChain(s)
        BY <1>1, <2>1 DEF StartMint, VerifyChain, minting, catalyst
    <2> QED
        BY <1>2, <2>1, CommandKeepsFit
<1>3. CASE StartHarness \/ CopyFile \/ CopyFails \/ UNCHANGED vars
    BY <1>1, <1>3 DEF StartHarness, CopyFile, CopyFails, vars, minting, catalyst
<1> QED
    BY <1>2, <1>3, NextCases, BuildKeepsFit

\* The files of the alternative signature are the build's own, and it writes
\* them in the order it reads them.
LEMMA AltInvStep ==
    ASSUME Types, Progress, AltInv, [Next]_vars
    PROVE  AltInv'
<1>1. build = [pc |-> build.pc, call |-> build.call, ca |-> build.ca]
    BY DEF Types, BuildType
<1>2. ASSUME UNCHANGED <<build, alt>> PROVE AltInv'
    BY <1>2 DEF AltInv
<1>3. ASSUME NEW s \in Scripts,
             StartMint(s) \/ WritesOwn(s) \/ VerifyChain(s) \/ CommandFails(s)
      PROVE  AltInv'
    BY <1>2, <1>3
       DEF StartMint, WritesOwn, NextCommand, VerifyChain, CommandFails, catalyst
<1>4. CASE StartHarness \/ CopyFile \/ CopyFails \/ UNCHANGED vars
    BY <1>2, <1>4 DEF StartHarness, CopyFile, CopyFails, vars, catalyst
<1>5. /\ alt = [key |-> alt.key, tbs |-> alt.tbs, sig |-> alt.sig, leaf |-> alt.leaf]
      /\ alt.key \in Gens /\ alt.leaf.sapki \in Calls
      /\ build.call \in Calls /\ build.call \in Gens /\ Torn \in Gens
    BY IntFacts DEF AltInv, Gens
<1>6. CASE StartBuild \/ ReadCaKey \/ ReadCaCert
    <2>1. build'.pc \in {"ca.key", "ca.crt", "alt.key"} /\ alt' = alt
        <3>1. CASE StartBuild
            BY <3>1 DEF StartBuild
        <3>2. CASE ReadCaKey
            BY <1>1, <3>2 DEF ReadCaKey
        <3>3. CASE ReadCaCert
            BY <1>1, <3>3 DEF ReadCaCert, BuildStep
        <3> QED
            BY <1>6, <3>1, <3>2, <3>3
    <2> QED
        BY <1>5, <2>1 DEF AltInv
<1>7. CASE GenAltKey
    <2>1. /\ build'.pc = "leaf.key" /\ build'.call = build.call
          /\ alt' = [alt EXCEPT !.key = build.call]
        BY <1>1, <1>7 DEF GenAltKey, BuildStep
    <2>2. alt' = [key |-> build.call, tbs |-> alt.tbs, sig |-> alt.sig,
                  leaf |-> alt.leaf]
        BY <1>5, <2>1
    <2> QED
        BY <1>5, <2>1, <2>2 DEF AltInv
<1>8. CASE WriteLeafKey
    <2>1. /\ build.pc = "leaf.key" /\ build'.pc = "tbs"
          /\ build'.call = build.call /\ alt' = alt
        BY <1>1, <1>8 DEF WriteLeafKey, BuildStep
    <2> QED
        BY <1>5, <2>1 DEF AltInv
<1>9. CASE WriteTbs
    <2>1. /\ build.pc = "tbs" /\ build'.pc = "altsig" /\ build'.call = build.call
          /\ alt' = [alt EXCEPT !.tbs = Tbs(build.call, 1)]
        BY <1>1, <1>9 DEF WriteTbs, BuildStep
    <2>2. alt' = [key |-> alt.key, tbs |-> Tbs(build.call, 1), sig |-> alt.sig,
                  leaf |-> alt.leaf]
        BY <1>5, <2>1
    <2>3. alt.key = build.call
        BY <2>1 DEF AltInv
    <2> QED
        BY <1>5, <2>1, <2>2, <2>3 DEF AltInv
<1>10. CASE SignTbs
    <2>1. /\ build.pc = "altsig" /\ build'.pc = "leaf.crt"
          /\ build'.call = build.call
          /\ alt' = [alt EXCEPT !.sig = [by |-> alt.key, over |-> alt.tbs]]
        BY <1>1, <1>10 DEF SignTbs, BuildStep
    <2>2. alt' = [key |-> alt.key, tbs |-> alt.tbs,
                  sig |-> [by |-> alt.key, over |-> alt.tbs], leaf |-> alt.leaf]
        BY <1>5, <2>1
    <2>3. alt.key = build.call /\ alt.tbs = Tbs(build.call, 1)
        BY <2>1 DEF AltInv
    <2> QED
        BY <1>5, <2>1, <2>2, <2>3 DEF AltInv
<1>11. CASE WriteLeafCert
    <2> DEFINE leaf == [sapki |-> build.call, tbs |-> Tbs(build.call, 2),
                        sig |-> alt.sig]
    <2>1. /\ build.pc = "leaf.crt" /\ build'.pc = "altcheck"
          /\ build'.call = build.call /\ alt' = [alt EXCEPT !.leaf = leaf]
        BY <1>1, <1>11 DEF WriteLeafCert, BuildStep
    <2>2. alt' = [key |-> alt.key, tbs |-> alt.tbs, sig |-> alt.sig, leaf |-> leaf]
        BY <1>5, <2>1
    <2>3. /\ alt.key = build.call /\ alt.tbs = Tbs(build.call, 1)
          /\ alt.sig = [by |-> build.call, over |-> Tbs(build.call, 1)]
        BY <2>1 DEF AltInv
    <2> QED
        BY <1>5, <2>1, <2>2, <2>3 DEF AltInv
<1>12. CASE CheckAltSignature \/ CheckChain
    <2>1. /\ build.pc \in {"altcheck", "check"} /\ build'.pc \in {"check", "done"}
          /\ build'.call = build.call /\ alt' = alt
        BY <1>1, <1>12 DEF CheckAltSignature, CheckChain, BuildStep
    <2> QED
        BY <1>5, <2>1 DEF AltInv
<1>13. CASE BuildFails
    <2>1. build'.pc = "failed"
        BY <1>1, <1>13 DEF BuildFails, BuildStep
    <2>2. \/ alt' = alt
          \/ alt' = [alt EXCEPT !.key = Torn]
          \/ alt' = [alt EXCEPT !.tbs = TornTbs]
          \/ alt' = [alt EXCEPT !.sig = TornSig]
        BY <1>13 DEF BuildFails
    <2>3. /\ alt' = [key |-> alt'.key, tbs |-> alt'.tbs, sig |-> alt'.sig,
                     leaf |-> alt'.leaf]
          /\ alt'.key \in Gens /\ alt'.leaf.sapki \in Calls
        BY <1>5, <2>2
    <2> QED
        BY <2>1, <2>3 DEF AltInv
<1> QED
    BY <1>3, <1>4, <1>6, <1>7, <1>8, <1>9, <1>10, <1>11, <1>12, <1>13, NextCases
       DEF Building

-----------------------------------------------------------------------------
(* The theorems. *)

IInv == Types /\ Progress /\ Bounded /\ Fresh /\ Unmixed /\ BuildInv /\ AltInv

\* The strengthening of every invariant below is one, whatever the catalogue and
\* however often the scripts, the build and the harness run and break off.
THEOREM Invariance == Spec => []IInv
<1>1. Init => IInv
    BY TypesInit, ProgressInit, FreshInit, UnmixedInit, BuildInit DEF IInv
<1>2. IInv /\ [Next]_vars => IInv'
    <2> SUFFICES ASSUME IInv, [Next]_vars PROVE IInv'
        OBVIOUS
    <2>1. Types /\ Progress /\ Bounded /\ Fresh /\ Unmixed /\ BuildInv /\ AltInv
        BY DEF IInv
    <2>2. Types'
        BY <2>1, TypesStep
    <2> QED
        BY <2>1, <2>2, ProgressStep, BoundedStep, FreshStep, UnmixedStep,
           BuildInvStep, AltInvStep
           DEF IInv
<1> QED
    BY <1>1, <1>2, PTL DEF Spec

\* Every variable stays in its type; each script, mint_chain after mint_chain,
\* stays inside its list of chains.
THEOREM TypeCorrect == Spec => []TypeOK
<1>1. IInv => TypeOK
    <2> SUFFICES ASSUME IInv PROVE TypeOK
        OBVIOUS
    <2>1. Types /\ AltInv
        BY DEF IInv
    <2>2. calls \in Calls /\ \A k \in Calls : k <= calls => k \in 1 .. calls
        BY <2>1, IntFacts, CorpusAssumption DEF Calls
    <2>3. ASSUME NEW s \in Scripts
          PROVE  /\ mint[s].pc \in Elements(Commands \o LadderCommands) \cup Resting
                 /\ mint[s].call \in 1 .. calls
                 /\ mint[s].at \in 1 .. Len(Rounds(s))
        <3>1. mint[s].call \in Calls /\ mint[s].call <= calls
            BY <2>1, IntFacts
        <3>2. mint[s].pc \in Elements(Commands \o LadderCommands) \cup Resting
            BY <2>1, CommandSet DEF Types, MintType
        <3>3. mint[s].call \in 1 .. calls
            BY <2>2, <3>1
        <3>4. mint[s].at \in 1 .. Len(Rounds(s))
            BY <2>1 DEF Types, InRound
        <3> QED
            BY <3>2, <3>3, <3>4
    <2>4. /\ build.pc \in BuildCommands \cup Resting /\ build.call \in 1 .. calls
          /\ build.ca \in Gens \ {Torn}
        <3>1. /\ build.pc \in BuildCommands \cup Resting /\ build.call \in Calls
              /\ build.ca \in Gens \ {Torn} /\ build.call <= calls
            BY <2>1 DEF Types, BuildType
        <3>2. build.call \in 1 .. calls
            BY <2>2, <3>1
        <3> QED
            BY <3>1, <3>2
    <2>5. /\ copy.pc \in Elements(Copies) \cup {"idle"}
          /\ copy.at \in 1 .. Len(CHAINS) /\ copied \in [Names -> BOOLEAN]
        BY <2>1, NextCopyFacts DEF Types, BundlesType
    <2> QED
        BY <2>1, <2>2, <2>3, <2>4, <2>5
           DEF TypeOK, Types, FilesType, AltInv, BuildCommands
<1> QED
    BY <1>1, Invariance, PTL

\* openssl s_server refuses every mixture of two mintings that bundle() can put
\* together: what it would start from verifies, for openssl and for gnutls.
THEOREM MixturesRefused == Spec => []MixtureIsRefused
<1>1. IInv => MixtureIsRefused
    <2> SUFFICES ASSUME IInv, NEW b \in Elements(MINTED), copied[b],
                        Servable(bundles[b])
                 PROVE  BundleVerifies(bundles[b])
        BY DEF MixtureIsRefused
    <2>1. PICK g \in Calls : /\ bundles[b]["leaf.key"] = g
                             /\ bundles[b]["leaf.crt"].subject = g
        BY DEF Servable, IsWhole
    <2>2. \A f \in BundleFiles \ {"leaf.key"} : bundles[b][f] = Cert(g, g)
        BY <2>1 DEF IInv, Unmixed, CopiedIsOfKey
    <2>3. /\ bundles[b]["root.crt"] = Cert(g, g) /\ bundles[b]["int.crt"] = Cert(g, g)
          /\ bundles[b]["leaf.crt"] = Cert(g, g)
          /\ bundles[b]["chain.leaf"] = Cert(g, g)
          /\ bundles[b]["chain.int"] = Cert(g, g)
        BY <2>2 DEF BundleFiles
    <2> QED
        BY <2>3 DEF BundleVerifies, Verifies, IsWhole, Cert
<1> QED
    BY <1>1, Invariance, PTL

\* set -e and one owner per directory: a script that ends well leaves all of its
\* chains and ladders, of this invocation.
THEOREM MintingsAreWhole == Spec => []MintedIsWhole
<1>1. IInv => MintedIsWhole
    <2> SUFFICES ASSUME IInv, NEW s \in Scripts, mint[s].pc = "done",
                        NEW d \in Elements(ChainsOf(s)),
                        NEW f \in KeyFiles \cup CertFiles, IsOf(f, d)
                 PROVE  IsOfCall(d, f, mint[s].call)
        BY DEF MintedIsWhole, IsOfCall
    <2>1. ASSUME NEW i \in 1 .. Len(Rounds(s)), Rounds(s)[i] = d,
                 f \in FilesOf(s, i)
          PROVE  IsOfCall(d, f, mint[s].call)
        BY <2>1 DEF IInv, Progress, Settled
    <2>2. CASE f \in ChainFiles
        <3>1. PICK i \in 1 .. Len(ChainsOf(s)) : ChainsOf(s)[i] = d
            BY DEF Elements
        <3>2. i \in 1 .. Len(Rounds(s)) /\ Rounds(s)[i] = d /\ f \in FilesOf(s, i)
            BY <2>2, <3>1, ListFacts DEF FilesOf
        <3> QED
            BY <2>1, <3>2
    <2>3. CASE f \in SanFiles
        <3>1. d \in Elements(LADDER) \cap Elements(ChainsOf(s))
            BY <2>3 DEF SanFiles, IsOf
        <3>2. PICK i \in 1 .. Len(Rounds(s)) :
                  i > Len(ChainsOf(s)) /\ Rounds(s)[i] = d
            BY <3>1, LadderFact
        <3>3. f \in FilesOf(s, i)
            BY <2>3, <3>2, ListFacts DEF FilesOf
        <3> QED
            BY <2>1, <3>2, <3>3
    <2> QED
        BY <2>2, <2>3, RankFacts
<1> QED
    BY <1>1, Invariance, PTL

\* The two readings of build_chain and its last check are enough, although the
\* scripts may replace the CA between them and after.
THEOREM BuiltLeafFits == Spec => []BuiltLeafFitsItsCA
<1>1. IInv => BuiltLeafFitsItsCA
    BY DEF IInv, BuildInv
<1> QED
    BY <1>1, Invariance, PTL

\* The TBS part that was signed is that of the leaf that was written.
THEOREM AltSignatureFits == Spec => []AltSignatureCovers
<1>1. IInv => AltSignatureCovers
    BY DEF IInv, AltInv, AltSignatureCovers, Tbs, Serial
<1> QED
    BY <1>1, Invariance, PTL
=============================================================================
