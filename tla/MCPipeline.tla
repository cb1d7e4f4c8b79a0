----------------------------- MODULE MCPipeline -----------------------------
EXTENDS Pipeline

\* Lengths as committed in gen/sizes.json and phase3/transport.json.
Ecdsa(tbs, sig) == [tbs |-> tbs, alg |-> 10, spki |-> 91, sig |-> sig]
MlDsa44(tbs) == [tbs |-> tbs, alg |-> 11, spki |-> 1334, sig |-> 2420]

\* ecdsa: a signature has 70 to 72 bytes, and the length of a TBS part takes one
\* byte more from 256 on; a SAN list beyond one record.  mldsa44: SAN lists that
\* bring the flight to 13600, 13601, 14600 and 14601 bytes.
MCVariants == [c \in {"ecdsa", "mldsa44"} |->
    IF c = "ecdsa"
    THEN {[leaf |-> Ecdsa(370, 71), int |-> Ecdsa(342, 71)],
          [leaf |-> Ecdsa(255, 70), int |-> Ecdsa(256, 72)],
          [leaf |-> Ecdsa(15900, 71), int |-> Ecdsa(342, 71)]}
    ELSE {[leaf |-> MlDsa44(tbs), int |-> MlDsa44(1590)] :
             tbs \in {1616, 3424, 3425, 4424, 4425}}]
MCCommitted == [c \in {"ecdsa", "mldsa44"} |->
    IF c = "ecdsa"
    THEN [leaf |-> Ecdsa(370, 71), int |-> Ecdsa(342, 71)]
    ELSE [leaf |-> MlDsa44(1616), int |-> MlDsa44(1590)]]

\* The leaves of the ecdsa ladder by their growth; signatures vary, and a serial
\* number may be shorter.
MCSans == [c \in {"ecdsa"} |->
    [leaf \in {v.leaf : v \in MCVariants[c]} |->
        [rung \in {"leaf-san10", "leaf-san50", "leaf-san150"} |->
            CASE rung = "leaf-san10"  -> Ecdsa(leaf.tbs + 166, 72)
              [] rung = "leaf-san50"  -> Ecdsa(leaf.tbs + 930, 70)
              [] rung = "leaf-san150" -> Ecdsa(leaf.tbs + 2880, 71)]]]

MCLadder == {"ecdsa"}
MCCHAINS == <<"mldsa44", "ecdsa">>
MCMlDsa == {"mldsa44"}
MCAveraged == <<"ecdsa", "mldsa44">>
MCCvSizes == [c \in {"ecdsa", "mldsa44"} |->
                 IF c = "ecdsa" THEN {74, 75} ELSE {2424}]
MCTickets == {200, 229}

\* mldsa44 stands for the chains without a price of their own, too.
MCPriced == {"ecdsa"}
MCDER == [c \in {"ecdsa", "mldsa44"} |-> IF c = "ecdsa" THEN 900 ELSE 8098]

\* One algorithm is best for a certificate alone, another for two, and all of them
\* make more of a key or a signature.
MCCompressed(a, kind, lengths) ==
    IF kind = "certs"
    THEN Total(lengths) - lengths[1] \div 100
           - Len(lengths) * [zlib |-> 40, brotli |-> 52, zstd |-> 48][a]
           - (Len(lengths) - 1) * [zlib |-> 120, brotli |-> 130, zstd |-> 150][a]
    ELSE lengths[1] + [zlib |-> 11, brotli |-> 4, zstd |-> 10][a]
=============================================================================
