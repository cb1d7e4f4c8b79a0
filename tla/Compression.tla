---------------------------- MODULE Compression -----------------------------
(***************************************************************************)
(* phase3/compressibility.py: what the three compressors of RFC 8879 save  *)
(* on the certificates a server sends, and how the saving splits into what *)
(* each certificate has alone and what only shows when they are sent       *)
(* together.  Certificates are their lengths.                              *)
(*                                                                         *)
(* The compressors are external: what each makes of a payload is any       *)
(* function of it.                                                         *)
(***************************************************************************)
EXTENDS Integers, Sequences, FiniteSetsExt, SequencesExt

\* The bytes an algorithm makes of certificates one after the other, or of the key or
\* the signature of one ("certs", "spki", "signature"), of these lengths.
CONSTANT Compressed(_, _, _)

Algorithms == <<"zlib", "brotli", "zstd">>

Total(lengths) ==
    LET upTo[i \in 0 .. Len(lengths)] ==
            IF i = 0 THEN 0 ELSE upTo[i - 1] + lengths[i]
    IN upTo[Len(lengths)]

CompressAll(kind, lengths) ==
    [a \in ToSet(Algorithms) |-> Compressed(a, kind, lengths)]
BestSize(comp) == Min({comp[a] : a \in DOMAIN comp})

\* min() gives the first of equals.
BestAlgo(comp) ==
    Algorithms[Min({i \in DOMAIN Algorithms : comp[Algorithms[i]] = BestSize(comp)})]

Saved(certs) == Total(certs) - BestSize(CompressAll("certs", certs))
Alone(certs) == [i \in DOMAIN certs |-> Saved(<<certs[i]>>)]

\* What is saved on each certificate, and what more on all of them together.
Decompose(certs) ==
    [within |-> Total(Alone(certs)),
     across |-> Saved(certs) - Total(Alone(certs))]

ChainRow(certs) ==
    [raw |-> Total(certs), algo |-> BestAlgo(CompressAll("certs", certs)),
     saved |-> Saved(certs), parts |-> Decompose(certs)]

FieldRow(kind, raw) ==
    [raw |-> raw, delta |-> BestSize(CompressAll(kind, <<raw>>)) - raw]
=============================================================================
