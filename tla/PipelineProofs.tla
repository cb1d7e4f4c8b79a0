--------------------------- MODULE PipelineProofs ---------------------------
(***************************************************************************)
(* What is proved of the programs that turn certificates and captures into *)
(* figures, for certificates of every length TLS can carry, compressors of *)
(* every strength, and the programs run in every order.                    *)
(***************************************************************************)
EXTENDS Pipeline, WellFoundedInduction, FiniteSetTheorems, SequenceTheorems,
        TLAPS

-----------------------------------------------------------------------------
(* Sums. *)

\* A set of naturals has a least one.
LEMMA LeastNatural ==
    ASSUME NEW T \in SUBSET Nat, T # {}
    PROVE  \E n \in T : \A m \in T : n <= m
<1>1. PICK n \in T : \A m \in T : ~(<<m, n>> \in OpToRel(<, Nat))
    BY NatLessThanWellFounded, WFMin
<1>2. \A m \in T : ~(m < n)
    BY <1>1 DEF OpToRel
<1> QED
    BY <1>2

\* What sum() and int.from_bytes compute: element after element, what there is
\* so far times k, and the element added.
Added(s, k, u) ==
    [i \in 0 .. Len(s) |->
        IF i = 0 THEN 0 ELSE (IF k = 1 THEN u[i - 1] ELSE u[i - 1] * k) + s[i]]

\* There are such intermediate results.
LEMMA SumsExist ==
    ASSUME NEW s \in Seq(Nat), NEW k \in Nat
    PROVE  \E u : u = Added(s, k, u)
<1> DEFINE Times(x) == IF k = 1 THEN x ELSE x * k
           Sums(n) == {u \in [0 .. n -> Nat] :
                          /\ u[0] = 0
                          /\ \A i \in 1 .. n : u[i] = Times(u[i - 1]) + s[i]}
           Bad == {n \in 0 .. Len(s) : Sums(n) = {}}
<1>1. Len(s) \in Nat /\ \A i \in 1 .. Len(s) : s[i] \in Nat
    OBVIOUS
<1>2. \A x \in Nat : Times(x) \in Nat
    OBVIOUS
<1> HIDE DEF Times
<1>3. Len(s) \notin Bad
    <2> SUFFICES ASSUME Len(s) \in Bad PROVE FALSE
        OBVIOUS
    <2>1. PICK n \in Bad : \A m \in Bad : n <= m
        <3>1. Bad \in SUBSET Nat /\ Bad # {}
            BY <1>1
        <3> HIDE DEF Bad
        <3> QED
            BY <3>1, LeastNatural
    <2>2. n \in 0 .. Len(s) /\ Sums(n) = {}
        OBVIOUS
    <2>3. n # 0
        <3>1. [i \in 0 .. 0 |-> 0] \in Sums(0)
            OBVIOUS
        <3> QED
            BY <2>2, <3>1
    <2>4. n \in 1 .. Len(s) /\ n - 1 \in 0 .. Len(s) /\ ~(n <= n - 1)
        BY <1>1, <2>2, <2>3
    <2>5. PICK u : u \in Sums(n - 1)
        <3>1. n - 1 \notin Bad
            BY ONLY <2>1, <2>4
        <3> HIDE DEF Sums
        <3> QED
            BY <2>4, <3>1
    <2> DEFINE v == [i \in 0 .. n |-> IF i = n THEN Times(u[n - 1]) + s[n] ELSE u[i]]
    <2>6. /\ n \in Nat /\ u \in [0 .. n - 1 -> Nat] /\ u[0] = 0
          /\ \A i \in 1 .. n - 1 : u[i] = Times(u[i - 1]) + s[i]
        BY <2>4, <2>5
    <2>7. v \in [0 .. n -> Nat]
        <3>1. u[n - 1] \in Nat /\ s[n] \in Nat
            BY <1>1, <2>4, <2>6
        <3>2. Times(u[n - 1]) \in Nat
            BY ONLY <1>2, <3>1
        <3>3. Times(u[n - 1]) + s[n] \in Nat
            BY <3>1, <3>2
        <3>4. \A i \in 0 .. n : i # n => i \in 0 .. n - 1
            BY <2>6
        <3> QED
            BY <2>6, <3>3, <3>4
    <2>8. v[0] = 0
        BY <2>4, <2>6
    <2>9. ASSUME NEW i \in 1 .. n PROVE v[i] = Times(v[i - 1]) + s[i]
        <3>1. i - 1 \in 0 .. n /\ i \in 0 .. n /\ i - 1 # n /\ n - 1 \in 0 .. n
            BY <2>6, <2>9
        <3>2. v[i - 1] = u[i - 1]
            BY <3>1
        <3>3. CASE i = n
            BY <3>1, <3>2, <3>3
        <3>4. CASE i # n
            BY <2>6, <2>9, <3>1, <3>2, <3>4
        <3> QED
            BY <3>3, <3>4
    <2>10. v \in Sums(n)
        BY <2>7, <2>8, <2>9
    <2> QED
        BY <2>2, <2>10
<1>4. PICK u : u \in Sums(Len(s))
    <2> HIDE DEF Sums
    <2> QED
        BY <1>1, <1>3
<1>5. u = [i \in 0 .. Len(s) |-> IF i = 0 THEN 0 ELSE Times(u[i - 1]) + s[i]]
    BY <1>1, <1>4
<1> QED
    BY <1>5 DEF Added, Times

\* And they are naturals.
LEMMA SumsType ==
    ASSUME NEW s \in Seq(Nat), NEW k \in Nat, NEW w, w = Added(s, k, w)
    PROVE  w \in [0 .. Len(s) -> Nat]
<1> DEFINE Times(x) == IF k = 1 THEN x ELSE x * k
           Bad == {i \in 0 .. Len(s) : w[i] \notin Nat}
<1>1. Len(s) \in Nat /\ \A i \in 1 .. Len(s) : s[i] \in Nat
    OBVIOUS
<1>2. w = [i \in 0 .. Len(s) |-> IF i = 0 THEN 0 ELSE Times(w[i - 1]) + s[i]]
    BY DEF Added
<1>3. \A x \in Nat : Times(x) \in Nat
    OBVIOUS
<1> HIDE DEF Times
<1>4. ASSUME Bad # {} PROVE FALSE
    <2>1. PICK n \in Bad : \A m \in Bad : n <= m
        <3>1. Bad \in SUBSET Nat
            BY <1>1
        <3> HIDE DEF Bad
        <3> QED
            BY <1>4, <3>1, LeastNatural
    <2>2. n \in 0 .. Len(s) /\ w[n] \notin Nat
        OBVIOUS
    <2>3. w[n] = IF n = 0 THEN 0 ELSE Times(w[n - 1]) + s[n]
        BY <1>2, <2>2
    <2>4. n \in 1 .. Len(s) /\ n - 1 \in 0 .. Len(s) /\ ~(n <= n - 1)
        BY <1>1, <2>2, <2>3
    <2>5. n - 1 \notin Bad
        BY ONLY <2>1, <2>4
    <2>6. w[n - 1] \in Nat
        BY <2>4, <2>5
    <2>7. Times(w[n - 1]) \in Nat
        BY ONLY <1>3, <2>6
    <2> QED
        BY <1>1, <2>2, <2>3, <2>4, <2>7
<1>5. \A i \in 0 .. Len(s) : w[i] \in Nat
    BY <1>4
<1> QED
    BY <1>2, <1>5

\* Total and BigEndian are the last of them.
LEMMA TotalFacts ==
    ASSUME NEW s \in Seq(Nat)
    PROVE  \E u \in [0 .. Len(s) -> Nat] :
               /\ u[0] = 0
               /\ \A i \in 1 .. Len(s) : u[i] = u[i - 1] + s[i]
               /\ Total(s) = u[Len(s)]
<1> DEFINE Step1(u) == [i \in 0 .. Len(s) |-> IF i = 0 THEN 0 ELSE u[i - 1] + s[i]]
           w == CHOOSE u : u = Step1(u)
<1>1. \A u : Step1(u) = Added(s, 1, u)
    BY DEF Added
<1>2. w = Step1(w)
    <2>1. \E u : u = Step1(u)
        BY <1>1, SumsExist
    <2> QED
        BY <2>1
<1>3. Total(s) = w[Len(s)]
    BY DEF Total
<1>4. w \in [0 .. Len(s) -> Nat]
    <2> HIDE DEF w, Step1
    <2> QED
        BY <1>1, <1>2, SumsType
<1>5. \A i \in 0 .. Len(s) : w[i] = IF i = 0 THEN 0 ELSE w[i - 1] + s[i]
    BY <1>2
<1> HIDE DEF w
<1> QED
    BY <1>3, <1>4, <1>5

\* The same of the bytes of a length.
LEMMA BigEndianFacts ==
    ASSUME NEW s \in Seq(Nat)
    PROVE  \E u \in [0 .. Len(s) -> Nat] :
               /\ u[0] = 0
               /\ \A i \in 1 .. Len(s) : u[i] = u[i - 1] * 256 + s[i]
               /\ BigEndian(s) = u[Len(s)]
<1> DEFINE Step1(u) == [i \in 0 .. Len(s) |->
                           IF i = 0 THEN 0 ELSE u[i - 1] * 256 + s[i]]
           w == CHOOSE u : u = Step1(u)
<1>1. \A u : Step1(u) = Added(s, 256, u)
    BY DEF Added
<1>2. w = Step1(w)
    <2>1. \E u : u = Step1(u)
        BY <1>1, SumsExist
    <2> QED
        BY <2>1
<1>3. BigEndian(s) = w[Len(s)]
    BY DEF BigEndian
<1>4. w \in [0 .. Len(s) -> Nat]
    <2> HIDE DEF w, Step1
    <2> QED
        BY <1>1, <1>2, SumsType
<1>5. \A i \in 0 .. Len(s) : w[i] = IF i = 0 THEN 0 ELSE w[i - 1] * 256 + s[i]
    BY <1>2
<1> HIDE DEF w
<1> QED
    BY <1>3, <1>4, <1>5

\* A function on the first naturals is a list.
LEMMA ListOf ==
    ASSUME NEW n \in Nat, NEW s \in [1 .. n -> Nat]
    PROVE  s \in Seq(Nat) /\ Len(s) = n
BY IsASeq

\* The sum of a list of naturals is one; of a short list, written out.
LEMMA TotalType == ASSUME NEW s \in Seq(Nat) PROVE Total(s) \in Nat
BY TotalFacts

\* The first one, two or three of them.
LEMMA TotalOfThree ==
    ASSUME NEW s \in Seq(Nat), Len(s) <= 3
    PROVE  Total(s) = (IF Len(s) >= 1 THEN s[1] ELSE 0)
                         + (IF Len(s) >= 2 THEN s[2] ELSE 0)
                         + (IF Len(s) = 3 THEN s[3] ELSE 0)
<1>1. PICK u \in [0 .. Len(s) -> Nat] :
          /\ u[0] = 0
          /\ \A i \in 1 .. Len(s) : u[i] = u[i - 1] + s[i]
          /\ Total(s) = u[Len(s)]
    BY TotalFacts
<1>2. Len(s) \in 0 .. 3 /\ \A i \in 1 .. Len(s) : s[i] \in Nat
    OBVIOUS
<1>3. Len(s) >= 1 => u[1] = s[1]
    BY <1>1, <1>2
<1>4. Len(s) >= 2 => u[2] = s[1] + s[2]
    BY <1>1, <1>2, <1>3
<1>5. Len(s) = 3 => u[3] = s[1] + s[2] + s[3]
    BY <1>1, <1>2, <1>4
<1>6. CASE Len(s) = 0
    BY <1>1, <1>6
<1>7. CASE Len(s) = 1
    BY <1>1, <1>2, <1>3, <1>7
<1>8. CASE Len(s) = 2
    BY <1>1, <1>2, <1>4, <1>8
<1>9. CASE Len(s) = 3
    BY <1>1, <1>2, <1>5, <1>9
<1> QED
    BY <1>2, <1>6, <1>7, <1>8, <1>9

\* Two written out.
LEMMA TotalOfTwo ==
    ASSUME NEW s \in Seq(Nat), Len(s) = 2
    PROVE  /\ s[1] \in Nat /\ s[2] \in Nat
           /\ DOMAIN s = 1 .. 2
           /\ Total(s) = s[1] + s[2]
<1>1. \A r \in Seq(Nat) : Len(r) \in Nat /\ \A i \in 1 .. Len(r) : r[i] \in Nat
    OBVIOUS
<1>2. s[1] \in Nat /\ s[2] \in Nat /\ Len(s) <= 3
    <2>1. \A i \in 1 .. Len(s) : s[i] \in Nat
        BY ONLY <1>1, s \in Seq(Nat)
    <2>2. \A i \in 1 .. 2 : s[i] \in Nat
        BY ONLY <2>1, Len(s) = 2
    <2> QED
        BY <2>2
<1>3. DOMAIN s = 1 .. 2
    OBVIOUS
<1>4. Total(s) = (IF Len(s) >= 1 THEN s[1] ELSE 0)
                    + (IF Len(s) >= 2 THEN s[2] ELSE 0)
                    + (IF Len(s) = 3 THEN s[3] ELSE 0)
    BY ONLY <1>2, s \in Seq(Nat), TotalOfThree
<1>5. Len(s) = 2 /\ Total(s) = s[1] + s[2] + 0
    BY ONLY <1>4, Len(s) = 2
<1> QED
    BY <1>2, <1>3, <1>5

\* The least of a set that has one.
LEMMA MinFacts ==
    ASSUME NEW T, NEW x \in T, \A y \in T : x <= y
    PROVE  Min(T) \in T /\ \A y \in T : Min(T) <= y
BY DEF Min

-----------------------------------------------------------------------------
(* DER. *)

\* Bytes after the first one.
LEMMA AfterFirst ==
    ASSUME NEW s \in Seq(Nat), NEW x \in Nat
    PROVE  /\ <<x>> \o s \in Seq(Nat)
           /\ (<<x>> \o s)[1] = x
           /\ Len(<<x>> \o s) = 1 + Len(s)
           /\ SubSeq(<<x>> \o s, 2, 1 + Len(s)) = s
<1> DEFINE t == <<x>> \o s
<1>1. t \in Seq(Nat) /\ Len(t) = 1 + Len(s) /\ Len(s) \in Nat
    OBVIOUS
<1>2. t[1] = x /\ \A i \in 1 .. Len(s) : t[i + 1] = s[i]
    OBVIOUS
<1>3. s = [i \in 1 .. Len(s) |-> s[i]]
    OBVIOUS
<1> HIDE DEF t
<1>4. SubSeq(t, 2, 1 + Len(s)) = [i \in 1 .. 1 + Len(s) - 2 + 1 |-> t[i + 2 - 1]]
    OBVIOUS
<1>5. 1 + Len(s) - 2 + 1 = Len(s) /\ \A i \in 1 .. Len(s) : i + 2 - 1 = i + 1
    BY <1>1
<1>6. SubSeq(t, 2, 1 + Len(s)) = s
    BY <1>1, <1>2, <1>3, <1>4, <1>5
<1> QED
    BY <1>1, <1>2, <1>6 DEF t

\* The number of bytes a length takes: of four, the first is not zero.
LEMMA BytesOfFacts ==
    ASSUME NEW n \in Nat, n >= 128, n < 256 * 256 * 256 * 256
    PROVE  BytesOf(n) \in 1 .. 4 /\ n \div Weight[BytesOf(n)] \in 1 .. 255
<1>1. \E k \in 1 .. 4 : n \div Weight[k] \in 1 .. 255
    <2>1. CASE n < 256
        BY <2>1, SMT DEF Weight
    <2>2. CASE n >= 256 /\ n < 256 * 256
        <3>1. n \div 256 \in 1 .. 255
            BY <2>2, SMT
        <3> QED
            BY <3>1, SMT DEF Weight
    <2>3. CASE n >= 256 * 256 /\ n < 256 * 256 * 256
        <3>1. n \div (256 * 256) \in 1 .. 255
            BY <2>3, SMT
        <3> QED
            BY <3>1, SMT DEF Weight
    <2>4. CASE n >= 256 * 256 * 256
        <3>1. n \div (256 * 256 * 256) \in 1 .. 255
            BY <2>4, SMT
        <3> QED
            BY <3>1, SMT DEF Weight
    <2> QED
        BY <2>1, <2>2, <2>3, <2>4, SMT
<1> QED
    BY <1>1 DEF BytesOf

\* The one digit of a number of one byte.
LEMMA Digits1 ==
    ASSUME NEW n \in Nat, n < 256
    PROVE  (n \div 1) % 256 = n
BY SMT

\* The two digits of a number of two bytes.
LEMMA Digits2 ==
    ASSUME NEW n \in Nat, n < 256 * 256
    PROVE  ((n \div 256) % 256) * 256 + ((n \div 1) % 256) = n
BY SMT

\* The three digits of a number of three bytes.
LEMMA Digits3 ==
    ASSUME NEW n \in Nat, n < 256 * 256 * 256
    PROVE  (((n \div (256 * 256)) % 256) * 256 + ((n \div 256) % 256)) * 256
               + ((n \div 1) % 256) = n
BY SMT

\* The four digits of a number of four bytes.
LEMMA Digits4 ==
    ASSUME NEW n \in Nat, n < 256 * 256 * 256 * 256
    PROVE  ((((n \div (256 * 256 * 256)) % 256) * 256
               + ((n \div (256 * 256)) % 256)) * 256 + ((n \div 256) % 256)) * 256
               + ((n \div 1) % 256) = n
BY SMT

\* sizes.py reads from the bytes of a length the length they were written for.
LEMMA DerFacts ==
    ASSUME NEW n \in Nat, n < 256 * 256 * 256 * 256
    PROVE  /\ DerLen(n) \in Seq(Nat) /\ Len(DerLen(n)) \in 1 .. 5
           /\ ReadLen(DerLen(n)).length = n
<1>1. CASE n < 128
    <2>1. DerLen(n) = <<n>>
        BY <1>1, SMT DEF DerLen
    <2>2. ReadLen(<<n>>) = [length |-> n, header |-> 1]
        BY <1>1, SMT DEF ReadLen
    <2> QED
        BY <2>1, <2>2, SMT
<1>2. CASE n >= 128
    <2> DEFINE k == BytesOf(n)
               s == [i \in 1 .. k |-> (n \div Weight[k - i + 1]) % 256]
    <2>1. k \in 1 .. 4 /\ n \div Weight[k] \in 1 .. 255
        BY <1>2, BytesOfFacts, SMT
    <2>2. DerLen(n) = <<128 + k>> \o s
        <3>1. ~(n < 128)
            BY <1>2
        <3> QED
            BY <3>1, Zenon DEF DerLen
    <2>3. /\ Weight[1] = 1 /\ Weight[2] = 256 /\ Weight[3] = 256 * 256
          /\ Weight[4] = 256 * 256 * 256
        BY SMT DEF Weight
    <2> HIDE DEF k
    <2>4. \A i \in 1 .. k : (n \div Weight[k - i + 1]) % 256 \in Nat
        <3>1. \A w \in {1, 256, 256 * 256, 256 * 256 * 256} : (n \div w) % 256 \in Nat
            BY SMT
        <3>2. \A i \in 1 .. k : k - i + 1 \in 1 .. 4
            BY <2>1, SMT
        <3>3. \A j \in 1 .. 4 : Weight[j] \in {1, 256, 256 * 256, 256 * 256 * 256}
            BY <2>3, SMT
        <3> QED
            BY <3>1, <3>2, <3>3, SMT
    <2>5. s \in Seq(Nat) /\ Len(s) = k
        <3>1. s \in [1 .. k -> Nat]
            BY <2>4, SMT
        <3> HIDE DEF s
        <3> QED
            BY <2>1, <3>1, ListOf, SMT
    <2>6. \A i \in 1 .. k : s[i] = (n \div Weight[k - i + 1]) % 256
        BY SMT
    <2> HIDE DEF s
    <2>7. PICK u \in [0 .. Len(s) -> Nat] :
              /\ u[0] = 0
              /\ \A i \in 1 .. Len(s) : u[i] = u[i - 1] * 256 + s[i]
              /\ BigEndian(s) = u[Len(s)]
        BY <2>5, BigEndianFacts, Zenon
    <2>8. BigEndian(s) = n
        <3>1. CASE k = 1
            <4>1. s[1] = (n \div 1) % 256 /\ n \div 1 \in 1 .. 255
                <5>1. \A i \in 1 .. 1 : s[i] = (n \div Weight[1 - i + 1]) % 256
                    BY <2>6, <3>1, Zenon
                <5>2. 1 - 1 + 1 = 1
                    BY SMT
                <5>3. /\ s[1] = (n \div Weight[1]) % 256
                    BY <5>1, <5>2, SMT
                <5>4. n \div Weight[1] \in 1 .. 255
                    BY <2>1, <3>1, Zenon
                <5> QED
                    BY ONLY <2>3, <5>3, <5>4, Zenon
            <4>2. BigEndian(s) = s[1]
                BY <2>5, <2>7, <3>1, <4>1, SMT
            <4>3. n < 256
                BY <4>1, SMT
            <4> QED
                BY <4>1, <4>2, <4>3, Digits1, SMT
        <3>2. CASE k = 2
            <4>1. /\ s[1] = (n \div 256) % 256 /\ s[2] = (n \div 1) % 256
                  /\ n \div 256 \in 1 .. 255
                <5>1. \A i \in 1 .. 2 : s[i] = (n \div Weight[2 - i + 1]) % 256
                    BY <2>6, <3>2, Zenon
                <5>2. 2 - 1 + 1 = 2 /\ 2 - 2 + 1 = 1
                    BY SMT
                <5>3. /\ s[1] = (n \div Weight[2]) % 256
                      /\ s[2] = (n \div Weight[1]) % 256
                    BY <5>1, <5>2, SMT
                <5>4. n \div Weight[2] \in 1 .. 255
                    BY <2>1, <3>2, Zenon
                <5>5. s[1] = (n \div 256) % 256 /\ s[2] = (n \div 1) % 256
                    BY ONLY <2>3, <5>3, Zenon
                <5>6. n \div 256 \in 1 .. 255
                    BY ONLY <2>3, <5>4, Zenon
                <5> QED
                    BY ONLY <5>5, <5>6, Zenon
            <4>2. u[1] = s[1] /\ u[2] = u[1] * 256 + s[2] /\ BigEndian(s) = u[2]
                BY <2>5, <2>7, <3>2, <4>1, SMT
            <4>3. n < 256 * 256
                BY <4>1, SMT
            <4> QED
                BY <4>1, <4>2, <4>3, Digits2, SMT
        <3>3. CASE k = 3
            <4>1. /\ s[1] = (n \div (256 * 256)) % 256
                  /\ s[2] = (n \div 256) % 256 /\ s[3] = (n \div 1) % 256
                  /\ n \div (256 * 256) \in 1 .. 255
                <5>1. \A i \in 1 .. 3 : s[i] = (n \div Weight[3 - i + 1]) % 256
                    BY <2>6, <3>3, Zenon
                <5>2. 3 - 1 + 1 = 3 /\ 3 - 2 + 1 = 2 /\ 3 - 3 + 1 = 1
                    BY SMT
                <5>3. /\ s[1] = (n \div Weight[3]) % 256
                      /\ s[2] = (n \div Weight[2]) % 256
                      /\ s[3] = (n \div Weight[1]) % 256
                    BY <5>1, <5>2, SMT
                <5>4. n \div Weight[3] \in 1 .. 255
                    BY <2>1, <3>3, Zenon
                <5>5. s[1] = (n \div (256 * 256)) % 256
                    BY ONLY <2>3, <5>3, Zenon
                <5>6. s[2] = (n \div 256) % 256 /\ s[3] = (n \div 1) % 256
                    BY ONLY <2>3, <5>3, Zenon
                <5>7. n \div (256 * 256) \in 1 .. 255
                    BY ONLY <2>3, <5>4, Zenon
                <5> QED
                    BY ONLY <5>5, <5>6, <5>7, Zenon
            <4>2. /\ u[1] = s[1] /\ u[2] = u[1] * 256 + s[2]
                  /\ u[3] = u[2] * 256 + s[3] /\ BigEndian(s) = u[3]
                BY <2>5, <2>7, <3>3, <4>1, SMT
            <4>3. n < 256 * 256 * 256
                BY <4>1, SMT
            <4> QED
                BY <4>1, <4>2, <4>3, Digits3, SMT
        <3>4. CASE k = 4
            <4>1. /\ s[1] = (n \div (256 * 256 * 256)) % 256
                  /\ s[2] = (n \div (256 * 256)) % 256
                  /\ s[3] = (n \div 256) % 256 /\ s[4] = (n \div 1) % 256
                <5>1. \A i \in 1 .. 4 : s[i] = (n \div Weight[4 - i + 1]) % 256
                    BY <2>6, <3>4, Zenon
                <5>2. 4 - 1 + 1 = 4 /\ 4 - 2 + 1 = 3 /\ 4 - 3 + 1 = 2 /\ 4 - 4 + 1 = 1
                    BY SMT
                <5>3. /\ s[1] = (n \div Weight[4]) % 256
                      /\ s[2] = (n \div Weight[3]) % 256
                      /\ s[3] = (n \div Weight[2]) % 256
                      /\ s[4] = (n \div Weight[1]) % 256
                    BY <5>1, <5>2, SMT
                <5>4. s[1] = (n \div (256 * 256 * 256)) % 256
                    BY ONLY <2>3, <5>3, Zenon
                <5>5. s[2] = (n \div (256 * 256)) % 256
                    BY ONLY <2>3, <5>3, Zenon
                <5>6. s[3] = (n \div 256) % 256 /\ s[4] = (n \div 1) % 256
                    BY ONLY <2>3, <5>3, Zenon
                <5> QED
                    BY <5>4, <5>5, <5>6, Zenon
            <4>2. /\ u[1] = s[1] /\ u[2] = u[1] * 256 + s[2]
                  /\ u[3] = u[2] * 256 + s[3] /\ u[4] = u[3] * 256 + s[4]
                  /\ BigEndian(s) = u[4]
                BY <2>5, <2>7, <3>4, <4>1, SMT
            <4> QED
                BY <4>1, <4>2, Digits4, SMT
        <3> QED
            BY <2>1, <3>1, <3>2, <3>3, <3>4, SMT
    <2> DEFINE x == 128 + k
               t == <<x>> \o s
    <2>9. x \in Nat /\ ~(x < 128) /\ x % 128 = k
        BY <2>1, SMT
    <2> HIDE DEF x
    <2>10. /\ t \in Seq(Nat) /\ t[1] = x /\ Len(t) = 1 + k
           /\ SubSeq(t, 2, 1 + k) = s
        BY <2>5, <2>9, AfterFirst, SMT
    <2> HIDE DEF t
    <2>11. ReadLen(t) = [length |-> BigEndian(s), header |-> 1 + k]
        <3>1. ReadLen(t) =
                  [length |-> BigEndian(SubSeq(t, 2, 1 + (t[1] % 128))),
                   header |-> 1 + (t[1] % 128)]
            BY <2>9, <2>10, Zenon DEF ReadLen
        <3> QED
            BY <2>9, <2>10, <3>1, Zenon
    <2>12. DerLen(n) = t
        BY <2>2 DEF t, x
    <2>13. ReadLen(t).length = n
        BY <2>8, <2>11
    <2>14. 1 + k \in 1 .. 5
        BY <2>1, SMT
    <2> QED
        BY <2>10, <2>12, <2>13, <2>14, Zenon
<1> QED
    BY <1>1, <1>2, SMT

\* What a certificate of TLS's limits has: no length in it takes more than four
\* bytes, and the walk finds the signature.
LEMMA CertificateFacts ==
    ASSUME NEW cert \in Certificates
    PROVE  /\ cert.spki \in Nat /\ cert.sig \in Nat /\ TotalSize(cert) \in Nat
           /\ TotalSize(cert) >= cert.spki + cert.sig
           /\ SignatureOf(Walk(cert)) = cert.sig
<1> DEFINE big == 256 * 256 * 256
           huge == 256 * 256 * 256 * 256
           c == Contents(cert)
           tlv == [i \in 1 .. 3 |-> TlvSize(Contents(cert)[i])]
<1>1. /\ cert.tbs \in 0 .. big - 2 /\ cert.alg \in 0 .. big - 2
      /\ cert.spki \in 0 .. big - 2 /\ cert.sig \in 0 .. big - 2
    BY DEF Certificates, Below2To24
<1>2. big \in Nat /\ huge \in Nat /\ big + 6 + big + 6 + big + 6 < huge
    BY SMT
<1>3. c[1] = cert.tbs /\ c[2] = cert.alg /\ c[3] = cert.sig + 1
    BY DEF Contents
<1>4. \A n \in Nat : n < huge => /\ Len(DerLen(n)) \in 1 .. 5
                                 /\ ReadLen(DerLen(n)).length = n
    BY DerFacts
<1> HIDE DEF big, huge, c
<1>5. \A i \in 1 .. 3 : c[i] \in Nat /\ c[i] < big
    <2>1. c[1] \in Nat /\ c[1] < big /\ c[2] \in Nat /\ c[2] < big
        BY <1>1, <1>2, <1>3
    <2>2. c[3] \in Nat /\ c[3] < big
        BY <1>1, <1>2, <1>3
    <2> QED
        BY <2>1, <2>2
<1>6. ASSUME NEW n \in Nat, n < huge
      PROVE  TlvSize(n) \in Nat /\ TlvSize(n) <= n + 6 /\ TlvSize(n) >= n
    <2> DEFINE l == Len(DerLen(n))
    <2>1. l \in 1 .. 5
        BY ONLY <1>4, n \in Nat, n < huge
    <2>2. TlvSize(n) = 1 + l + n
        BY DEF TlvSize
    <2> HIDE DEF l
    <2> QED
        BY <2>1, <2>2
<1>7. \A i \in 1 .. 3 : tlv[i] \in Nat /\ tlv[i] < big + 6 /\ tlv[i] >= c[i]
    <2>1. \A i \in 1 .. 3 : tlv[i] = TlvSize(c[i])
        BY DEF c
    <2> HIDE DEF tlv
    <2>2. ASSUME NEW i \in 1 .. 3
          PROVE  tlv[i] \in Nat /\ tlv[i] < big + 6 /\ tlv[i] >= c[i]
        <3>1. c[i] \in Nat /\ c[i] < big /\ c[i] < huge
            BY <1>2, <1>5
        <3> QED
            BY <1>2, <1>6, <2>1, <3>1
    <2> QED
        BY <2>2
<1>8. BodySize(cert) = Total(tlv)
    BY DEF BodySize
<1>9. tlv \in Seq(Nat) /\ Len(tlv) = 3
    <2>1. tlv \in [1 .. 3 -> Nat]
        BY <1>7
    <2> HIDE DEF tlv
    <2> QED
        BY <2>1, ListOf
<1> HIDE DEF tlv
<1>10. Total(tlv) = tlv[1] + tlv[2] + tlv[3]
    <2>1. Len(tlv) <= 3
        BY <1>9
    <2>2. Total(tlv) = (IF Len(tlv) >= 1 THEN tlv[1] ELSE 0)
                          + (IF Len(tlv) >= 2 THEN tlv[2] ELSE 0)
                          + (IF Len(tlv) = 3 THEN tlv[3] ELSE 0)
        BY ONLY <1>9, <2>1, TotalOfThree
    <2> QED
        BY ONLY <1>9, <2>2
<1>11. /\ BodySize(cert) \in Nat /\ BodySize(cert) < huge
       /\ BodySize(cert) >= c[1] + c[3]
    <2>1. /\ tlv[1] \in Nat /\ tlv[2] \in Nat /\ tlv[3] \in Nat
          /\ tlv[1] < big + 6 /\ tlv[2] < big + 6 /\ tlv[3] < big + 6
          /\ tlv[1] >= c[1] /\ tlv[3] >= c[3] /\ c[1] \in Nat /\ c[3] \in Nat
        BY <1>5, <1>7
    <2> QED
        BY <1>2, <1>8, <1>10, <2>1
<1>12. /\ TotalSize(cert) \in Nat /\ TotalSize(cert) >= BodySize(cert)
    BY <1>6, <1>11 DEF TotalSize
<1>14. TotalSize(cert) >= cert.spki + cert.sig
    <2>1. cert.spki <= cert.tbs
        BY DEF Certificates
    <2> QED
        BY <1>1, <1>2, <1>3, <1>11, <1>12, <2>1
<1>13. SignatureOf(Walk(cert)) = cert.sig
    <2>1. c[3] < huge /\ c[3] \in Nat
        BY <1>2, <1>5
    <2>2. Walk(cert)[3] = ReadLen(DerLen(c[3])).length
        BY DEF Walk, c
    <2>3. Walk(cert)[3] = cert.sig + 1
        BY <1>3, <1>4, <2>1, <2>2
    <2> QED
        BY <1>1, <1>2, <2>3 DEF SignatureOf
<1> QED
    BY <1>1, <1>2, <1>12, <1>13, <1>14

\* What sizes.py reports of it: its key and its signature as they are, and the
\* parts add up.
LEMMA MeasureFacts ==
    ASSUME NEW cert \in Certificates
    PROVE  LET m == Measure(cert)
           IN /\ m.total = TotalSize(cert) /\ m.spki = cert.spki
              /\ m.signature = cert.sig
              /\ m.total = m.spki + m.signature + m.other
              /\ m \in Sized
<1>1. Measure(cert) = [total |-> TotalSize(cert), spki |-> cert.spki,
                       signature |-> cert.sig,
                       other |-> TotalSize(cert) - cert.spki - cert.sig]
    BY CertificateFacts DEF Measure
<1>2. /\ cert.spki \in Nat /\ cert.sig \in Nat /\ TotalSize(cert) \in Nat
      /\ TotalSize(cert) - cert.spki - cert.sig \in Nat
    BY CertificateFacts
<1> QED
    BY <1>1, <1>2 DEF Sized

-----------------------------------------------------------------------------
(* The bytes of a handshake. *)

\* A sum of which one element is not zero.
LEMMA TotalOfOne ==
    ASSUME NEW s \in Seq(Nat), NEW j \in 1 .. Len(s),
           \A i \in 1 .. Len(s) : i # j => s[i] = 0
    PROVE  Total(s) = s[j]
<1>1. PICK u \in [0 .. Len(s) -> Nat] :
          /\ u[0] = 0
          /\ \A i \in 1 .. Len(s) : u[i] = u[i - 1] + s[i]
          /\ Total(s) = u[Len(s)]
    BY TotalFacts
<1>2. Len(s) \in Nat /\ s[j] \in Nat
    OBVIOUS
<1> DEFINE part(i) == IF i >= j THEN s[j] ELSE 0
           Bad == {i \in 0 .. Len(s) : u[i] # part(i)}
<1>3. ASSUME Bad # {} PROVE FALSE
    <2>1. PICK n \in Bad : \A m \in Bad : n <= m
        <3>1. Bad \in SUBSET Nat
            BY <1>2
        <3> HIDE DEF Bad
        <3> QED
            BY <1>3, <3>1, LeastNatural
    <2>2. n \in 0 .. Len(s) /\ u[n] # part(n)
        OBVIOUS
    <2>3. n # 0
        BY <1>1, <2>2
    <2>4. n \in 1 .. Len(s) /\ n - 1 \in 0 .. Len(s) /\ ~(n <= n - 1)
        BY <1>2, <2>2, <2>3
    <2>5. n - 1 \notin Bad
        BY ONLY <2>1, <2>4
    <2>6. u[n - 1] = part(n - 1)
        BY <2>4, <2>5
    <2>7. u[n] = u[n - 1] + s[n]
        BY <1>1, <2>4
    <2>8. CASE n = j
        BY <1>2, <2>2, <2>4, <2>6, <2>7, <2>8
    <2>9. CASE n # j
        <3>1. s[n] = 0
            BY <2>4, <2>9
        <3> QED
            BY <1>2, <2>2, <2>4, <2>6, <2>7, <2>9, <3>1
    <2> QED
        BY <2>8, <2>9
<1>4. u[Len(s)] = part(Len(s))
    BY <1>2, <1>3
<1> QED
    BY <1>1, <1>2, <1>4

\* Six, of which the last is not counted.
LEMMA TotalOfFive ==
    ASSUME NEW s \in Seq(Nat), Len(s) = 6, s[6] = 0
    PROVE  Total(s) = s[1] + s[2] + s[3] + s[4] + s[5]
<1>1. PICK u \in [0 .. Len(s) -> Nat] :
          /\ u[0] = 0
          /\ \A i \in 1 .. Len(s) : u[i] = u[i - 1] + s[i]
          /\ Total(s) = u[Len(s)]
    BY TotalFacts
<1>2. \A r \in Seq(Nat) : \A i \in 1 .. Len(r) : r[i] \in Nat
    OBVIOUS
<1>3. \A i \in 1 .. 6 : s[i] \in Nat /\ u[i] = u[i - 1] + s[i]
    BY <1>1, <1>2
<1>4. /\ u[1] = u[0] + s[1] /\ u[2] = u[1] + s[2] /\ u[3] = u[2] + s[3]
      /\ u[4] = u[3] + s[4] /\ u[5] = u[4] + s[5] /\ u[6] = u[5] + s[6]
    <2>1. /\ 1 - 1 = 0 /\ 2 - 1 = 1 /\ 3 - 1 = 2 /\ 4 - 1 = 3 /\ 5 - 1 = 4
          /\ 6 - 1 = 5
        OBVIOUS
    <2>2. \A i \in 1 .. 6 : u[i] = u[i - 1] + s[i]
        BY <1>3
    <2> QED
        BY ONLY <2>1, <2>2
<1>5. /\ s[1] \in Nat /\ s[2] \in Nat /\ s[3] \in Nat /\ s[4] \in Nat
      /\ s[5] \in Nat
    BY <1>3
<1> QED
    BY <1>1, <1>4, <1>5

\* A chain TLS can carry.
CertificateFit(chain) == chain.leaf \in Certificates /\ chain.int \in Certificates

\* The messages of a handshake: each has a length, only tickets have a name twice.
IsHandshake(h, chain, cv, ticket) ==
    /\ Len(h) = 7 /\ DOMAIN h = 1 .. 7
    /\ h[1] = <<"ServerHello", ServerHello>>
    /\ h[2] = <<"EncryptedExtensions", EncryptedExtensions>>
    /\ h[3] = <<"Certificate", CertificateSize(chain)>>
    /\ h[4] = <<"CertificateVerify", cv>>
    /\ h[5] = <<"Finished", Finished>>
    /\ h[6] = <<"NewSessionTicket", ticket>>
    /\ h[7] = <<"NewSessionTicket", ticket>>
    /\ \A i \in 1 .. 7 : h[i][2] \in Nat
    /\ \A i, j \in 1 .. 7 :
           h[i][1] = h[j][1] => i = j \/ h[i][1] = "NewSessionTicket"
    /\ CertificateSize(chain) \in Nat

\* Those of the servers' are such.
LEMMA HandshakeFacts ==
    ASSUME NEW chain, CertificateFit(chain), NEW cv \in Nat, NEW ticket \in Nat,
           NEW h, h = Handshake(chain, cv, ticket)
    PROVE  IsHandshake(h, chain, cv, ticket)
<1>1. CertificateSize(chain) \in Nat
    BY CertificateFacts DEF CertificateSize, CertificateFit
<1>2. Len(h) = 7 /\ DOMAIN h = 1 .. 7
    BY DEF Handshake
<1>3. /\ h[1] = <<"ServerHello", ServerHello>>
      /\ h[2] = <<"EncryptedExtensions", EncryptedExtensions>>
      /\ h[3] = <<"Certificate", CertificateSize(chain)>>
      /\ h[4] = <<"CertificateVerify", cv>>
      /\ h[5] = <<"Finished", Finished>>
      /\ h[6] = <<"NewSessionTicket", ticket>>
      /\ h[7] = <<"NewSessionTicket", ticket>>
    BY DEF Handshake
<1>4. ServerHello \in Nat /\ EncryptedExtensions \in Nat /\ Finished \in Nat
    BY DEF ServerHello, EncryptedExtensions, Finished
<1>5. \A i \in 1 .. 7 : i = 1 \/ i = 2 \/ i = 3 \/ i = 4 \/ i = 5 \/ i = 6 \/ i = 7
    OBVIOUS
<1>6. \A i \in 1 .. 7 : h[i][2] \in Nat
    BY <1>1, <1>3, <1>4, <1>5
<1>7. \A i, j \in 1 .. 7 :
          h[i][1] = h[j][1] => i = j \/ h[i][1] = "NewSessionTicket"
    BY <1>3, <1>5
<1> QED
    BY <1>1, <1>2, <1>3, <1>6, <1>7 DEF IsHandshake

\* What is found in a capture is the beginning of it, and was captured.
LEMMA SeenFacts ==
    ASSUME NEW chain, NEW cv, NEW ticket, NEW view \in Views,
           NEW h, h = Handshake(chain, cv, ticket)
    PROVE  /\ \E n \in {0, 1, 4, 7} :
                  (n = 7 => view = "all") /\ Seen(h, view) = [i \in 1 .. n |-> h[i]]
           /\ \E n \in {0, 4, 7}, k \in {0, 3} :
                  n + k <= 7 /\ Captured(h, view) = [i \in 1 .. n |-> h[i + k]]
           /\ \A i \in DOMAIN Seen(h, view) :
                  i \in DOMAIN Captured(h, view) /\ Captured(h, view)[i] = Seen(h, view)[i]
<1>1. Len(h) = 7 /\ h = [i \in 1 .. 7 |-> h[i]]
    BY DEF Handshake
<1>2. /\ SubSeq(h, 1, 4) = [i \in 1 .. 4 |-> h[i]]
      /\ SubSeq(h, 1, 4) = [i \in 1 .. 4 |-> h[i + 0]]
      /\ SubSeq(h, 4, 7) = [i \in 1 .. 4 |-> h[i + 3]]
      /\ SubSeq(h, 1, 1) = [i \in 1 .. 1 |-> h[i]]
    OBVIOUS
<1>3. h = [i \in 1 .. 7 |-> h[i + 0]]
    BY <1>1
<1>4. <<>> = [i \in 1 .. 0 |-> h[i + 0]] /\ <<>> = [i \in 1 .. 0 |-> h[i]]
    OBVIOUS
<1>5. CASE view = "all"
    BY <1>1, <1>3, <1>5 DEF Seen, Captured
<1>6. CASE view = "head"
    BY <1>2, <1>6 DEF Seen, Captured
<1>7. CASE view = "late"
    BY <1>1, <1>2, <1>4, <1>7 DEF Seen, Captured
<1>8. CASE view = "nothing"
    BY <1>4, <1>8 DEF Seen, Captured
<1>9. CASE view = "undecrypted"
    <2>1. Seen(h, view) = [i \in 1 .. 1 |-> h[i]] /\ Captured(h, view) = h
        BY <1>2, <1>9 DEF Seen, Captured
    <2>2. \A i \in 1 .. 1 : i \in 1 .. 7
        OBVIOUS
    <2> QED
        BY <1>1, <1>3, <1>9, <2>1, <2>2
<1> QED
    BY <1>5, <1>6, <1>7, <1>8, <1>9 DEF Views

\* The greatest of a set that is bounded.
LEMMA MaxFacts ==
    ASSUME NEW T \in SUBSET Nat, T # {}, NEW B \in Nat, \A x \in T : x <= B
    PROVE  Max(T) \in T /\ \A y \in T : y <= Max(T)
<1> DEFINE D == {B - x : x \in T}
<1>1. D \in SUBSET Nat /\ D # {}
    <2>1. \A x \in T : B - x \in Nat
        OBVIOUS
    <2> QED
        BY <2>1
<1>2. PICK d \in D : \A e \in D : d <= e
    <2> HIDE DEF D
    <2> QED
        BY <1>1, LeastNatural
<1>3. PICK x \in T : d = B - x
    BY <1>2
<1>4. \A y \in T : x >= y
    <2> SUFFICES ASSUME NEW y \in T PROVE x >= y
        OBVIOUS
    <2>1. B - y \in D
        OBVIOUS
    <2>2. B - x <= B - y
        BY <1>2, <1>3, <2>1
    <2>3. x \in Nat /\ y \in Nat
        OBVIOUS
    <2> QED
        BY <2>2, <2>3
<1>5. Max(T) \in T /\ \A y \in T : Max(T) >= y
    BY <1>4 DEF Max
<1> QED
    BY <1>5

\* The record of a message: at most one full one, and no shorter than a message
\* that fits one.
LEMMA RecordFacts ==
    ASSUME NEW m, m[2] \in Nat, m[1] = "ServerHello" => m[2] = ServerHello
    PROVE  /\ RecordOf(m) \in Nat /\ RecordOf(m) <= 16401
           /\ (m[1] # "ServerHello" /\ RecordOf(m) <= 16384) => m[2] + 4 <= 16384
<1> DEFINE T == {m[2] + 4, 16384}
<1>1. CASE m[1] = "ServerHello"
    BY <1>1 DEF RecordOf, ServerHello
<1>2. CASE m[1] # "ServerHello"
    <2>1. RecordOf(m) = Min(T) + 17
        BY <1>2 DEF RecordOf
    <2>2. \E x \in T : \A y \in T : x <= y
        OBVIOUS
    <2>3. Min(T) \in T /\ \A y \in T : Min(T) <= y
        <3> HIDE DEF T
        <3> QED
            BY <2>2, MinFacts
    <2>4. /\ Min(T) \in Nat
          /\ Min(T) = m[2] + 4 \/ Min(T) = 16384
          /\ Min(T) <= m[2] + 4 /\ Min(T) <= 16384
        BY <2>3
    <2>5. \A l, r \in Nat : (/\ r = l + 4 \/ r = 16384
                             /\ r <= l + 4 /\ r <= 16384)
              => /\ r + 17 \in Nat /\ r + 17 <= 16401
                 /\ r + 17 <= 16384 => l + 4 <= 16384
        OBVIOUS
    <2> HIDE DEF T
    <2> QED
        BY <1>2, <2>1, <2>4, <2>5
<1> QED
    BY <1>1, <1>2

\* A part of a handshake: no name but that of the tickets comes twice, and with
\* the first message and the last it is all of it.
IsStretch(msgs, chain, cv, ticket) ==
    /\ Len(msgs) \in Nat /\ DOMAIN msgs = 1 .. Len(msgs)
    /\ \A i \in DOMAIN msgs :
           /\ msgs[i][2] \in Nat
           /\ msgs[i][1] = "Certificate" => msgs[i][2] = CertificateSize(chain)
           /\ msgs[i][1] = "ServerHello" => msgs[i][2] = ServerHello
    /\ \A i, j \in DOMAIN msgs :
           msgs[i][1] = msgs[j][1] => i = j \/ msgs[i][1] = "NewSessionTicket"
    /\ \A i, j \in DOMAIN msgs :
           msgs[i][1] = "ServerHello" /\ msgs[j][1] = "Finished" =>
               msgs = Handshake(chain, cv, ticket)

\* So is what was captured of it, as far as its records go.
IsCapture(captured) ==
    /\ DOMAIN captured = 1 .. Len(captured) /\ Len(captured) \in Nat
    /\ \A i \in DOMAIN captured :
           /\ captured[i][2] \in Nat
           /\ captured[i][1] = "ServerHello" => captured[i][2] = ServerHello

\* What analyze() gets to see of a handshake.
LEMMA StretchFacts ==
    ASSUME NEW chain, CertificateFit(chain), NEW cv \in Nat, NEW ticket \in Nat,
           NEW view \in Views, NEW msgs, msgs = Seen(Handshake(chain, cv, ticket), view),
           NEW captured, captured = Captured(Handshake(chain, cv, ticket), view)
    PROVE  /\ IsStretch(msgs, chain, cv, ticket) /\ IsCapture(captured)
           /\ \A i \in DOMAIN msgs : i \in DOMAIN captured /\ captured[i] = msgs[i]
<1> DEFINE h == Handshake(chain, cv, ticket)
<1>0. h = Handshake(chain, cv, ticket) /\ msgs = Seen(h, view)
      /\ captured = Captured(h, view)
    OBVIOUS
<1> HIDE DEF h
<1>1. PICK n \in {0, 1, 4, 7} :
          (n = 7 => view = "all") /\ msgs = [i \in 1 .. n |-> h[i]]
    BY <1>0, SeenFacts
<1>2. /\ Len(h) = 7 /\ DOMAIN h = 1 .. 7
      /\ h[1] = <<"ServerHello", ServerHello>>
      /\ h[2] = <<"EncryptedExtensions", EncryptedExtensions>>
      /\ h[3] = <<"Certificate", CertificateSize(chain)>>
      /\ h[4] = <<"CertificateVerify", cv>>
      /\ h[5] = <<"Finished", Finished>>
      /\ h[6] = <<"NewSessionTicket", ticket>>
      /\ h[7] = <<"NewSessionTicket", ticket>>
      /\ \A i \in 1 .. 7 : h[i][2] \in Nat
      /\ \A i, j \in 1 .. 7 : h[i][1] = h[j][1] => i = j \/ h[i][1] = "NewSessionTicket"
    <2>1. IsHandshake(h, chain, cv, ticket)
        BY <1>0, HandshakeFacts
    <2> QED
        BY ONLY <2>1 DEF IsHandshake
<1>3. \A i \in 1 .. 7 : i = 1 \/ i = 2 \/ i = 3 \/ i = 4 \/ i = 5 \/ i = 6 \/ i = 7
    OBVIOUS
<1>4. view = "all" => msgs = h
    BY <1>0 DEF Seen, Captured
<1>5. n \in Nat /\ \A i \in 1 .. n : i \in 1 .. 7 /\ msgs[i] = h[i]
    BY <1>1
<1>6. Len(msgs) = n /\ DOMAIN msgs = 1 .. n
    BY <1>1, <1>5
<1>7. \A i \in 1 .. 7 :
          /\ h[i][1] = "Certificate" => h[i][2] = CertificateSize(chain)
          /\ h[i][1] = "ServerHello" => h[i][2] = ServerHello /\ i = 1
          /\ h[i][1] = "Finished" => i = 5
    BY <1>2, <1>3
<1>8. \A i \in 1 .. n : /\ msgs[i][2] \in Nat
                        /\ msgs[i][1] = "Certificate" =>
                               msgs[i][2] = CertificateSize(chain)
                        /\ msgs[i][1] = "ServerHello" => msgs[i][2] = ServerHello
    BY <1>2, <1>5, <1>7
<1>9. ASSUME NEW i \in 1 .. n, NEW j \in 1 .. n, msgs[i][1] = msgs[j][1],
             msgs[i][1] # "NewSessionTicket"
      PROVE  i = j
    BY <1>2, <1>5, <1>9
<1>10. ASSUME NEW i \in 1 .. n, NEW j \in 1 .. n, msgs[i][1] = "ServerHello",
              msgs[j][1] = "Finished"
       PROVE  msgs = h
    <2>1. j = 5
        BY <1>5, <1>7, <1>10
    <2>2. n = 7
        BY <1>1, <2>1
    <2> QED
        BY <1>1, <1>4, <2>2
<1>11. IsCapture(captured)
    <2>1. PICK m \in {0, 4, 7}, k \in {0, 3} :
              m + k <= 7 /\ captured = [i \in 1 .. m |-> h[i + k]]
        BY <1>0, SeenFacts
    <2>2. m \in Nat /\ Len(captured) = m /\ DOMAIN captured = 1 .. m
          /\ \A i \in 1 .. m : i + k \in 1 .. 7 /\ captured[i] = h[i + k]
        BY <2>1
    <2>3. \A i \in 1 .. m :
              /\ captured[i][2] \in Nat
              /\ captured[i][1] = "ServerHello" => captured[i][2] = ServerHello
        BY <1>2, <1>7, <2>2
    <2> QED
        BY <2>2, <2>3 DEF IsCapture
<1>12. \A i \in DOMAIN msgs : i \in DOMAIN captured /\ captured[i] = msgs[i]
    BY <1>0, SeenFacts
<1>13. IsStretch(msgs, chain, cv, ticket)
    BY <1>6, <1>8, <1>9, <1>10 DEF h, IsStretch
<1> QED
    BY <1>11, <1>12, <1>13

\* The bytes by name: a list of naturals, and of a message that was sent once
\* its length.
LEMMA BytesInFacts ==
    ASSUME NEW msgs, NEW n \in Nat, Len(msgs) = n, \A i \in 1 .. n : msgs[i][2] \in Nat,
           NEW name
    PROVE  /\ BytesIn(msgs, name) \in Nat
           /\ \A j \in 1 .. n :
                  (\A i \in 1 .. n : msgs[i][1] = name <=> i = j) =>
                      BytesIn(msgs, name) = msgs[j][2]
<1> DEFINE s == [i \in 1 .. Len(msgs) |-> IF msgs[i][1] = name THEN msgs[i][2] ELSE 0]
<1>1. BytesIn(msgs, name) = Total(s)
    BY DEF BytesIn
<1>2. \A i \in 1 .. n : s[i] = IF msgs[i][1] = name THEN msgs[i][2] ELSE 0
    OBVIOUS
<1>3. s \in [1 .. n -> Nat]
    OBVIOUS
<1> HIDE DEF s
<1>4. s \in Seq(Nat) /\ Len(s) = n
    BY <1>3, ListOf
<1>5. Total(s) \in Nat
    BY <1>4, TotalType
<1>6. ASSUME NEW j \in 1 .. n, \A i \in 1 .. n : msgs[i][1] = name <=> i = j
      PROVE  Total(s) = msgs[j][2]
    <2>1. j \in 1 .. Len(s) /\ \A i \in 1 .. Len(s) : i # j => s[i] = 0
        BY <1>2, <1>4, <1>6
    <2>2. Total(s) = s[j]
        BY <1>4, <2>1, TotalOfOne
    <2> QED
        BY <1>2, <1>6, <2>2
<1> QED
    BY <1>1, <1>5, <1>6

\* The sum over some of the names is a natural; over the five of a whole
\* handshake it is the sum of the five.
LEMMA SumOfFacts ==
    ASSUME NEW messages, NEW names, \A n \in names : messages[n] \in Nat
    PROVE  /\ SumOf(messages, names) \in Nat
           /\ ({"ServerHello", "EncryptedExtensions", "Certificate",
                "CertificateVerify", "Finished"} \subseteq names
               /\ "NewSessionTicket" \notin names) =>
                  SumOf(messages, names) =
                      messages["ServerHello"] + messages["EncryptedExtensions"]
                        + messages["Certificate"] + messages["CertificateVerify"]
                        + messages["Finished"]
<1> DEFINE s == [i \in 1 .. Len(HS_NAMES) |->
                    IF HS_NAMES[i] \in names THEN messages[HS_NAMES[i]] ELSE 0]
<1>1. SumOf(messages, names) = Total(s)
    BY DEF SumOf
<1>2. /\ Len(HS_NAMES) = 6 /\ HS_NAMES[1] = "ServerHello"
      /\ HS_NAMES[2] = "EncryptedExtensions" /\ HS_NAMES[3] = "Certificate"
      /\ HS_NAMES[4] = "CertificateVerify" /\ HS_NAMES[5] = "Finished"
      /\ HS_NAMES[6] = "NewSessionTicket"
    BY DEF HS_NAMES
<1>3. \A i \in 1 .. 6 :
          s[i] = IF HS_NAMES[i] \in names THEN messages[HS_NAMES[i]] ELSE 0
    BY <1>2
<1>4. s \in [1 .. 6 -> Nat]
    BY <1>2
<1> HIDE DEF s
<1>5. s \in Seq(Nat) /\ Len(s) = 6
    BY <1>4, ListOf
<1>6. Total(s) \in Nat
    BY <1>5, TotalType
<1>7. ASSUME {"ServerHello", "EncryptedExtensions", "Certificate",
              "CertificateVerify", "Finished"} \subseteq names,
             "NewSessionTicket" \notin names
      PROVE  Total(s) = messages["ServerHello"] + messages["EncryptedExtensions"]
                          + messages["Certificate"] + messages["CertificateVerify"]
                          + messages["Finished"]
    <2>1. /\ s[1] = messages["ServerHello"] /\ s[2] = messages["EncryptedExtensions"]
          /\ s[3] = messages["Certificate"] /\ s[4] = messages["CertificateVerify"]
          /\ s[5] = messages["Finished"] /\ s[6] = 0
        BY <1>2, <1>3, <1>7
    <2>2. Total(s) = s[1] + s[2] + s[3] + s[4] + s[5]
        BY <1>5, <2>1, TotalOfFive
    <2> QED
        BY <2>1, <2>2
<1> QED
    BY <1>1, <1>6, <1>7

\* What analyze() makes of a stretch of a handshake: the Certificate message is the
\* chain's, and fits a record if the longest of the records does; the flight of a
\* whole handshake is the five messages.
IsMeasured(d, chain) ==
    /\ \A n \in DOMAIN d.messages : d.messages[n] \in Nat
    /\ "Certificate" \in DOMAIN d.messages =>
           /\ d.messages["Certificate"] = CertificateSize(chain)
           /\ d.largest <= 16384 => d.messages["Certificate"] + 4 <= 16384
    /\ {"ServerHello", "Finished"} \subseteq DOMAIN d.messages =>
           d.flight = ServerHello + EncryptedExtensions + Finished
                          + CertificateSize(chain) + d.messages["CertificateVerify"]
    /\ d.flight \in Nat /\ d.largest \in Nat /\ d.largest <= 16401

\* It makes this of what a capture holds.
LEMMA AnalyzeFacts ==
    ASSUME NEW chain, CertificateFit(chain), NEW cv \in Nat, NEW ticket \in Nat,
           NEW view \in Views, NEW msgs, msgs = Seen(Handshake(chain, cv, ticket), view),
           NEW captured, captured = Captured(Handshake(chain, cv, ticket), view)
    PROVE  IsMeasured(Analyze(msgs, captured), chain)
<1> DEFINE m == Analyze(msgs, captured).messages
           names == DOMAIN m \ {"NewSessionTicket"}
           L == {0} \cup {RecordOf(captured[i]) : i \in DOMAIN captured}
<1>0. Analyze(msgs, captured).messages = m
    OBVIOUS
<1>1. /\ m = [n \in NamesIn(msgs) |-> BytesIn(msgs, n)]
      /\ Analyze(msgs, captured).flight = SumOf(m, names)
      /\ Analyze(msgs, captured).largest = Max(L)
    BY DEF Analyze, Flight
<1> HIDE DEF m
<1>2. /\ Len(msgs) \in Nat /\ DOMAIN msgs = 1 .. Len(msgs)
      /\ \A i \in DOMAIN msgs :
             /\ msgs[i][2] \in Nat
             /\ msgs[i][1] = "Certificate" => msgs[i][2] = CertificateSize(chain)
             /\ msgs[i][1] = "ServerHello" => msgs[i][2] = ServerHello
      /\ \A i, j \in DOMAIN msgs :
             msgs[i][1] = msgs[j][1] => i = j \/ msgs[i][1] = "NewSessionTicket"
      /\ \A i, j \in DOMAIN msgs :
             msgs[i][1] = "ServerHello" /\ msgs[j][1] = "Finished" =>
                 msgs = Handshake(chain, cv, ticket)
    <2>1. /\ CertificateFit(chain) /\ cv \in Nat /\ ticket \in Nat /\ view \in Views
          /\ msgs = Seen(Handshake(chain, cv, ticket), view)
          /\ captured = Captured(Handshake(chain, cv, ticket), view)
        OBVIOUS
    <2>2. IsStretch(msgs, chain, cv, ticket)
        BY ONLY <2>1, StretchFacts
    <2> QED
        BY ONLY <2>2 DEF IsStretch
<1>11. /\ \A i \in DOMAIN captured :
              /\ captured[i][2] \in Nat
              /\ captured[i][1] = "ServerHello" => captured[i][2] = ServerHello
       /\ \A i \in DOMAIN msgs : i \in DOMAIN captured /\ captured[i] = msgs[i]
    <2>1. /\ CertificateFit(chain) /\ cv \in Nat /\ ticket \in Nat /\ view \in Views
          /\ msgs = Seen(Handshake(chain, cv, ticket), view)
          /\ captured = Captured(Handshake(chain, cv, ticket), view)
        OBVIOUS
    <2>2. /\ IsCapture(captured)
          /\ \A i \in DOMAIN msgs : i \in DOMAIN captured /\ captured[i] = msgs[i]
        BY ONLY <2>1, StretchFacts
    <2> QED
        BY ONLY <2>2 DEF IsCapture
<1>3. \A n : n \in DOMAIN m <=> \E i \in DOMAIN msgs : msgs[i][1] = n
    BY <1>1 DEF NamesIn
<1>4. \A n \in DOMAIN m : m[n] = BytesIn(msgs, n) /\ m[n] \in Nat
    <2>1. \A n : BytesIn(msgs, n) \in Nat
        BY <1>2, BytesInFacts
    <2> QED
        BY <1>1, <2>1
<1>5. ASSUME NEW j \in DOMAIN msgs, msgs[j][1] # "NewSessionTicket"
      PROVE  m[msgs[j][1]] = msgs[j][2]
    <2>1. \A i \in 1 .. Len(msgs) : msgs[i][1] = msgs[j][1] <=> i = j
        BY <1>2, <1>5
    <2>2. BytesIn(msgs, msgs[j][1]) = msgs[j][2]
        <3>1. /\ Len(msgs) \in Nat /\ j \in 1 .. Len(msgs)
              /\ \A i \in 1 .. Len(msgs) : msgs[i][2] \in Nat
            BY ONLY <1>2, j \in DOMAIN msgs
        <3> QED
            BY ONLY <2>1, <3>1, BytesInFacts
    <2>3. msgs[j][1] \in DOMAIN m
        BY ONLY <1>3, j \in DOMAIN msgs
    <2> QED
        BY ONLY <1>4, <2>2, <2>3
<1>6. \A i \in DOMAIN captured :
          /\ RecordOf(captured[i]) \in Nat /\ RecordOf(captured[i]) <= 16401
          /\ (captured[i][1] # "ServerHello" /\ RecordOf(captured[i]) <= 16384) =>
                 captured[i][2] + 4 <= 16384
    <2> SUFFICES ASSUME NEW i \in DOMAIN captured
                 PROVE  /\ RecordOf(captured[i]) \in Nat /\ RecordOf(captured[i]) <= 16401
                        /\ (captured[i][1] # "ServerHello" /\ RecordOf(captured[i]) <= 16384)
                               => captured[i][2] + 4 <= 16384
        OBVIOUS
    <2> DEFINE r == captured[i]
    <2>1. r[2] \in Nat /\ (r[1] = "ServerHello" => r[2] = ServerHello)
        BY <1>11
    <2> HIDE DEF r
    <2>2. /\ RecordOf(r) \in Nat /\ RecordOf(r) <= 16401
          /\ (r[1] # "ServerHello" /\ RecordOf(r) <= 16384) => r[2] + 4 <= 16384
        BY <2>1, RecordFacts
    <2> QED
        BY <2>2 DEF r
<1>7. Max(L) \in Nat /\ Max(L) <= 16401 /\ \A x \in L : x <= Max(L)
    <2>1. L \in SUBSET Nat /\ L # {} /\ \A x \in L : x <= 16401
        BY <1>6
    <2> HIDE DEF L
    <2>2. PICK B \in Nat : B = 16401
        OBVIOUS
    <2>3. \A x \in L : x <= B
        BY <2>1, <2>2
    <2>4. Max(L) \in L /\ \A x \in L : x <= Max(L)
        <3>1. L \in SUBSET Nat /\ L # {} /\ B \in Nat /\ \A x \in L : x <= B
            BY <2>1, <2>3
        <3> QED
            BY ONLY <3>1, MaxFacts, Zenon
    <2>5. Max(L) \in Nat /\ Max(L) <= B
        <3>1. \A x \in L : x \in Nat /\ x <= B
            BY <2>1, <2>3
        <3>2. \A x : x \in L => x \in Nat /\ x <= B
            BY ONLY <3>1, Zenon
        <3>3. Max(L) \in L
            BY <2>4
        <3> QED
            BY ONLY <3>2, <3>3, Zenon
    <2> QED
        BY <2>2, <2>4, <2>5
<1>8. ASSUME "Certificate" \in DOMAIN m
      PROVE  /\ m["Certificate"] = CertificateSize(chain)
             /\ Max(L) <= 16384 => m["Certificate"] + 4 <= 16384
    <2>1. PICK i \in DOMAIN msgs : msgs[i][1] = "Certificate"
        BY <1>3, <1>8
    <2>2. m["Certificate"] = msgs[i][2] /\ msgs[i][2] = CertificateSize(chain)
        BY <1>2, <1>5, <2>1
    <2>3. RecordOf(msgs[i]) \in L /\ i \in DOMAIN captured /\ captured[i] = msgs[i]
        <3>1. i \in DOMAIN captured /\ captured[i] = msgs[i]
            BY <1>11
        <3>2. RecordOf(captured[i]) \in L
            BY <3>1
        <3> QED
            BY ONLY <3>1, <3>2
    <2>4. \A x, y \in Nat : x <= y /\ y <= 16384 => x <= 16384
        OBVIOUS
    <2> HIDE DEF L
    <2>6. RecordOf(msgs[i]) \in Nat /\ Max(L) \in Nat /\ RecordOf(msgs[i]) <= Max(L)
        BY <1>6, <1>7, <2>3
    <2>5. Max(L) <= 16384 => RecordOf(msgs[i]) <= 16384
        BY ONLY <2>4, <2>6
    <2>7. RecordOf(msgs[i]) <= 16384 => msgs[i][2] + 4 <= 16384
        BY ONLY <1>6, <2>1, <2>3
    <2> QED
        BY ONLY <2>2, <2>5, <2>7
<1>9. ASSUME {"ServerHello", "Finished"} \subseteq DOMAIN m
      PROVE  SumOf(m, names) = ServerHello + EncryptedExtensions + Finished
                                 + CertificateSize(chain) + m["CertificateVerify"]
    <2>1. /\ CertificateFit(chain) /\ cv \in Nat /\ ticket \in Nat
          /\ msgs = Handshake(chain, cv, ticket)
        BY <1>2, <1>3, <1>9
    <2>2. /\ DOMAIN msgs = 1 .. 7
          /\ msgs[1] = <<"ServerHello", ServerHello>>
          /\ msgs[2] = <<"EncryptedExtensions", EncryptedExtensions>>
          /\ msgs[3] = <<"Certificate", CertificateSize(chain)>>
          /\ msgs[4] = <<"CertificateVerify", cv>>
          /\ msgs[5] = <<"Finished", Finished>>
          /\ CertificateSize(chain) \in Nat
        <3>1. IsHandshake(msgs, chain, cv, ticket)
            BY ONLY <2>1, HandshakeFacts
        <3> QED
            BY ONLY <3>1 DEF IsHandshake
    <2>3. /\ 1 \in DOMAIN msgs /\ 2 \in DOMAIN msgs /\ 3 \in DOMAIN msgs
          /\ 4 \in DOMAIN msgs /\ 5 \in DOMAIN msgs
        BY <2>2
    <2>4. /\ m["ServerHello"] = ServerHello
          /\ m["EncryptedExtensions"] = EncryptedExtensions
          /\ m["Certificate"] = CertificateSize(chain)
          /\ m["CertificateVerify"] = cv /\ m["Finished"] = Finished
        BY <1>5, <2>2, <2>3
    <2>5. {"ServerHello", "EncryptedExtensions", "Certificate",
           "CertificateVerify", "Finished"} \subseteq names
        BY <1>3, <2>2, <2>3
    <2>6. \A n \in names : m[n] \in Nat
        BY <1>4
    <2>7. SumOf(m, names) = m["ServerHello"] + m["EncryptedExtensions"]
                              + m["Certificate"] + m["CertificateVerify"]
                              + m["Finished"]
        <3>1. "NewSessionTicket" \notin names
            OBVIOUS
        <3> HIDE DEF names
        <3> QED
            BY <2>5, <2>6, <3>1, SumOfFacts
    <2>8. ServerHello \in Nat /\ EncryptedExtensions \in Nat /\ Finished \in Nat
        BY DEF ServerHello, EncryptedExtensions, Finished
    <2> QED
        BY <2>2, <2>4, <2>7, <2>8
<1>10. SumOf(m, names) \in Nat
    <2>1. \A n \in names : m[n] \in Nat
        BY <1>4
    <2> HIDE DEF names
    <2> QED
        BY <2>1, SumOfFacts
<1> HIDE DEF L, names
<1> QED
    <2>1. \A n \in DOMAIN Analyze(msgs, captured).messages : Analyze(msgs, captured).messages[n] \in Nat
        BY ONLY <1>0, <1>4
    <2>2. "Certificate" \in DOMAIN Analyze(msgs, captured).messages =>
              /\ Analyze(msgs, captured).messages["Certificate"] = CertificateSize(chain)
              /\ Analyze(msgs, captured).largest <= 16384 =>
                     Analyze(msgs, captured).messages["Certificate"] + 4 <= 16384
        BY ONLY <1>0, <1>1, <1>8
    <2>3. {"ServerHello", "Finished"} \subseteq DOMAIN Analyze(msgs, captured).messages =>
              Analyze(msgs, captured).flight =
                  ServerHello + EncryptedExtensions + Finished
                    + CertificateSize(chain)
                    + Analyze(msgs, captured).messages["CertificateVerify"]
        BY ONLY <1>0, <1>1, <1>9
    <2>4. /\ Analyze(msgs, captured).flight \in Nat
          /\ Analyze(msgs, captured).largest \in Nat /\ Analyze(msgs, captured).largest <= 16401
        BY ONLY <1>1, <1>7, <1>10
    <2> QED
        BY ONLY <2>1, <2>2, <2>3, <2>4 DEF IsMeasured

-----------------------------------------------------------------------------
(* Where the contents of the files come from. *)

\* One chain of what a minting can produce for every name.
Chosen(chains) == DOMAIN chains = Names /\ \A c \in Names : chains[c] \in Variants[c]

\* Rows of transport.json: of a failed capture, or of a stretch of a handshake
\* that served the chain.
IsRow(row, chain) ==
    \/ row = ErrorRow
    \/ \E cv, ticket \in Nat, view \in Views :
           row = RowOf(Handshake(chain, cv, ticket), view)
AreRows(rows, of) ==
    /\ Chosen(of) /\ DOMAIN rows \subseteq Names
    /\ \A c \in DOMAIN rows : IsRow(rows[c], of[c])

\* A chain of a minting is one TLS can carry.
LEMMA ChosenFits ==
    ASSUME NEW c \in Names, NEW v \in Variants[c]
    PROVE  CertificateFit(v) /\ v.leaf \in Certificates /\ v.int \in Certificates
BY PipelineAssumption DEF CertificateFit

\* So are the figures of a row.
LEMMA RowFacts ==
    ASSUME NEW rows, NEW of, AreRows(rows, of), NEW c \in Measured(rows)
    PROVE  IsMeasured(rows[c].data, of[c]) /\ c \in Names /\ c \in DOMAIN rows
<1>1. c \in DOMAIN rows /\ ~rows[c].error /\ c \in Names /\ of[c] \in Variants[c]
    BY DEF Measured, AreRows, Chosen
<1>2. CertificateFit(of[c])
    BY <1>1, ChosenFits
<1>3. rows[c] # ErrorRow
    BY <1>1 DEF ErrorRow
<1>4. PICK cv \in Nat, ticket \in Nat, view \in Views :
          rows[c] = RowOf(Handshake(of[c], cv, ticket), view)
    BY <1>1, <1>3 DEF AreRows, IsRow
<1> DEFINE msgs == Seen(Handshake(of[c], cv, ticket), view)
           captured == Captured(Handshake(of[c], cv, ticket), view)
<1>5. rows[c].data = Analyze(msgs, captured)
    BY <1>4 DEF RowOf
<1>6. /\ msgs = Seen(Handshake(of[c], cv, ticket), view)
      /\ captured = Captured(Handshake(of[c], cv, ticket), view)
    OBVIOUS
<1> HIDE DEF msgs, captured
<1>7. IsMeasured(Analyze(msgs, captured), of[c])
    BY ONLY <1>2, <1>6, cv \in Nat, ticket \in Nat, view \in Views, AnalyzeFacts
<1> QED
    BY <1>1, <1>5, <1>7

-----------------------------------------------------------------------------
(* TRANSPORT.md. *)

\* Ten segments carry 14,600 bytes on Ethernet and 13,600 in a tunnel.
LEMMA SegmentsFacts ==
    ASSUME NEW f \in Nat
    PROVE  /\ Segments(f, 1460) <= IW <=> f <= 14600
           /\ Segments(f, 1360) <= IW <=> f <= 13600
           /\ Segments(f, 1460) \in Nat /\ Segments(f, 1360) \in Nat
BY SMT DEF Segments, IW

\* So the column of the table.
LEMMA FitsFacts ==
    ASSUME NEW f \in Nat
    PROVE  Fits(f) = CASE f <= 13600 -> "yes"
                       [] f > 14600  -> "no"
                       [] OTHER      -> "borderline"
<1>1. /\ Segments(f, 1460) <= IW <=> f <= 14600
      /\ Segments(f, 1360) <= IW <=> f <= 13600
      /\ Segments(f, 1460) > IW <=> f > 14600
      /\ Segments(f, 1360) > IW <=> f > 13600
    BY SegmentsFacts DEF IW
<1>2. /\ (\A v \in MSS : Segments(f, v) <= IW) <=> f <= 13600
      /\ (\A v \in MSS : Segments(f, v) > IW) <=> f > 14600
    BY <1>1 DEF MSS
<1>3. CASE f <= 13600
    BY <1>2, <1>3 DEF Fits
<1>4. CASE f > 14600
    BY <1>2, <1>4 DEF Fits
<1>5. CASE ~(f <= 13600) /\ ~(f > 14600)
    BY <1>2, <1>5 DEF Fits
<1> QED
    BY <1>3, <1>4, <1>5

\* A sweep's chains are finitely many, and of those that fit one is the last of
\* the heaviest.
LEMMA HeaviestFacts ==
    ASSUME NEW rows, NEW of, AreRows(rows, of), Fitting(rows) # {}
    PROVE  /\ Heaviest(rows) \in Fitting(rows)
           /\ \A d \in Fitting(rows) :
                  FlightOf(rows, d) <= FlightOf(rows, Heaviest(rows))
<1> DEFINE Fit == Fitting(rows)
           flight(c) == FlightOf(rows, c)
           F == {flight(c) : c \in Fit}
<1>1. \A c \in Fit : /\ c \in Measured(rows) /\ c \in Names
                     /\ flight(c) \in Nat /\ flight(c) <= 14600
    <2> SUFFICES ASSUME NEW c \in Fit
                 PROVE  /\ c \in Measured(rows) /\ c \in Names
                        /\ flight(c) \in Nat /\ flight(c) <= 14600
        OBVIOUS
    <2>1. c \in Measured(rows) /\ Segments(flight(c), 1460) <= IW
        BY DEF Fitting
    <2>2. IsMeasured(rows[c].data, of[c]) /\ c \in Names
        BY <2>1, RowFacts
    <2>3. flight(c) \in Nat
        BY <2>2 DEF IsMeasured, FlightOf
    <2> HIDE DEF flight, Fit
    <2> QED
        BY <2>1, <2>2, <2>3, SegmentsFacts
<1>2. \A c \in Names : PlaceOf(c) \in 1 .. Len(CHAINS)
    <2>1. DOMAIN CHAINS = 1 .. Len(CHAINS) /\ Names = {CHAINS[i] : i \in DOMAIN CHAINS}
        BY PipelineAssumption DEF Names, ToSet
    <2>2. ASSUME NEW c \in Names PROVE PlaceOf(c) \in DOMAIN CHAINS
        <3>1. \E i \in DOMAIN CHAINS : CHAINS[i] = c
            BY <2>1
        <3> QED
            BY <3>1 DEF PlaceOf
    <2> QED
        BY <2>1, <2>2
<1>3. Len(CHAINS) \in Nat
    BY PipelineAssumption
<1>4. Max(F) \in F /\ \A x \in F : x <= Max(F)
    <2>1. PICK B \in Nat : B = 14600
        OBVIOUS
    <2>2. F \in SUBSET Nat /\ F # {} /\ \A x \in F : x <= B
        BY <1>1, <2>1
    <2> HIDE DEF F
    <2> QED
        BY ONLY <2>2, B \in Nat, MaxFacts
<1> DEFINE top == Max(F)
           G == {PlaceOf(c) : c \in {d \in Fit : flight(d) = top}}
<1>5. \A c \in Fit : flight(c) <= top
    <2> HIDE DEF top
    <2>1. \A c \in Fit : flight(c) \in F
        OBVIOUS
    <2>2. \A x \in F : x <= top
        BY <1>4 DEF top
    <2> HIDE DEF F, Fit, flight
    <2> QED
        BY <2>1, <2>2
<1>6. \E c \in Fit : flight(c) = top
    BY <1>4
<1> HIDE DEF top, F
<1>7. Max(G) \in G /\ \A x \in G : x <= Max(G)
    <2>1. G \in SUBSET Nat /\ G # {} /\ \A x \in G : x <= Len(CHAINS)
        BY <1>1, <1>2, <1>3, <1>6
    <2> HIDE DEF G
    <2> QED
        BY ONLY <2>1, <1>3, MaxFacts
<1>8. PICK c \in Fit : flight(c) = top /\ PlaceOf(c) = Max(G)
    BY <1>7
<1>9. ASSUME NEW d \in Fit PROVE Before(rows, d, c)
    <2>1. CASE flight(d) = top
        <3>1. PlaceOf(d) \in G
            BY <2>1
        <3>2. PlaceOf(d) <= PlaceOf(c)
            BY <1>7, <1>8, <3>1
        <3> QED
            BY <1>8, <2>1, <3>2 DEF Before
    <2>2. CASE flight(d) # top
        <3>1. flight(d) \in Nat /\ flight(c) \in Nat /\ flight(d) <= flight(c)
            BY <1>1, <1>5, <1>8
        <3>2. flight(d) < flight(c)
            BY <1>8, <2>2, <3>1
        <3> QED
            BY <3>2 DEF Before
    <2> QED
        BY <2>1, <2>2
<1>10. /\ Heaviest(rows) \in Fit /\ \A d \in Fit : Before(rows, d, Heaviest(rows))
    BY <1>9 DEF Heaviest
<1>11. ASSUME NEW d \in Fit PROVE flight(d) <= flight(Heaviest(rows))
    <2>1. flight(d) \in Nat /\ flight(Heaviest(rows)) \in Nat
        BY <1>1, <1>10
    <2>2. flight(d) < flight(Heaviest(rows)) \/ flight(d) = flight(Heaviest(rows))
        BY <1>10 DEF Before
    <2> HIDE DEF flight
    <2> QED
        BY <2>1, <2>2
<1> QED
    BY <1>10, <1>11

\* What TRANSPORT.md says is right.
TableIsRight(r) ==
    /\ r.heaviest \in DOMAIN r.fits
    /\ \A c \in DOMAIN r.fits :
           r.fits[c] = CASE r.flight[c] <= 13600 -> "yes"
                         [] r.flight[c] > 14600  -> "no"
                         [] OTHER                -> "borderline"
    /\ r.flight[r.heaviest] <= 14600
    /\ \A c \in DOMAIN r.flight :
           r.flight[c] <= r.flight[r.heaviest] \/ r.flight[c] > 14600
    /\ r.headroom >= 0 =>
           \A c \in DOMAIN r.certificate : r.certificate[c] + 4 <= 16384

\* It is, of all rows for which report.py writes it.
LEMMA TableFacts ==
    ASSUME NEW rows, NEW of, AreRows(rows, of), Fitting(rows) # {}
    PROVE  TableIsRight(Table(rows))
<1> DEFINE r == Table(rows)
           M == Measured(rows)
           top == Heaviest(rows)
           certs == {d \in M : Has(rows, d, "Certificate")}
           L == {rows[c].data.largest : c \in M}
<1>1. /\ r.heaviest = top /\ r.headroom = RECORD_LIMIT - Biggest(rows)
      /\ DOMAIN r.fits = M /\ DOMAIN r.flight = M /\ DOMAIN r.certificate = certs
      /\ \A c \in M : r.fits[c] = Fits(FlightOf(rows, c))
      /\ \A c \in M : r.flight[c] = FlightOf(rows, c)
      /\ \A c \in certs : r.certificate[c] = MessageOf(rows, c, "Certificate")
    BY DEF Table
<1>2. /\ top \in Fitting(rows)
      /\ \A d \in Fitting(rows) : FlightOf(rows, d) <= FlightOf(rows, top)
    BY HeaviestFacts
<1>3. \A c : c \in Fitting(rows) <=> c \in M /\ Segments(FlightOf(rows, c), 1460) <= IW
    BY DEF Fitting
<1>4. \A c \in M : IsMeasured(rows[c].data, of[c])
    BY RowFacts
<1>5. \A c \in M : FlightOf(rows, c) \in Nat
    BY <1>4 DEF IsMeasured, FlightOf
<1>6. \A c \in M : c \in Fitting(rows) <=> FlightOf(rows, c) <= 14600
    BY <1>3, <1>5, SegmentsFacts
<1> HIDE DEF r, M, top
<1>7. r.heaviest \in DOMAIN r.fits /\ r.flight[r.heaviest] <= 14600
    BY <1>1, <1>2, <1>3, <1>6
<1>8. ASSUME NEW c \in DOMAIN r.fits
      PROVE  r.fits[c] = CASE r.flight[c] <= 13600 -> "yes"
                           [] r.flight[c] > 14600  -> "no"
                           [] OTHER                -> "borderline"
    <2> DEFINE f == FlightOf(rows, c)
    <2>1. c \in M /\ f \in Nat /\ r.fits[c] = Fits(f) /\ r.flight[c] = f
        BY <1>1, <1>5
    <2> HIDE DEF f
    <2>2. Fits(f) = CASE f <= 13600 -> "yes"
                      [] f > 14600  -> "no"
                      [] OTHER      -> "borderline"
        BY <2>1, FitsFacts
    <2> QED
        BY <2>1, <2>2
<1>9. ASSUME NEW c \in DOMAIN r.flight, ~(r.flight[c] > 14600)
      PROVE  r.flight[c] <= r.flight[r.heaviest]
    <2>1. c \in M /\ r.flight[c] = FlightOf(rows, c) /\ FlightOf(rows, c) \in Nat
        BY <1>1, <1>5
    <2>2. c \in Fitting(rows)
        BY <1>6, <1>9, <2>1
    <2> QED
        BY <1>1, <1>2, <1>3, <2>1, <2>2
<1>10. ASSUME r.headroom >= 0, NEW c \in DOMAIN r.certificate
       PROVE  r.certificate[c] + 4 <= 16384
    <2>1. c \in M /\ Has(rows, c, "Certificate")
          /\ r.certificate[c] = MessageOf(rows, c, "Certificate")
        BY <1>1
    <2> DEFINE d == rows[c].data
    <2>2. /\ "Certificate" \in DOMAIN d.messages
          /\ r.certificate[c] = d.messages["Certificate"]
        BY <2>1 DEF Has, MessageOf
    <2>3. d.largest <= 16384 => d.messages["Certificate"] + 4 <= 16384
        BY <1>4, <2>1, <2>2 DEF IsMeasured
    <2>4. \A x \in M : rows[x].data.largest \in Nat /\ rows[x].data.largest <= 16401
        BY <1>4 DEF IsMeasured
    <2>5. Max(L) \in L /\ \A x \in L : x <= Max(L)
        <3>1. PICK B \in Nat : B = 16401
            OBVIOUS
        <3>2. L \in SUBSET Nat /\ L # {} /\ \A x \in L : x <= B
            BY <2>1, <2>4, <3>1
        <3> HIDE DEF L
        <3> QED
            BY ONLY <3>2, B \in Nat, MaxFacts
    <2>6. Biggest(rows) = Max(L)
        BY DEF Biggest, M
    <2>7. d.largest \in Nat /\ d.largest <= Max(L) /\ Max(L) \in Nat
        BY <2>1, <2>4, <2>5
    <2>8. Max(L) <= 16384
        <3> HIDE DEF L
        <3> QED
            BY <1>1, <1>10, <2>6, <2>7 DEF RECORD_LIMIT
    <2> HIDE DEF d, L
    <2>9. d.largest <= 16384
        BY <2>7, <2>8
    <2> QED
        BY <2>2, <2>3, <2>9
<1> QED
    BY <1>7, <1>8, <1>9, <1>10 DEF TableIsRight, r

-----------------------------------------------------------------------------
(* calculator-data.json. *)

\* Its formula gives back the flights of the chains it prices.
IsPriced(d) ==
    /\ Priced \subseteq DOMAIN d.chains
    /\ \A c \in Priced \cap DOMAIN DER :
           d.chains[c].flight = d.fixed + 4 + 2 * 5 + DER[c] + d.algorithms[c].cv

\* What a function makes of finitely many values is finitely many.
LEMMA ImageIsFinite ==
    ASSUME NEW S, IsFiniteSet(S), NEW f, DOMAIN f = S
    PROVE  IsFiniteSet({f[x] : x \in S})
<1> DEFINE T == {f[x] : x \in S}
           g == [x \in S |-> f[x]]
<1>1. g \in Surjection(S, T)
    BY DEF Surjection
<1> HIDE DEF T, g
<1>2. IsFiniteSet(T)
    BY <1>1, FS_Surjection
<1> QED
    BY <1>2 DEF T

\* Whenever the program reaches its print(), for what is then on disk.
LEMMA OutputFacts ==
    ASSUME Computes, AreRows(transport.data, transport.of)
    PROVE  /\ IsPriced(Output)
           /\ DOMAIN Output.chains = DOMAIN transport.data
<1> DEFINE rows == Restrict(transport.data, Tmap(transport.data))
           fixed == CHOOSE n \in FixedSizes(rows) : TRUE
           Fl(c) == FlightOf(rows, c)
           Ce(c) == MessageOf(rows, c, "Certificate")
           Cv(c) == MessageOf(rows, c, "CertificateVerify")
<1>1. /\ DOMAIN rows = DOMAIN transport.data
      /\ \A c \in DOMAIN rows : rows[c] = transport.data[c]
    BY DEF Restrict, Tmap
<1>2. AreRows(rows, transport.of)
    BY <1>1 DEF AreRows
<1>3. /\ Priced \subseteq DOMAIN rows
      /\ \A c \in DOMAIN rows : /\ Has(rows, c, "Certificate")
                                /\ Has(rows, c, "CertificateVerify")
      /\ FramingIs14(rows) /\ Cardinality(FixedSizes(rows)) = 1
    BY DEF Computes
<1>4. /\ DOMAIN Output.chains = DOMAIN rows /\ Output.fixed = fixed
      /\ \A c \in DOMAIN rows : Output.chains[c].flight = Fl(c)
      /\ \A c \in Priced : Output.algorithms[c].cv = Cv(c)
    BY DEF Output
<1> HIDE DEF rows
<1>5. \A c \in DOMAIN rows : Fl(c) \in Nat /\ Ce(c) \in Nat /\ Cv(c) \in Nat
    <2> SUFFICES ASSUME NEW c \in DOMAIN rows
                 PROVE  Fl(c) \in Nat /\ Ce(c) \in Nat /\ Cv(c) \in Nat
        OBVIOUS
    <2>1. /\ c \in Measured(rows)
          /\ "Certificate" \in DOMAIN rows[c].data.messages
          /\ "CertificateVerify" \in DOMAIN rows[c].data.messages
        BY <1>3 DEF Has
    <2>2. IsMeasured(rows[c].data, transport.of[c])
        BY <1>2, <2>1, RowFacts
    <2> QED
        BY <2>1, <2>2 DEF IsMeasured, FlightOf, MessageOf
<1>6. FixedSizes(rows) = {Fl(c) - Ce(c) - Cv(c) : c \in DOMAIN rows}
    BY DEF FixedSizes
<1>7. IsFiniteSet(FixedSizes(rows))
    <2>1. Names = {CHAINS[i] : i \in 1 .. Len(CHAINS)} /\ Len(CHAINS) \in Nat
        <3>1. CHAINS \in Seq(Names)
            BY PipelineAssumption
        <3>2. DOMAIN CHAINS = 1 .. Len(CHAINS) /\ Len(CHAINS) \in Nat
            BY <3>1
        <3> QED
            BY <3>2 DEF Names, ToSet
    <2>2. IsFiniteSet(Names)
        <3>1. DOMAIN CHAINS = 1 .. Len(CHAINS)
            BY PipelineAssumption
        <3>2. 1 \in Int /\ Len(CHAINS) \in Int
            BY <2>1
        <3>3. IsFiniteSet(1 .. Len(CHAINS))
            BY ONLY <3>2, FS_Interval
        <3> QED
            BY <2>1, <3>1, <3>3, ImageIsFinite
    <2>3. IsFiniteSet(DOMAIN rows)
        BY <1>2, <2>2, FS_Subset DEF AreRows
    <2> QED
        <3> DEFINE f == [c \in DOMAIN rows |-> Fl(c) - Ce(c) - Cv(c)]
        <3>1. DOMAIN f = DOMAIN rows /\ FixedSizes(rows) = {f[c] : c \in DOMAIN rows}
            BY <1>6
        <3> HIDE DEF f
        <3> QED
            BY <2>3, <3>1, ImageIsFinite
<1>8. PICK x : FixedSizes(rows) = {x}
    BY <1>3, <1>7, FS_Singleton
<1>9. fixed = x
    BY <1>8
<1>10. \A c \in DOMAIN rows : Fl(c) - Ce(c) - Cv(c) = fixed
    BY <1>6, <1>8, <1>9
<1> HIDE DEF fixed
<1>11. ASSUME NEW c \in Priced \cap DOMAIN DER
       PROVE  Fl(c) = fixed + 4 + 2 * 5 + DER[c] + Cv(c)
    <2>1. c \in DOMAIN rows
        BY <1>3
    <2>2. Ce(c) - DER[c] = 14
        BY <1>3, <2>1 DEF FramingIs14
    <2>3. DER[c] \in Nat
        BY PipelineAssumption
    <2>4. Fl(c) - Ce(c) - Cv(c) = fixed
        BY <1>10, <2>1
    <2>5. Fl(c) \in Nat /\ Ce(c) \in Nat /\ Cv(c) \in Nat
        BY <1>5, <2>1
    <2> HIDE DEF Fl, Ce, Cv
    <2> QED
        BY <2>2, <2>3, <2>4, <2>5
<1> QED
    BY <1>1, <1>3, <1>4, <1>11 DEF IsPriced

-----------------------------------------------------------------------------
(* The inductive invariant: every file that is whole is what its program makes *)
(* of certificates that were minted, whichever.                                *)

CertificatesAre ==
    /\ Chosen(corpus)
    /\ DOMAIN bundles = Names
    /\ \A c \in Names :
           /\ bundles[c].served \in Variants[c]
           /\ bundles[c].pem.whole => bundles[c].pem.data \in Variants[c]

SizesAre ==
    /\ sizes.whole => Chosen(sizes.of) /\ sizes.data = SizesOf(sizes.of)
    /\ sizesTable.whole =>
           Chosen(sizesTable.of) /\ sizesTable.data = Tables(SizesOf(sizesTable.of))

IsCompressed(data, of) ==
    /\ Chosen(of)
    /\ \A c \in Names : data.chains[c] = ChainRow(Lengths(of[c]))
    /\ \A c \in MlDsa : /\ data.fields[c].spki.raw = of[c].leaf.spki
                        /\ data.fields[c].signature.raw = of[c].leaf.sig
CompressionIs == compression.whole => IsCompressed(compression.data, compression.of)

TransportIs == transport.whole => AreRows(transport.data, transport.of)
ReportIs == report.whole => TableIsRight(report.data)
CalculatorIs == calculator.whole => IsPriced(calculator.data)

IInv ==
    /\ calls \in 0 .. MaxCalls
    /\ CertificatesAre
    /\ SizesAre /\ CompressionIs /\ TransportIs
    /\ ReportIs /\ CalculatorIs

\* The fields of a file.
LEMMA FileFacts ==
    /\ ~Torn.whole
    /\ \A data, of : /\ Whole(data, of).whole
                     /\ Whole(data, of).data = data /\ Whole(data, of).of = of
BY DEF Torn, Whole

\* A checkout.
LEMMA InitIInv == Init => IInv
<1> SUFFICES ASSUME Init PROVE IInv
    OBVIOUS
<1>1. Chosen(Committed)
    BY PipelineAssumption DEF Chosen
<1>2. calls \in 0 .. MaxCalls
    BY PipelineAssumption DEF Init
<1>3. CertificatesAre
    BY <1>1, FileFacts DEF Init, CertificatesAre, Chosen
<1>4. SizesAre
    BY <1>1, FileFacts DEF Init, SizesAre
<1>5. CompressionIs /\ TransportIs /\ ReportIs /\ CalculatorIs
    BY FileFacts DEF Init, CompressionIs, TransportIs, ReportIs, CalculatorIs
<1> QED
    BY <1>2, <1>3, <1>4, <1>5 DEF IInv

\* A call counts and no more than the bound.
LEMMA CallFacts ==
    ASSUME calls \in 0 .. MaxCalls, Call
    PROVE  calls' \in 0 .. MaxCalls
BY PipelineAssumption DEF Call

\* mint_chain, catalyst_build.py.
LEMMA MintKeeps ==
    ASSUME IInv, Mint
    PROVE  IInv'
<1> USE DEF IInv
<1>1. PICK c \in Names : \E v \in Variants[c] : corpus' = [corpus EXCEPT ![c] = v]
    BY DEF Mint
<1>6. PICK v \in Variants[c] : corpus' = [corpus EXCEPT ![c] = v]
    BY <1>1
<1>2. Chosen(corpus)'
    BY <1>6 DEF CertificatesAre, Chosen
<1>3. CertificatesAre'
    BY <1>2 DEF Mint, CertificatesAre
<1>4. calls' \in 0 .. MaxCalls
    BY CallFacts DEF Mint
<1>5. (SizesAre /\ CompressionIs /\ TransportIs /\ ReportIs /\ CalculatorIs)'
    BY DEF Mint, derived, SizesAre, CompressionIs, TransportIs, ReportIs, CalculatorIs
<1> QED
    BY <1>3, <1>4, <1>5

\* sizes.py, killed or not.
LEMMA SizesKeeps ==
    ASSUME IInv, Sizes
    PROVE  IInv'
<1> USE DEF IInv
<1> DEFINE rows == SizesOf(corpus)
<1>1. \/ sizes' = Torn /\ UNCHANGED sizesTable
      \/ /\ sizes' = Whole(rows, corpus)
         /\ sizesTable' \in {sizesTable, Torn, Whole(Tables(rows), corpus)}
    BY DEF Sizes
<1>2. Chosen(corpus) /\ corpus' = corpus
    BY DEF Sizes, CertificatesAre, certificates
<1>3. (sizes.whole => Chosen(sizes.of) /\ sizes.data = SizesOf(sizes.of))'
    BY <1>1, <1>2, FileFacts
<1>4. (sizesTable.whole =>
          Chosen(sizesTable.of) /\ sizesTable.data = Tables(SizesOf(sizesTable.of)))'
    BY <1>1, <1>2, FileFacts DEF SizesAre
<1>5. calls' \in 0 .. MaxCalls
    BY CallFacts DEF Sizes
<1>6. (CertificatesAre /\ CompressionIs /\ TransportIs /\ ReportIs /\ CalculatorIs)'
    BY DEF Sizes, certificates, derived, CertificatesAre, Chosen, CompressionIs,
           TransportIs, ReportIs, CalculatorIs
<1> QED
    BY <1>3, <1>4, <1>5, <1>6 DEF SizesAre

\* harness.py's bundle(), killed or not.
LEMMA BundleKeeps ==
    ASSUME IInv, Bundle
    PROVE  IInv'
<1> USE DEF IInv
<1>1. PICK c \in Names : \E pem \in {bundles[c].pem, Torn, Whole(corpus[c], c)} :
          bundles' = [bundles EXCEPT ![c] = [served |-> corpus[c], pem |-> pem]]
    BY DEF Bundle
<1>2. PICK pem \in {bundles[c].pem, Torn, Whole(corpus[c], c)} :
          bundles' = [bundles EXCEPT ![c] = [served |-> corpus[c], pem |-> pem]]
    BY <1>1
<1>3. corpus[c] \in Variants[c] /\ corpus' = corpus
    BY DEF CertificatesAre, Chosen, Bundle
<1>4. pem.whole => pem.data \in Variants[c]
    BY <1>2, <1>3, FileFacts DEF CertificatesAre
<1>5. DOMAIN bundles' = Names
    BY <1>2 DEF CertificatesAre
<1>6. ASSUME NEW d \in Names
      PROVE  /\ bundles'[d].served \in Variants[d]
             /\ bundles'[d].pem.whole => bundles'[d].pem.data \in Variants[d]
    <2>1. CASE d = c
        <3>1. bundles'[d] = [served |-> corpus[c], pem |-> pem]
            BY <1>2, <2>1 DEF CertificatesAre
        <3> QED
            BY <1>3, <1>4, <2>1, <3>1
    <2>2. CASE d # c
        <3>1. bundles'[d] = bundles[d]
            BY <1>2, <2>2 DEF CertificatesAre
        <3> QED
            BY <3>1 DEF CertificatesAre
    <2> QED
        BY <2>1, <2>2
<1>7. CertificatesAre'
    BY <1>3, <1>5, <1>6 DEF CertificatesAre, Chosen
<1>8. calls' \in 0 .. MaxCalls
    BY CallFacts DEF Bundle
<1>9. (SizesAre /\ CompressionIs /\ TransportIs /\ ReportIs /\ CalculatorIs)'
    BY DEF Bundle, derived, SizesAre, CompressionIs, TransportIs, ReportIs, CalculatorIs
<1> QED
    BY <1>7, <1>8, <1>9

\* compressibility.py, of whole bundles.
LEMMA CompressKeeps ==
    ASSUME IInv, Compress
    PROVE  IInv'
<1> USE DEF IInv
<1> DEFINE pem == [c \in Names |-> bundles[c].pem]
           data == [chains |-> [c \in Names |-> ChainRow(Lengths(pem[c].data))],
                    fields |-> [c \in MlDsa |->
                        [spki |-> FieldRow("spki", pem[c].data.leaf.spki),
                         signature |-> FieldRow("signature", pem[c].data.leaf.sig)]]]
           of == [c \in Names |-> pem[c].data]
<1>1. CompressionIs'
    <2>1. CASE \A c \in Names : pem[c].whole
        <3>1. compression' \in {Torn, Whole(data, of)}
            BY <2>1 DEF Compress
        <3>2. \A c \in Names : of[c] = pem[c].data /\ of[c] \in Variants[c]
            BY <2>1 DEF CertificatesAre
        <3>3. Chosen(of)
            BY <3>2 DEF Chosen
        <3>4. \A c \in Names : data.chains[c] = ChainRow(Lengths(of[c]))
            OBVIOUS
        <3>5. \A c \in MlDsa : /\ data.fields[c].spki.raw = of[c].leaf.spki
                               /\ data.fields[c].signature.raw = of[c].leaf.sig
            BY PipelineAssumption DEF FieldRow
        <3> HIDE DEF data, of, pem
        <3>6. IsCompressed(data, of)
            BY <3>3, <3>4, <3>5 DEF IsCompressed
        <3>7. CASE compression' = Torn
            BY <3>7, FileFacts DEF CompressionIs
        <3>8. CASE compression' = Whole(data, of)
            <4>1. compression'.data = data /\ compression'.of = of
                BY <3>8, FileFacts
            <4> QED
                BY <3>6, <4>1 DEF CompressionIs
        <3> QED
            BY <3>1, <3>7, <3>8
    <2>2. CASE ~ \A c \in Names : pem[c].whole
        <3>1. compression' = compression
            BY <2>2 DEF Compress
        <3> QED
            BY <3>1 DEF CompressionIs
    <2> QED
        BY <2>1, <2>2
<1>2. calls' \in 0 .. MaxCalls
    BY CallFacts DEF Compress
<1>3. (CertificatesAre /\ SizesAre /\ TransportIs /\ ReportIs /\ CalculatorIs)'
    BY DEF Compress, certificates, derived, CertificatesAre, Chosen, SizesAre,
           TransportIs, ReportIs, CalculatorIs
<1> QED
    BY <1>1, <1>2, <1>3

\* transport.py: rows of what is served when it runs.
LEMMA SweepKeeps ==
    ASSUME IInv, Sweep
    PROVE  IInv'
<1> USE DEF IInv
<1> DEFINE of == [c \in Names |-> bundles[c].served]
           row(c, cv, ticket, result) ==
               IF result = "error" THEN ErrorRow
               ELSE RowOf(Handshake(bundles[c].served, cv, ticket), result)
<1>1. TransportIs'
    <2>1. CASE transport' = Torn
        BY <2>1, FileFacts DEF TransportIs
    <2>2. ASSUME NEW keyed \in SUBSET Names, NEW ticket \in Tickets,
                 NEW result \in [keyed -> Views \cup {"error"}], NEW cv,
                 \A c \in keyed : cv[c] \in CvSizes[c],
                 transport' =
                     Whole([c \in keyed |-> row(c, cv[c], ticket, result[c])], of)
          PROVE  TransportIs'
        <3> DEFINE rows == [c \in keyed |-> row(c, cv[c], ticket, result[c])]
        <3>1. Chosen(of) /\ \A c \in Names : of[c] = bundles[c].served
            BY DEF CertificatesAre, Chosen
        <3>2. DOMAIN rows = keyed /\ DOMAIN rows \subseteq Names
            OBVIOUS
        <3>3. ASSUME NEW c \in keyed PROVE IsRow(rows[c], of[c])
            <4>1. rows[c] = row(c, cv[c], ticket, result[c])
                OBVIOUS
            <4>2. cv[c] \in Nat /\ ticket \in Nat /\ c \in Names
                BY <2>2, PipelineAssumption
            <4>3. CASE result[c] = "error"
                BY <4>1, <4>3 DEF IsRow
            <4>4. CASE result[c] # "error"
                <5>1. result[c] \in Views
                    BY <4>4
                <5>2. rows[c] = RowOf(Handshake(of[c], cv[c], ticket), result[c])
                    BY <3>1, <4>1, <4>2, <4>4
                <5> HIDE DEF rows, of
                <5> QED
                    BY <4>2, <5>1, <5>2 DEF IsRow
            <4> QED
                BY <4>3, <4>4
        <3> HIDE DEF rows, of
        <3>4. AreRows(rows, of)
            BY <3>1, <3>2, <3>3 DEF AreRows
        <3>5. transport'.data = rows /\ transport'.of = of
            BY <2>2, FileFacts DEF rows
        <3> QED
            BY <3>4, <3>5 DEF TransportIs
    <2> QED
        BY <2>1, <2>2 DEF Sweep
<1>2. calls' \in 0 .. MaxCalls
    BY CallFacts DEF Sweep
<1>3. (CertificatesAre /\ SizesAre /\ CompressionIs /\ ReportIs /\ CalculatorIs)'
    BY DEF Sweep, certificates, derived, CertificatesAre, Chosen, SizesAre,
           CompressionIs, ReportIs, CalculatorIs
<1> QED
    BY <1>1, <1>2, <1>3

\* report.py, whatever the capture left it.
LEMMA ReportKeeps ==
    ASSUME IInv, Report
    PROVE  IInv'
<1> USE DEF IInv
<1>1. ReportIs'
    <2>1. CASE transport.whole /\ Fitting(transport.data) # {}
        <3>1. report' \in {Torn, Whole(Table(transport.data), transport.of)}
            BY <2>1 DEF Report
        <3>2. AreRows(transport.data, transport.of)
            BY <2>1 DEF TransportIs
        <3>3. TableIsRight(Table(transport.data))
            BY <2>1, <3>2, TableFacts
        <3>4. CASE report' = Torn
            BY <3>4, FileFacts DEF ReportIs
        <3>5. CASE report' = Whole(Table(transport.data), transport.of)
            <4>1. report'.data = Table(transport.data)
                BY <3>5, FileFacts
            <4> QED
                BY <3>3, <4>1 DEF ReportIs
        <3> QED
            BY <3>1, <3>4, <3>5
    <2>2. CASE ~(transport.whole /\ Fitting(transport.data) # {})
        <3>1. report' = report
            BY <2>2 DEF Report
        <3> QED
            BY <3>1 DEF ReportIs
    <2> QED
        BY <2>1, <2>2
<1>2. calls' \in 0 .. MaxCalls
    BY CallFacts DEF Report
<1>3. (CertificatesAre /\ SizesAre /\ CompressionIs /\ TransportIs /\ CalculatorIs)'
    BY DEF Report, certificates, CertificatesAre, Chosen, SizesAre,
           CompressionIs, TransportIs, CalculatorIs
<1> QED
    BY <1>1, <1>2, <1>3

\* build-calculator-data.py, whatever the others left it.
LEMMA BuildCalculatorKeeps ==
    ASSUME IInv, BuildCalculator
    PROVE  IInv'
<1> USE DEF IInv
<1>1. CalculatorIs'
    <2>1. CASE calculator' = Torn
        BY <2>1, FileFacts DEF CalculatorIs
    <2>2. CASE Computes /\ calculator' = Whole(Output, sizes.of)
        <3>1. AreRows(transport.data, transport.of)
            BY <2>2 DEF TransportIs, Computes
        <3>2. IsPriced(Output)
            BY <2>2, <3>1, OutputFacts
        <3>3. calculator'.data = Output
            BY <2>2, FileFacts
        <3> QED
            BY <3>2, <3>3 DEF CalculatorIs
    <2> QED
        BY <2>1, <2>2 DEF BuildCalculator
<1>2. calls' \in 0 .. MaxCalls
    BY CallFacts DEF BuildCalculator
<1>3. (CertificatesAre /\ SizesAre /\ CompressionIs /\ TransportIs /\ ReportIs)'
    BY DEF BuildCalculator, certificates, CertificatesAre, Chosen, SizesAre,
           CompressionIs, TransportIs, ReportIs
<1> QED
    BY <1>1, <1>2, <1>3

\* Every step keeps it.
LEMMA NextIInv == IInv /\ [Next]_vars => IInv'
<1> SUFFICES ASSUME IInv, [Next]_vars PROVE IInv'
    OBVIOUS
<1>1. CASE Mint
    BY <1>1, MintKeeps
<1>2. CASE Bundle
    BY <1>2, BundleKeeps
<1>3. CASE Sizes
    BY <1>3, SizesKeeps
<1>4. CASE Compress
    BY <1>4, CompressKeeps
<1>5. CASE Sweep
    BY <1>5, SweepKeeps
<1>6. CASE Report
    BY <1>6, ReportKeeps
<1>7. CASE BuildCalculator
    BY <1>7, BuildCalculatorKeeps
<1>8. CASE UNCHANGED vars
    BY <1>8 DEF IInv, vars, certificates, derived, CertificatesAre, Chosen, SizesAre,
                CompressionIs, TransportIs, ReportIs, CalculatorIs
<1> QED
    BY <1>1, <1>2, <1>3, <1>4, <1>5, <1>6, <1>7, <1>8 DEF Next

\* The invariant holds throughout: whatever is whole on disk was made of certificates
\* that were minted, by the program whose file it is.
THEOREM Invariance == Spec => []IInv
<1>1. Init => IInv
    BY InitIInv
<1>2. IInv /\ [Next]_vars => IInv'
    BY NextIInv
<1> QED
    BY <1>1, <1>2, PTL DEF Spec

-----------------------------------------------------------------------------
(* What follows from it. *)

\* The certificates of a file of the corpus.
LEMMA CertOfFacts ==
    ASSUME NEW chains, Chosen(chains), NEW f \in Files
    PROVE  CertOf(chains, f[1], f[2]) \in Certificates
<1>1. \/ f[1] \in Names /\ f[2] \in Parts
      \/ f[1] \in Ladder /\ f[2] \in Rungs
    <2>1. CASE f \in Names \X Parts
        BY <2>1
    <2>2. CASE f \in Ladder \X Rungs
        BY <2>2
    <2> QED
        BY <2>1, <2>2 DEF Files
<1>2. Ladder \subseteq Names
    BY PipelineAssumption
<1>3. CASE f[2] \in Parts
    <2>1. chains[f[1]] \in Variants[f[1]] /\ f[1] \in Names
        BY <1>1, <1>2 DEF Chosen
    <2>2. chains[f[1]].leaf \in Certificates /\ chains[f[1]].int \in Certificates
        BY <2>1, ChosenFits
    <2>3. CertOf(chains, f[1], f[2]) = chains[f[1]][f[2]]
        BY <1>3 DEF CertOf
    <2> QED
        BY <1>3, <2>2, <2>3 DEF Parts
<1>4. CASE f[2] \notin Parts
    <2> DEFINE c == f[1]
               leaf == chains[f[1]].leaf
    <2>1. c \in Ladder /\ f[2] \in Rungs /\ chains[c] \in Variants[c]
        BY <1>1, <1>2, <1>4 DEF Chosen
    <2>2. leaf \in DOMAIN Sans[c]
        BY <2>1, PipelineAssumption
    <2>3. Sans[c][leaf] \in [Rungs -> Certificates]
        BY <2>1, <2>2, PipelineAssumption
    <2>4. CertOf(chains, f[1], f[2]) = Sans[c][leaf][f[2]]
        BY <1>4 DEF CertOf
    <2> QED
        BY <2>1, <2>3, <2>4
<1> QED
    BY <1>3, <1>4

\* What sizes.py reports of a minting.
LEMMA SizesOfFacts ==
    ASSUME NEW chains, Chosen(chains), NEW f \in Files
    PROVE  LET m == SizesOf(chains)[f]
               cert == CertOf(chains, f[1], f[2])
           IN /\ m \in Sized /\ m.total = TotalSize(cert)
              /\ m.spki = cert.spki /\ m.signature = cert.sig
              /\ m.total = m.spki + m.signature + m.other
<1> DEFINE cert == CertOf(chains, f[1], f[2])
<1>1. cert \in Certificates
    BY CertOfFacts
<1>2. SizesOf(chains)[f] = Measure(cert)
    BY DEF SizesOf
<1> HIDE DEF cert
<1>3. /\ Measure(cert) \in Sized /\ Measure(cert).total = TotalSize(cert)
      /\ Measure(cert).spki = cert.spki /\ Measure(cert).signature = cert.sig
      /\ Measure(cert).total = Measure(cert).spki + Measure(cert).signature
                                   + Measure(cert).other
    BY <1>1, MeasureFacts
<1> QED
    BY <1>2, <1>3 DEF cert

\* The types of TypeOK.
LEMMA IInvTypes == IInv => TypeOK
<1> SUFFICES ASSUME IInv PROVE TypeOK
    OBVIOUS
<1> USE DEF IInv
<1>1. \A c \in Names : corpus[c] \in Variants[c] /\ bundles[c].served \in Variants[c]
    BY DEF CertificatesAre, Chosen
<1>2. sizes.whole => sizes.data \in [Files -> Sized]
    <2> SUFFICES ASSUME sizes.whole PROVE sizes.data \in [Files -> Sized]
        OBVIOUS
    <2>1. Chosen(sizes.of) /\ sizes.data = SizesOf(sizes.of)
        BY DEF SizesAre
    <2>2. \A f \in Files : SizesOf(sizes.of)[f] \in Sized
        BY <2>1, SizesOfFacts
    <2>3. SizesOf(sizes.of) = [f \in Files |-> SizesOf(sizes.of)[f]]
        BY DEF SizesOf
    <2> QED
        BY <2>1, <2>2, <2>3
<1>3. transport.whole => DOMAIN transport.data \subseteq Names
    BY DEF TransportIs, AreRows
<1>4. report.whole => report.data.heaviest \in DOMAIN report.data.fits
    BY DEF ReportIs, TableIsRight
<1>5. calculator.whole => Priced \subseteq DOMAIN calculator.data.chains
    BY DEF CalculatorIs, IsPriced
<1> QED
    BY <1>1, <1>2, <1>3, <1>4, <1>5 DEF TypeOK

\* The flights of whole captures.
LEMMA IInvFlight == IInv => FlightEndsWithFinished
<1> SUFFICES ASSUME IInv, transport.whole, NEW c \in Measured(transport.data)
             PROVE  LET m == transport.data[c].data.messages
                    IN {"ServerHello", "Finished"} \subseteq DOMAIN m =>
                           FlightOf(transport.data, c) =
                               ServerHello + EncryptedExtensions + Finished
                                 + CertificateSize(transport.of[c])
                                 + m["CertificateVerify"]
    BY DEF FlightEndsWithFinished
<1>1. AreRows(transport.data, transport.of)
    BY DEF IInv, TransportIs
<1>2. IsMeasured(transport.data[c].data, transport.of[c])
    BY <1>1, RowFacts
<1> QED
    BY <1>2 DEF IsMeasured, FlightOf

\* The statements of TRANSPORT.md.
LEMMA IInvReport == IInv => ReportIsRight
<1> SUFFICES ASSUME IInv, report.whole
             PROVE  LET r == report.data
                    IN /\ \A c \in DOMAIN r.fits :
                              r.fits[c] = CASE r.flight[c] <= 13600 -> "yes"
                                            [] r.flight[c] > 14600  -> "no"
                                            [] OTHER                -> "borderline"
                       /\ r.flight[r.heaviest] <= 14600
                       /\ \A c \in DOMAIN r.flight :
                              r.flight[c] <= r.flight[r.heaviest] \/ r.flight[c] > 14600
                       /\ r.headroom >= 0 =>
                              \A c \in DOMAIN r.certificate :
                                  r.certificate[c] + 4 <= 16384
    BY DEF ReportIsRight
<1>1. TableIsRight(report.data)
    BY DEF IInv, ReportIs
<1> QED
    BY <1>1 DEF TableIsRight

\* The formula of the calculator.
LEMMA IInvFormula == IInv => FormulaGivesMeasurement
BY Zenon DEF IInv, CalculatorIs, IsPriced, FormulaGivesMeasurement

\* The lengths of a chain's two certificates.
LEMMA LengthsFacts ==
    ASSUME NEW chain, CertificateFit(chain)
    PROVE  /\ Lengths(chain) \in Seq(Nat) /\ Len(Lengths(chain)) = 2
           /\ Lengths(chain)[1] = TotalSize(chain.leaf)
           /\ Lengths(chain)[2] = TotalSize(chain.int)
           /\ TotalSize(chain.leaf) \in Nat /\ TotalSize(chain.int) \in Nat
<1>1. TotalSize(chain.leaf) \in Nat /\ TotalSize(chain.int) \in Nat
    BY CertificateFacts DEF CertificateFit
<1> QED
    BY <1>1 DEF Lengths

\* The compressed figures of a chain.
LEMMA IInvCompressed ==
    ASSUME IInv, compression.whole, NEW c \in Names
    PROVE  LET row == compression.data.chains[c]
               chain == compression.of[c]
           IN /\ CertificateFit(chain)
              /\ row.raw = TotalSize(chain.leaf) + TotalSize(chain.int)
              /\ TotalSize(chain.leaf) \in Nat /\ TotalSize(chain.int) \in Nat
<1> DEFINE chain == compression.of[c]
           certs == Lengths(compression.of[c])
<1>1. IsCompressed(compression.data, compression.of)
    BY DEF IInv, CompressionIs
<1>2. chain \in Variants[c] /\ compression.data.chains[c] = ChainRow(certs)
    BY <1>1 DEF IsCompressed, Chosen
<1>3. CertificateFit(chain)
    BY <1>2, ChosenFits
<1>4. /\ certs \in Seq(Nat) /\ Len(certs) = 2
      /\ certs[1] = TotalSize(chain.leaf) /\ certs[2] = TotalSize(chain.int)
      /\ TotalSize(chain.leaf) \in Nat /\ TotalSize(chain.int) \in Nat
    BY <1>3, LengthsFacts
<1> HIDE DEF certs
<1>5. ChainRow(certs).raw = certs[1] + certs[2]
    BY <1>4, TotalOfTwo DEF ChainRow
<1> QED
    BY <1>2, <1>3, <1>4, <1>5

\* The three measurements of a chain.
LEMMA IInvWire == IInv => WireFiguresAgree
<1> SUFFICES ASSUME IInv, compression.whole, NEW c \in Names
             PROVE  LET raw == compression.data.chains[c].raw
                    IN /\ (sizesTable.whole /\ sizesTable.of[c] = compression.of[c])
                              => sizesTable.data.wire[c] = raw
                       /\ (sizes.whole /\ sizes.of[c] = compression.of[c] /\ c \in MlDsa)
                              => LET leaf == sizes.data[<<c, "leaf">>]
                                     fields == compression.data.fields[c]
                                 IN /\ fields.spki.raw = leaf.spki
                                    /\ fields.signature.raw = leaf.signature
                       /\ (transport.whole /\ Has(transport.data, c, "Certificate")
                           /\ transport.of[c] = compression.of[c])
                              => MessageOf(transport.data, c, "Certificate") = raw + 14
    BY DEF WireFiguresAgree
<1> DEFINE chain == compression.of[c]
           raw == compression.data.chains[c].raw
<1>1. /\ CertificateFit(chain) /\ raw = TotalSize(chain.leaf) + TotalSize(chain.int)
      /\ TotalSize(chain.leaf) \in Nat /\ TotalSize(chain.int) \in Nat
    BY IInvCompressed
<1>2. /\ <<c, "leaf">> \in Files /\ <<c, "int">> \in Files
    BY DEF Files, Parts
<1>3. \A chains : /\ CertOf(chains, c, "leaf") = chains[c].leaf
                  /\ CertOf(chains, c, "int") = chains[c].int
    BY DEF CertOf, Parts
<1> HIDE DEF chain, raw
<1>4. ASSUME NEW chains, Chosen(chains), chains[c] = chain
      PROVE  LET rows == SizesOf(chains)
             IN /\ rows[<<c, "leaf">>].total = TotalSize(chain.leaf)
                /\ rows[<<c, "int">>].total = TotalSize(chain.int)
                /\ rows[<<c, "leaf">>].spki = chain.leaf.spki
                /\ rows[<<c, "leaf">>].signature = chain.leaf.sig
    <2>1. /\ CertOf(chains, <<c, "leaf">>[1], <<c, "leaf">>[2]) = chain.leaf
          /\ CertOf(chains, <<c, "int">>[1], <<c, "int">>[2]) = chain.int
        BY <1>3, <1>4
    <2>2. /\ SizesOf(chains)[<<c, "leaf">>].total = TotalSize(chain.leaf)
          /\ SizesOf(chains)[<<c, "leaf">>].spki = chain.leaf.spki
          /\ SizesOf(chains)[<<c, "leaf">>].signature = chain.leaf.sig
        BY <1>2, <1>4, <2>1, SizesOfFacts
    <2>3. SizesOf(chains)[<<c, "int">>].total = TotalSize(chain.int)
        BY <1>2, <1>4, <2>1, SizesOfFacts
    <2> QED
        BY <2>2, <2>3
<1>5. ASSUME sizesTable.whole, sizesTable.of[c] = chain
      PROVE  sizesTable.data.wire[c] = raw
    <2>1. Chosen(sizesTable.of) /\ sizesTable.data = Tables(SizesOf(sizesTable.of))
        BY <1>5 DEF IInv, SizesAre
    <2> DEFINE rows == SizesOf(sizesTable.of)
    <2>2. sizesTable.data.wire[c] = rows[<<c, "int">>].total + rows[<<c, "leaf">>].total
        BY <2>1 DEF Tables
    <2>3. /\ rows[<<c, "leaf">>].total = TotalSize(chain.leaf)
          /\ rows[<<c, "int">>].total = TotalSize(chain.int)
        BY <1>4, <1>5, <2>1
    <2> HIDE DEF rows
    <2> QED
        BY <1>1, <2>2, <2>3
<1>6. ASSUME sizes.whole, sizes.of[c] = chain, c \in MlDsa
      PROVE  /\ compression.data.fields[c].spki.raw = sizes.data[<<c, "leaf">>].spki
             /\ compression.data.fields[c].signature.raw =
                    sizes.data[<<c, "leaf">>].signature
    <2>1. Chosen(sizes.of) /\ sizes.data = SizesOf(sizes.of)
        BY <1>6 DEF IInv, SizesAre
    <2>2. /\ sizes.data[<<c, "leaf">>].spki = chain.leaf.spki
          /\ sizes.data[<<c, "leaf">>].signature = chain.leaf.sig
        BY <1>4, <1>6, <2>1
    <2>3. /\ compression.data.fields[c].spki.raw = chain.leaf.spki
          /\ compression.data.fields[c].signature.raw = chain.leaf.sig
        BY <1>6 DEF IInv, CompressionIs, IsCompressed, chain
    <2> QED
        BY <2>2, <2>3
<1>7. ASSUME transport.whole, Has(transport.data, c, "Certificate"),
             transport.of[c] = chain
      PROVE  MessageOf(transport.data, c, "Certificate") = raw + 14
    <2>1. AreRows(transport.data, transport.of)
        BY <1>7 DEF IInv, TransportIs
    <2>2. /\ c \in Measured(transport.data)
          /\ "Certificate" \in DOMAIN transport.data[c].data.messages
        BY <1>7 DEF Has
    <2>3. IsMeasured(transport.data[c].data, transport.of[c])
        BY <2>1, <2>2, RowFacts
    <2>4. MessageOf(transport.data, c, "Certificate") = CertificateSize(chain)
        BY <1>7, <2>2, <2>3 DEF IsMeasured, MessageOf
    <2>5. CertificateSize(chain) = raw + 14
        BY <1>1 DEF CertificateSize
    <2> QED
        BY <2>4, <2>5
<1> QED
    BY <1>5, <1>6, <1>7 DEF chain, raw

\* Only Sizes writes sizes.json, with the figures of the corpus of the moment.
LEMMA StepExact ==
    IInv /\ [Next]_vars =>
        [sizes' # sizes /\ sizes'.whole =>
             \A f \in Files :
                 LET m == sizes'.data[f] cert == CertOf(corpus, f[1], f[2])
                 IN /\ m.signature = cert.sig
                    /\ m.total = m.spki + m.signature + m.other]_vars
<1> SUFFICES ASSUME IInv, [Next]_vars, sizes' # sizes, sizes'.whole, NEW f \in Files
             PROVE  LET m == sizes'.data[f] cert == CertOf(corpus, f[1], f[2])
                    IN /\ m.signature = cert.sig
                       /\ m.total = m.spki + m.signature + m.other
    OBVIOUS
<1>1. Chosen(corpus)
    BY DEF IInv, CertificatesAre
<1>2. Sizes
    BY DEF Next, Mint, Bundle, Compress, Sweep, Report, BuildCalculator, vars, derived
<1>3. sizes' = Whole(SizesOf(corpus), corpus)
    BY <1>2, FileFacts DEF Sizes
<1>4. sizes'.data = SizesOf(corpus)
    BY <1>3, FileFacts
<1> QED
    BY <1>1, <1>4, SizesOfFacts

\* Only BuildCalculator writes calculator-data.json, and it reads every row.
LEMMA StepNoLoss ==
    IInv /\ [Next]_vars =>
        [calculator' # calculator /\ calculator'.whole =>
             DOMAIN calculator'.data.chains = DOMAIN transport.data]_vars
<1> SUFFICES ASSUME IInv, [Next]_vars, calculator' # calculator, calculator'.whole
             PROVE  DOMAIN calculator'.data.chains = DOMAIN transport.data
    OBVIOUS
<1>1. BuildCalculator
    BY DEF Next, Mint, Bundle, Sizes, Compress, Sweep, Report, vars, derived
<1>2. Computes /\ calculator' = Whole(Output, sizes.of)
    BY <1>1, FileFacts DEF BuildCalculator
<1>3. AreRows(transport.data, transport.of)
    BY <1>2 DEF IInv, TransportIs, Computes
<1>4. calculator'.data = Output
    BY <1>2, FileFacts
<1> QED
    BY <1>2, <1>3, <1>4, OutputFacts

-----------------------------------------------------------------------------
(* The theorems. *)

\* The corpus and the bundles hold certificates that were minted, and the files
\* that are whole have the rows their readers look up.
THEOREM TypeCorrect == Spec => []TypeOK
BY Invariance, IInvTypes, PTL

\* Whenever sizes.py completes sizes.json, the DER walk has found the signature
\* of every certificate, in whichever form each of its lengths is encoded, and
\* the three parts add up to the whole.
THEOREM SizesExact == Spec => SizesAreExact
BY Invariance, StepExact, PTL DEF Spec, SizesAreExact

\* The flight analyze() computes from a capture with a ServerHello and a
\* Finished is what the client waits for, whatever session tickets followed.
THEOREM FlightIsWhole == Spec => []FlightEndsWithFinished
BY Invariance, IInvFlight, PTL

\* TRANSPORT.md answers by the segments of both MSS as its thresholds in bytes
\* do, names the heaviest chain that fits, and shows a headroom that is negative
\* when a Certificate message takes more than a record.
THEOREM ReportRight == Spec => []ReportIsRight
BY Invariance, IInvReport, PTL

\* The DER walk, the decoded chain.pem and the capture give the same figures of
\* the same certificates, whatever was minted, copied and torn in between.
THEOREM FiguresAgree == Spec => []WireFiguresAgree
BY Invariance, IInvWire, PTL

\* A calculator-data.json that was completed gives back, by its formula, every
\* flight that transport.json held: the two assertions of the program suffice.
THEOREM FormulaRight == Spec => []FormulaGivesMeasurement
BY Invariance, IInvFormula, PTL

\* A chain of transport.json is in calculator-data.json, or the program fails.
THEOREM NoChainLost == Spec => CalculatorLosesNoChain
BY Invariance, StepNoLoss, PTL DEF Spec, CalculatorLosesNoChain
=============================================================================
