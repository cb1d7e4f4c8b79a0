-------------------------- MODULE RedactionProofs --------------------------
(***************************************************************************)
(* What is proved of redact(), for every path, every vocabulary of the     *)
(* clients and every output that is made of words and of the path.         *)
(***************************************************************************)
EXTENDS Redaction, WellFoundedInduction, SequenceTheorems, TLAPS

-----------------------------------------------------------------------------
(* Outputs. *)

Tokens == Words \cup ToSet(Root)
Pieces == {<<w>> : w \in Words} \cup {Root}

\* What a piece of an output becomes.
Token(p) == IF p = Root THEN Marker ELSE p[1]

\* A piece is the path or one word, and can be told by what it becomes.
LEMMA PieceFacts ==
    ASSUME NEW p \in Pieces
    PROVE  /\ p \in Seq(Tokens) /\ Len(p) \in Nat /\ Len(p) >= 1
           /\ p = Root \/ (Len(p) = 1 /\ p[1] \in Words /\ p[1] # Root[1])
           /\ Token(p) \in Words \cup {Marker}
           /\ p = IF Token(p) = Marker THEN Root ELSE <<Token(p)>>
<1>1. /\ Root \in Seq(Tokens) /\ Len(Root) >= 1 /\ Len(Root) \in Nat
      /\ Root[1] \in ToSet(Root)
    BY RedactionAssumption DEF Tokens, ToSet
<1>2. CASE p = Root
    BY <1>1, <1>2 DEF Token
<1>3. ASSUME p # Root, NEW w \in Words, p = <<w>>
      PROVE  /\ p \in Seq(Tokens) /\ Len(p) = 1 /\ p[1] = w
             /\ w # Root[1] /\ w # Marker
    BY <1>1, <1>3, RedactionAssumption DEF Tokens
<1>4. CASE p # Root
    BY <1>3, <1>4 DEF Pieces, Token
<1> QED
    BY <1>2, <1>4

\* A set of naturals has a least one.
LEMMA LeastNatural ==
    ASSUME NEW T \in SUBSET Nat, T # {}
    PROVE  \E n \in T : \A m \in T : n <= m
<1>1. PICK n \in T : \A m \in T : ~(<<m, n>> \in OpToRel(<, Nat))
    BY NatLessThanWellFounded, WFMin
<1>2. \A m \in T : ~(m < n)
    BY <1>1 DEF OpToRel
<1> QED
    BY <1>2

\* What a concatenation has of its two parts.
Beginning(s, u) ==
    /\ Len(s) <= Len(u)
    /\ \A j \in 1 .. Len(s) : j \in 1 .. Len(u) /\ u[j] = s[j]
Ending(s, t, u) ==
    /\ Len(u) = Len(s) + Len(t)
    /\ \A j \in 1 .. Len(t) :
           Len(s) + j \in 1 .. Len(u) /\ u[Len(s) + j] = t[j]

\* It begins with the first.
LEMMA BeginningFacts ==
    \A S : \A s, t \in Seq(S) : \A u : u = s \o t => Beginning(s, u)
BY DEF Beginning

\* It ends with the second.
LEMMA EndingFacts ==
    \A S : \A s, t \in Seq(S) : \A u : u = s \o t => Ending(s, t, u)
BY DEF Ending

-----------------------------------------------------------------------------
(* The text FlattenSeq makes of pieces. *)

\* The texts of the first pieces, of the first two, and so on.
IsJoined(ws, f) ==
    f = [i \in 1 .. Len(ws) |-> IF i = 1 THEN ws[i] ELSE f[i - 1] \o ws[i]]

\* There are such texts.
LEMMA JoinedExist ==
    ASSUME NEW S, NEW ws \in Seq(Seq(S)), Len(ws) # 0
    PROVE  \E f : IsJoined(ws, f)
<1> DEFINE Texts(n) == {f \in [1 .. n -> Seq(S)] :
                           \A i \in 1 .. n :
                               f[i] = IF i = 1 THEN ws[i] ELSE f[i - 1] \o ws[i]}
           Bad == {n \in 1 .. Len(ws) : Texts(n) = {}}
<1>1. Len(ws) \in Nat /\ \A i \in 1 .. Len(ws) : ws[i] \in Seq(S)
    OBVIOUS
<1>2. Len(ws) \notin Bad
    <2> SUFFICES ASSUME Len(ws) \in Bad PROVE FALSE
        OBVIOUS
    <2>1. PICK n \in Bad : \A m \in Bad : n <= m
        <3> HIDE DEF Texts
        <3>1. Bad \in SUBSET Nat /\ Bad # {}
            BY <1>1
        <3> HIDE DEF Bad
        <3> QED
            BY <3>1, LeastNatural
    <2>2. n \in 1 .. Len(ws) /\ Texts(n) = {}
        OBVIOUS
    <2>3. n # 1
        <3>1. [i \in 1 .. 1 |-> ws[1]] \in Texts(1)
            BY <1>1, <2>2
        <3> QED
            BY <2>2, <3>1
    <2>4. n - 1 \in 1 .. Len(ws) /\ n \in Nat /\ ~(n <= n - 1)
        BY <1>1, <2>2, <2>3
    <2>5. PICK f : f \in Texts(n - 1)
        <3>1. n - 1 \notin Bad
            BY ONLY <2>1, <2>4
        <3> HIDE DEF Texts
        <3> QED
            BY <2>4, <3>1
    <2> DEFINE g == [i \in 1 .. n |-> IF i = n THEN f[n - 1] \o ws[n] ELSE f[i]]
    <2>6. /\ f \in [1 .. n - 1 -> Seq(S)]
          /\ \A i \in 1 .. n - 1 : f[i] = IF i = 1 THEN ws[i] ELSE f[i - 1] \o ws[i]
        BY <2>5
    <2>7. g \in [1 .. n -> Seq(S)]
        <3>1. f[n - 1] \o ws[n] \in Seq(S)
            BY <1>1, <2>2, <2>4, <2>6
        <3>2. \A i \in 1 .. n : i # n => i \in 1 .. n - 1
            BY <2>4
        <3> QED
            BY <2>6, <3>1, <3>2
    <2>8. ASSUME NEW i \in 1 .. n
          PROVE  g[i] = IF i = 1 THEN ws[i] ELSE g[i - 1] \o ws[i]
        <3>1. CASE i = n
            <4>1. n - 1 \in 1 .. n /\ n - 1 # n
                BY <2>4
            <4> QED
                BY <2>3, <3>1, <4>1
        <3>2. CASE i # n
            <4>1. i \in 1 .. n - 1 /\ (i # 1 => i - 1 \in 1 .. n /\ i - 1 # n)
                BY <2>4, <3>2
            <4> QED
                BY <2>6, <3>2, <4>1
        <3> QED
            BY <3>1, <3>2
    <2>9. g \in Texts(n)
        BY <2>7, <2>8
    <2> QED
        BY <2>2, <2>9
<1>3. PICK f : f \in Texts(Len(ws))
    <2>1. Len(ws) \in 1 .. Len(ws)
        BY <1>1
    <2> HIDE DEF Texts
    <2> QED
        BY <1>2, <2>1
<1>4. f = [i \in 1 .. Len(ws) |-> IF i = 1 THEN ws[i] ELSE f[i - 1] \o ws[i]]
    BY <1>3
<1> QED
    BY <1>4 DEF IsJoined

\* A text is cut at b into the pieces ws.
IsCut(text, ws, b) ==
    /\ b \in [0 .. Len(ws) -> 0 .. Len(text)]
    /\ b[0] = 0 /\ b[Len(ws)] = Len(text)
    /\ \A k \in 1 .. Len(ws) :
           /\ b[k] = b[k - 1] + Len(ws[k])
           /\ \A j \in 1 .. Len(ws[k]) : text[b[k - 1] + j] = ws[k][j]

\* The intermediate texts are sequences, each the beginning of the last.
LEMMA JoinedFacts ==
    ASSUME NEW S, NEW ws \in Seq(Seq(S)), Len(ws) # 0, NEW f, IsJoined(ws, f)
    PROVE  /\ \A k \in 1 .. Len(ws) : f[k] \in Seq(S)
           /\ \A k \in 1 .. Len(ws) :
                  /\ Len(f[k]) <= Len(f[Len(ws)])
                  /\ \A j \in 1 .. Len(f[k]) : f[Len(ws)][j] = f[k][j]
<1> DEFINE N == Len(ws)
           Begins(k) == /\ Len(f[k]) <= Len(f[N])
                        /\ \A j \in 1 .. Len(f[k]) : f[N][j] = f[k][j]
           Untyped == {k \in 1 .. N : f[k] \notin Seq(S)}
           Bad == {m \in 0 .. N - 1 : ~Begins(N - m)}
<1>1. N \in Nat /\ N # 0 /\ \A i \in 1 .. N : ws[i] \in Seq(S)
    OBVIOUS
<1>2. \A i \in 1 .. N : f[i] = IF i = 1 THEN ws[i] ELSE f[i - 1] \o ws[i]
    <2>1. f = [i \in 1 .. N |-> IF i = 1 THEN ws[i] ELSE f[i - 1] \o ws[i]]
        BY DEF IsJoined
    <2> HIDE DEF N
    <2> QED
        BY <2>1
<1> HIDE DEF N
<1>3. \A k \in 1 .. N : f[k] \in Seq(S)
    <2> SUFFICES ASSUME Untyped # {} PROVE FALSE
        OBVIOUS
    <2>1. PICK n \in Untyped : \A m \in Untyped : n <= m
        <3>1. Untyped \in SUBSET Nat
            BY <1>1
        <3> HIDE DEF Untyped
        <3> QED
            BY <3>1, LeastNatural
    <2>2. n \in 1 .. N /\ f[n] \notin Seq(S) /\ n \in Nat
        BY <1>1
    <2>3. n # 1
        BY <1>1, <1>2, <2>2
    <2>4. n - 1 \in 1 .. N /\ ~(n <= n - 1)
        BY <1>1, <2>2, <2>3
    <2>5. f[n - 1] \in Seq(S)
        BY <2>1, <2>4
    <2>6. f[n] = f[n - 1] \o ws[n]
        BY <1>2, <2>2, <2>3
    <2> QED
        BY <1>1, <2>2, <2>5, <2>6
<1>4. Bad = {}
    <2> SUFFICES ASSUME Bad # {} PROVE FALSE
        OBVIOUS
    <2>1. PICK n \in Bad : \A m \in Bad : n <= m
        <3>1. Bad \in SUBSET Nat
            BY <1>1
        <3> HIDE DEF Bad
        <3> QED
            BY <3>1, LeastNatural
    <2>2. n \in 0 .. N - 1 /\ ~Begins(N - n) /\ n \in Nat
        BY <1>1
    <2>3. f[N] \in Seq(S) /\ N - 0 = N
        BY <1>1, <1>3
    <2>4. n # 0
        BY <2>2, <2>3
    <2>5. n - 1 \in 0 .. N - 1 /\ ~(n <= n - 1) /\ N - (n - 1) = N - n + 1
        BY <1>1, <2>2, <2>4
    <2>6. Begins(N - n + 1)
        <3> HIDE DEF Begins
        <3> QED
            BY <2>1, <2>5
    <2> DEFINE k == N - n
    <2>7. k \in 1 .. N /\ k + 1 \in 1 .. N /\ k + 1 # 1 /\ (k + 1) - 1 = k
        BY <1>1, <2>2, <2>4
    <2>8. f[k + 1] = f[k] \o ws[k + 1]
        BY <1>2, <2>7
    <2>9. f[k] \in Seq(S) /\ ws[k + 1] \in Seq(S) /\ f[k + 1] \in Seq(S)
        BY <1>1, <1>3, <2>7
    <2> HIDE DEF k
    <2>10. /\ Len(f[k]) <= Len(f[k + 1])
           /\ \A j \in 1 .. Len(f[k]) : j \in 1 .. Len(f[k + 1])
                                         /\ f[k + 1][j] = f[k][j]
        <3> DEFINE s == f[k]
                   t == ws[k + 1]
                   u == f[k + 1]
        <3>1. s \in Seq(S) /\ t \in Seq(S) /\ u = s \o t
            BY <2>8, <2>9
        <3> HIDE DEF s, t, u
        <3>2. Beginning(s, u)
            BY ONLY <3>1, BeginningFacts
        <3> QED
            BY ONLY <3>2 DEF Beginning, s, u
    <2>11. /\ Len(f[k + 1]) <= Len(f[N])
           /\ \A j \in 1 .. Len(f[k + 1]) : f[N][j] = f[k + 1][j]
        BY <2>6 DEF k
    <2>12. Begins(k)
        BY <2>3, <2>9, <2>10, <2>11
    <2> QED
        BY <2>2, <2>12 DEF k
<1>5. \A k \in 1 .. N : Begins(k)
    <2> SUFFICES ASSUME NEW k \in 1 .. N PROVE Begins(k)
        OBVIOUS
    <2>1. N - k \in 0 .. N - 1 /\ N - (N - k) = k
        BY <1>1
    <2> HIDE DEF Begins
    <2> QED
        BY <1>4, <2>1
<1> QED
    BY <1>3, <1>5 DEF N

\* FlattenSeq gives a text that is cut into what it was made of.
LEMMA FlattenFacts ==
    ASSUME NEW S, NEW ws \in Seq(Seq(S))
    PROVE  /\ FlattenSeq(ws) \in Seq(S)
           /\ \E b : IsCut(FlattenSeq(ws), ws, b)
<1> DEFINE text == FlattenSeq(ws)
<1>1. CASE Len(ws) = 0
    <2>1. ws = <<>> /\ text = <<>>
        BY <1>1 DEF FlattenSeq
    <2>2. IsCut(text, ws, [k \in 0 .. 0 |-> 0])
        BY <2>1 DEF IsCut
    <2> QED
        BY <2>1, <2>2
<1>2. CASE Len(ws) # 0
    <2> DEFINE N == Len(ws)
               f == CHOOSE f : IsJoined(ws, f)
               b == [k \in 0 .. N |-> IF k = 0 THEN 0 ELSE Len(f[k])]
    <2>1. IsJoined(ws, f)
        BY <1>2, JoinedExist
    <2>2. text = f[N]
        BY <1>2 DEF FlattenSeq, IsJoined
    <2> HIDE DEF text, f
    <2>3. /\ \A k \in 1 .. N : f[k] \in Seq(S)
          /\ \A k \in 1 .. N :
                 /\ Len(f[k]) <= Len(f[N])
                 /\ \A j \in 1 .. Len(f[k]) : f[N][j] = f[k][j]
        BY <1>2, <2>1, JoinedFacts
    <2>4. \A i \in 1 .. N : f[i] = IF i = 1 THEN ws[i] ELSE f[i - 1] \o ws[i]
        BY <2>1 DEF IsJoined
    <2>5. N \in Nat /\ N # 0 /\ \A i \in 1 .. N : ws[i] \in Seq(S)
        BY <1>2
    <2> HIDE DEF N
    <2>6. b \in [0 .. N -> 0 .. Len(text)] /\ b[0] = 0 /\ b[N] = Len(text)
        BY <2>2, <2>3, <2>5
    <2>7. ASSUME NEW k \in 1 .. N
          PROVE  /\ b[k] = b[k - 1] + Len(ws[k])
                 /\ \A j \in 1 .. Len(ws[k]) : text[b[k - 1] + j] = ws[k][j]
        <3>1. /\ f[k] \in Seq(S) /\ ws[k] \in Seq(S) /\ b[k] = Len(f[k])
              /\ \A j \in 1 .. Len(f[k]) : text[j] = f[k][j]
            BY <2>2, <2>3, <2>5
        <3>2. CASE k = 1
            <4>1. f[k] = ws[k]
                BY <2>4, <3>2
            <4>2. b[k - 1] = 0
                BY <2>5, <3>2
            <4>3. Len(ws[k]) \in Nat /\ \A j \in 1 .. Len(ws[k]) : 0 + j = j
                BY <3>1
            <4> HIDE DEF b
            <4> QED
                BY <3>1, <4>1, <4>2, <4>3
        <3>3. CASE k # 1
            <4>1. k - 1 \in 1 .. N /\ k - 1 # 0 /\ k - 1 \in 0 .. N
                BY <2>5, <3>3
            <4>2. f[k] = f[k - 1] \o ws[k] /\ b[k - 1] = Len(f[k - 1])
                BY <2>4, <3>3, <4>1
            <4>3. f[k - 1] \in Seq(S)
                BY <2>3, <4>1
            <4> DEFINE s == f[k - 1]
                       t == ws[k]
                       u == f[k]
            <4>4. s \in Seq(S) /\ t \in Seq(S) /\ u = s \o t
                BY <3>1, <4>2, <4>3
            <4> HIDE DEF s, t, u
            <4>5. Ending(s, t, u)
                BY ONLY <4>4, EndingFacts
            <4>6. /\ b[k] = Len(u) /\ b[k - 1] = Len(s) /\ t = ws[k]
                  /\ \A j \in 1 .. Len(u) : text[j] = u[j]
                BY <3>1, <4>2 DEF s, t, u
            <4> HIDE DEF b
            <4>7. /\ b[k] = b[k - 1] + Len(t)
                  /\ \A j \in 1 .. Len(t) : text[b[k - 1] + j] = t[j]
                BY ONLY <4>5, <4>6 DEF Ending
            <4> QED
                BY ONLY <4>6, <4>7
        <3> QED
            BY <3>2, <3>3
    <2>8. IsCut(text, ws, b)
        <3> HIDE DEF b
        <3> QED
            BY <2>6, <2>7 DEF IsCut, N
    <2>9. text \in Seq(S)
        BY <2>2, <2>3, <2>5
    <2> QED
        BY <2>8, <2>9 DEF text
<1> QED
    BY <1>1, <1>2

-----------------------------------------------------------------------------
(* What redact() makes of a text. *)

\* What is made of what there is from a place on.
IsRedacted(text, r) ==
    r = [i \in 1 .. Len(text) + 1 |->
            IF i > Len(text) THEN <<>>
            ELSE IF RootAt(text, i) THEN <<Marker>> \o r[i + Len(Root)]
            ELSE <<text[i]>> \o r[i + 1]]

\* There is such a table of every text.
LEMMA RedactedExists ==
    ASSUME NEW S, NEW text \in Seq(S)
    PROVE  \E r : IsRedacted(text, r)
<1> DEFINE L == Len(text)
           R == Len(Root)
           T == S \cup {Marker}
           At(i) == RootAt(text, i)
           From(g, i) == IF i > L THEN <<>>
                         ELSE IF At(i) THEN <<Marker>> \o g[i + R]
                         ELSE <<text[i]>> \o g[i + 1]
           Tables(m) == {g \in [m .. L + 1 -> Seq(T)] :
                            \A i \in m .. L + 1 : g[i] = From(g, i)}
           Bad == {n \in 0 .. L : Tables(L + 1 - n) = {}}
<1>1. /\ L \in Nat /\ R \in Nat /\ R >= 1
      /\ \A i \in 1 .. L : text[i] \in T
      /\ \A i \in 1 .. L : At(i) => i + R <= L + 1
    BY RedactionAssumption DEF RootAt
<1> HIDE DEF L, R, At
<1>2. L \notin Bad
    <2> SUFFICES ASSUME L \in Bad PROVE FALSE
        OBVIOUS
    <2>1. PICK n \in Bad : \A m \in Bad : n <= m
        <3> HIDE DEF Tables
        <3>1. \A m \in Bad : m \in Nat
            BY <1>1
        <3> HIDE DEF Bad
        <3> QED
            BY <3>1, LeastNatural
    <2>2. n \in 0 .. L /\ Tables(L + 1 - n) = {}
        <3> HIDE DEF Tables
        <3> QED
            OBVIOUS
    <2>3. n # 0
        <3> DEFINE g == [i \in L + 1 .. L + 1 |-> <<>>]
        <3>1. L + 1 \in L + 1 .. L + 1 /\ L + 1 - 0 = L + 1
              /\ \A i \in L + 1 .. L + 1 : i > L
            BY <1>1
        <3>2. g \in [L + 1 .. L + 1 -> Seq(T)]
            OBVIOUS
        <3>3. \A i \in L + 1 .. L + 1 : g[i] = From(g, i)
            BY <3>1
        <3>4. g \in Tables(L + 1)
            BY <3>2, <3>3
        <3> HIDE DEF Tables
        <3> QED
            BY <2>2, <3>1, <3>4
    <2> DEFINE k == L + 1 - n
    <2>4. /\ n - 1 \in 0 .. L /\ ~(n <= n - 1) /\ L + 1 - (n - 1) = k + 1
          /\ k \in 1 .. L /\ k \in Nat
        BY <1>1, <2>2, <2>3
    <2> HIDE DEF k
    <2>5. PICK g : g \in Tables(k + 1)
        <3>1. n - 1 \notin Bad
            BY ONLY <2>1, <2>4
        <3> HIDE DEF Tables
        <3> QED
            BY <2>4, <3>1
    <2>6. /\ g \in [k + 1 .. L + 1 -> Seq(T)]
          /\ \A i \in k + 1 .. L + 1 : g[i] = From(g, i)
        BY <2>5
    <2> DEFINE h == [i \in k .. L + 1 |-> IF i = k THEN From(g, k) ELSE g[i]]
    <2>7. ASSUME NEW i \in k .. L + 1
          PROVE  From(h, i) = From(g, i)
        <3>1. ASSUME i <= L
              PROVE  /\ i + 1 \in k + 1 .. L + 1
                     /\ At(i) => i + R \in k + 1 .. L + 1
            BY <1>1, <2>4, <3>1
        <3>2. \A j \in k + 1 .. L + 1 : h[j] = g[j]
            BY <2>4
        <3>3. i > L \/ i <= L
            BY <1>1, <2>4
        <3> HIDE DEF h
        <3> QED
            BY <3>1, <3>2, <3>3
    <2>8. From(g, k) \in Seq(T)
        <3>1. text[k] \in T /\ Marker \in T /\ g[k + 1] \in Seq(T)
            BY <1>1, <2>4, <2>6
        <3>2. At(k) => g[k + R] \in Seq(T)
            BY <1>1, <2>4, <2>6
        <3> HIDE DEF T
        <3> QED
            BY <1>1, <2>4, <3>1, <3>2
    <2>9. \A i \in k .. L + 1 : i # k => i \in k + 1 .. L + 1
        BY <1>1, <2>4
    <2>10. h \in [k .. L + 1 -> Seq(T)]
        <3> HIDE DEF From
        <3> QED
            BY <2>6, <2>8, <2>9
    <2>11. \A i \in k .. L + 1 : h[i] = From(h, i)
        <3> HIDE DEF From
        <3> QED
            BY <2>6, <2>7, <2>9
    <2>12. h \in Tables(k)
        <3> HIDE DEF h, From
        <3> QED
            BY <2>10, <2>11
    <2> HIDE DEF Tables
    <2> QED
        BY <2>2, <2>12 DEF k
<1>3. PICK r : r \in Tables(1)
    <2>1. L \in 0 .. L /\ L + 1 - L = 1
        BY <1>1
    <2> HIDE DEF Tables
    <2> QED
        BY <1>2, <2>1
<1>4. r = [i \in 1 .. L + 1 |-> From(r, i)]
    <2> HIDE DEF From
    <2> QED
        BY <1>3
<1> QED
    BY <1>4 DEF IsRedacted, L, R, At

\* Two lists are the same that have the same length and elements.
LEMMA SameSequence ==
    \A S : \A s, t \in Seq(S) : \A n \in Nat :
        (Len(s) = n /\ Len(t) = n /\ \A j \in 1 .. n : s[j] = t[j]) => s = t
OBVIOUS

\* The end of a list.
LEMMA SuffixFacts ==
    ASSUME NEW S, NEW t \in Seq(S), NEW a \in 1 .. Len(t) + 1
    PROVE  /\ SubSeq(t, a, Len(t)) \in Seq(S)
           /\ Len(SubSeq(t, a, Len(t))) = Len(t) - a + 1
           /\ \A j \in 1 .. Len(t) - a + 1 : SubSeq(t, a, Len(t))[j] = t[a + j - 1]
OBVIOUS

\* An element and what comes after it.
LEMMA PrependFacts ==
    ASSUME NEW S, NEW t \in Seq(S), NEW k \in 1 .. Len(t)
    PROVE  <<t[k]>> \o SubSeq(t, k + 1, Len(t)) = SubSeq(t, k, Len(t))
<1> DEFINE n == Len(t)
           x == t[k]
           u == SubSeq(t, k, Len(t))
           v == SubSeq(t, k + 1, Len(t))
           w == <<x>> \o v
<1>1. n \in Nat /\ k \in Nat /\ k >= 1 /\ k <= n /\ x \in S
    OBVIOUS
<1>2. /\ u \in Seq(S) /\ Len(u) = n - k + 1
      /\ \A j \in 1 .. n - k + 1 : u[j] = t[k + j - 1]
    BY <1>1, SuffixFacts
<1>3. /\ v \in Seq(S) /\ Len(v) = n - (k + 1) + 1
      /\ \A j \in 1 .. n - (k + 1) + 1 : v[j] = t[(k + 1) + j - 1]
    <2>1. k + 1 \in 1 .. Len(t) + 1
        BY <1>1
    <2> QED
        BY <2>1, SuffixFacts
<1> HIDE DEF n, u, v
<1>4. <<x>> \in Seq(S) /\ Len(<<x>>) = 1 /\ <<x>>[1] = x
    BY <1>1
<1>5. /\ w \in Seq(S) /\ Len(w) = 1 + Len(v) /\ w[1] = x
      /\ \A j \in 1 .. Len(v) : w[1 + j] = v[j]
    BY <1>3, <1>4
<1> HIDE DEF w
<1>6. ASSUME NEW j \in 1 .. n - k + 1 PROVE w[j] = u[j]
    <2>1. u[j] = t[k + j - 1]
        BY <1>2
    <2>2. CASE j = 1
        BY <1>1, <1>5, <2>1, <2>2 DEF x
    <2>3. CASE j # 1
        <3>1. j - 1 \in 1 .. n - (k + 1) + 1 /\ 1 + (j - 1) = j
              /\ (k + 1) + (j - 1) - 1 = k + j - 1
            BY <1>1, <2>3
        <3>2. v[j - 1] = t[k + j - 1] /\ w[j] = v[j - 1]
            BY <1>3, <1>5, <3>1
        <3> QED
            BY <2>1, <3>2
    <2> QED
        BY <2>2, <2>3
<1>7. Len(w) = n - k + 1 /\ n - k + 1 \in Nat
    BY <1>1, <1>3, <1>5
<1>8. w = u
    BY ONLY <1>2, <1>5, <1>6, <1>7, SameSequence
<1> QED
    BY <1>8 DEF u, w, v, x

\* Where the elements of the path are, the path is.
LEMMA RootAtFacts ==
    \A text \in Seq(Tokens) : \A c \in Nat :
        (/\ c + Len(Root) <= Len(text)
         /\ \A j \in 1 .. Len(Root) : text[c + j] = Root[j])
            => RootAt(text, c + 1)
<1> SUFFICES ASSUME NEW text \in Seq(Tokens), NEW c \in Nat,
                    c + Len(Root) <= Len(text),
                    \A j \in 1 .. Len(Root) : text[c + j] = Root[j]
             PROVE  RootAt(text, c + 1)
    OBVIOUS
<1> DEFINE R == Len(Root)
           t == SubSeq(text, c + 1, (c + 1) + R - 1)
<1>1. R \in Nat /\ R >= 1 /\ Root \in Seq(Tokens)
    BY RedactionAssumption DEF Tokens
<1>2. /\ (c + 1) + R - 1 = c + R /\ c + R \in Nat /\ c + R <= Len(text)
      /\ c + 1 \in Nat
    BY <1>1
<1>3. /\ t \in Seq(Tokens) /\ Len(t) = R
      /\ \A j \in 1 .. R : t[j] = text[(c + 1) + j - 1]
    <2> HIDE DEF R
    <2> QED
        BY <1>1, <1>2
<1>4. \A j \in 1 .. R : t[j] = Root[j]
    <2> HIDE DEF t
    <2>1. \A j \in 1 .. R : (c + 1) + j - 1 = c + j
        OBVIOUS
    <2> QED
        BY <1>3, <2>1
<1> HIDE DEF t
<1>5. t = Root
    BY ONLY <1>1, <1>3, <1>4, SameSequence DEF R
<1> QED
    BY <1>2, <1>5 DEF RootAt, t, R

\* Of a text of words and paths, cut into them, redact() makes one token for each.
LEMMA RedactedFacts ==
    ASSUME NEW ws \in Seq(Pieces), NEW text \in Seq(Tokens), NEW b,
           IsCut(text, ws, b), NEW r, IsRedacted(text, r)
    PROVE  r[1] = [k \in 1 .. Len(ws) |-> Token(ws[k])]
<1> DEFINE N == Len(ws)
           L == Len(text)
           R == Len(Root)
           ts == [k \in 1 .. N |-> Token(ws[k])]
           Rest(k) == SubSeq(ts, k + 1, N)
           Bad == {m \in 0 .. N : r[b[N - m] + 1] # Rest(N - m)}
<1>1. /\ N \in Nat /\ L \in Nat /\ R \in Nat /\ R >= 1
      /\ \A k \in 1 .. N : ws[k] \in Pieces
      /\ Root \in Seq(Tokens) /\ Root[1] \in Tokens
    BY RedactionAssumption DEF Tokens, ToSet
<1>2. /\ b \in [0 .. N -> 0 .. L] /\ b[0] = 0 /\ b[N] = L
      /\ \A k \in 1 .. N :
             /\ b[k] = b[k - 1] + Len(ws[k])
             /\ \A j \in 1 .. Len(ws[k]) : text[b[k - 1] + j] = ws[k][j]
    BY DEF IsCut
<1>3. \A i \in 1 .. L + 1 :
          r[i] = IF i > L THEN <<>>
                 ELSE IF RootAt(text, i) THEN <<Marker>> \o r[i + R]
                 ELSE <<text[i]>> \o r[i + 1]
    BY DEF IsRedacted
<1> DEFINE T == {Token(ws[k]) : k \in 1 .. N}
<1> HIDE DEF N, L, R
<1>10. ts \in Seq(T) /\ Len(ts) = N
    BY <1>1
<1>11. \A k \in 1 .. N : ts[k] = Token(ws[k])
    OBVIOUS
<1> HIDE DEF ts, T
<1>4. Bad = {}
    <2> SUFFICES ASSUME Bad # {} PROVE FALSE
        OBVIOUS
    <2>1. PICK n \in Bad : \A m \in Bad : n <= m
        <3> HIDE DEF Rest
        <3>1. \A m \in Bad : m \in Nat
            BY <1>1
        <3> HIDE DEF Bad
        <3> QED
            BY <3>1, LeastNatural
    <2>2. n \in 0 .. N /\ r[b[N - n] + 1] # Rest(N - n)
        <3> HIDE DEF Rest
        <3> QED
            OBVIOUS
    <2>3. n # 0
        <3>1. N - 0 = N /\ L + 1 \in 1 .. L + 1 /\ L + 1 > L
            BY <1>1
        <3>2. r[b[N] + 1] = <<>>
            BY <1>2, <1>3, <3>1
        <3>3. Rest(N) = <<>>
            BY <1>1, <1>10
        <3> HIDE DEF Rest
        <3> QED
            BY <2>2, <3>1, <3>2, <3>3
    <2> DEFINE k == N - n
               p == ws[k + 1]
               i == b[k] + 1
    <2>4. /\ n - 1 \in 0 .. N /\ ~(n <= n - 1) /\ N - (n - 1) = k + 1
          /\ k \in 0 .. N - 1 /\ k \in Nat /\ k + 1 \in 1 .. N /\ (k + 1) - 1 = k
        BY <1>1, <2>2, <2>3
    <2>5. r[b[k + 1] + 1] = Rest(k + 1)
        <3>1. n - 1 \notin Bad
            BY ONLY <2>1, <2>4
        <3> HIDE DEF Rest, k
        <3> QED
            BY <2>4, <3>1
    <2> HIDE DEF k
    <2>6. /\ p \in Pieces /\ b[k + 1] = b[k] + Len(p)
          /\ \A j \in 1 .. Len(p) : text[b[k] + j] = p[j]
          /\ b[k] \in Nat /\ b[k + 1] \in Nat /\ b[k + 1] <= L
        <3>1. p \in Pieces
            BY <1>1, <2>4
        <3>2. /\ b[k + 1] = b[(k + 1) - 1] + Len(p)
              /\ \A j \in 1 .. Len(p) : text[b[(k + 1) - 1] + j] = p[j]
            BY ONLY <1>2, <2>4 DEF p
        <3>3. k \in 0 .. N /\ k + 1 \in 0 .. N
            BY ONLY <1>1, <2>4
        <3>4. b[k] \in 0 .. L /\ b[k + 1] \in 0 .. L
            BY ONLY <1>2, <3>3
        <3>5. b[(k + 1) - 1] = b[k]
            BY ONLY <2>4
        <3> HIDE DEF p
        <3>6. b[k] \in Nat /\ b[k + 1] \in Nat /\ b[k + 1] <= L
            BY ONLY <1>1, <3>4
        <3> QED
            BY ONLY <3>1, <3>2, <3>5, <3>6
    <2> HIDE DEF p
    <2>7. /\ Len(p) \in Nat /\ Len(p) >= 1
          /\ p = Root \/ (Len(p) = 1 /\ p[1] \in Words /\ p[1] # Root[1])
        BY <2>6, PieceFacts
    <2>8. i \in 1 .. L + 1 /\ ~(i > L) /\ text[i] = p[1] /\ i \in Nat
        <3>1. 1 \in 1 .. Len(p)
            BY ONLY <2>7
        <3>2. text[i] = p[1]
            BY ONLY <2>6, <3>1
        <3>3. b[k] + 1 \in 1 .. L + 1 /\ ~(b[k] + 1 > L)
            BY ONLY <1>1, <2>6, <2>7
        <3> QED
            BY ONLY <2>6, <3>2, <3>3
    <2>9. p = Root => RootAt(text, i) /\ i + R = b[k + 1] + 1
        <3>1. p = Root => /\ b[k + 1] = b[k] + R
                          /\ \A j \in 1 .. R : text[b[k] + j] = Root[j]
            BY ONLY <2>6 DEF R
        <3>2. b[k + 1] = b[k] + R => b[k] + R <= L /\ i + R = b[k + 1] + 1
            BY ONLY <1>1, <2>6
        <3> QED
            BY ONLY <2>6, <3>1, <3>2, text \in Seq(Tokens), RootAtFacts DEF L, R
    <2>10. r[i] = <<Token(p)>> \o Rest(k + 1)
        <3> HIDE DEF Rest
        <3>1. CASE p = Root
            <4>1. RootAt(text, i) /\ i + R = b[k + 1] + 1
                BY <2>9, <3>1
            <4> QED
                BY <1>3, <2>5, <2>8, <3>1, <4>1 DEF Token
        <3>2. CASE p # Root
            <4>1. Len(p) = 1 /\ p[1] # Root[1] /\ i + 1 = b[k + 1] + 1
                BY <1>1, <2>6, <2>7, <3>2
            <4> HIDE DEF i
            <4>2. ~RootAt(text, i)
                <5> SUFFICES ASSUME RootAt(text, i) PROVE FALSE
                    OBVIOUS
                <5>1. i + R - 1 <= L /\ SubSeq(text, i, i + R - 1) = Root
                    BY DEF RootAt, R, L
                <5>2. SubSeq(text, i, i + R - 1)[1] = text[i]
                    BY <1>1, <2>8, <5>1 DEF L
                <5> QED
                    BY <2>8, <4>1, <5>1, <5>2
            <4> QED
                BY <1>3, <2>5, <2>8, <3>2, <4>1, <4>2 DEF Token
        <3> QED
            BY <3>1, <3>2
    <2>11. <<Token(p)>> \o Rest(k + 1) = Rest(k)
        <3>1. Token(p) = ts[k + 1]
            BY <1>11, <2>4 DEF p
        <3>2. <<ts[k + 1]>> \o SubSeq(ts, (k + 1) + 1, N) = SubSeq(ts, k + 1, N)
            BY ONLY <1>10, <2>4, PrependFacts
        <3> QED
            BY <3>1, <3>2
    <2> HIDE DEF Rest
    <2> QED
        BY <2>2, <2>10, <2>11 DEF k
<1>5. N \in 0 .. N /\ N - N = 0
    BY <1>1
<1>6. r[b[0] + 1] = Rest(0)
    <2> HIDE DEF Rest
    <2> QED
        BY <1>4, <1>5
<1>7. Rest(0) = ts
    BY <1>1, <1>10
<1>8. b[0] + 1 = 1
    BY <1>2
<1>9. r[1] = ts
    BY ONLY <1>6, <1>7, <1>8
<1> QED
    BY <1>9 DEF N, ts

\* A list of such tokens has nothing of the path, and neither has its beginning.
LEMMA CleanFacts ==
    ASSUME NEW s \in Seq(Words \cup {Marker}), NEW n \in Nat
    PROVE  Clean(s) /\ Clean(Cut(s, n))
<1> DEFINE A == Words \cup {Marker}
           m == IF Len(s) < n THEN Len(s) ELSE n
<1>1. A \cap ToSet(Root) = {}
    BY RedactionAssumption
<1>2. Cut(s, n) \in Seq(A)
    <2>1. m \in 0 .. Len(s)
        OBVIOUS
    <2> HIDE DEF m, A
    <2>2. SubSeq(s, 1, m) \in Seq(A)
        BY <2>1 DEF A
    <2> QED
        BY <2>2 DEF Cut, m
<1>3. ASSUME NEW t \in Seq(A) PROVE Clean(t)
    <2> HIDE DEF A
    <2>1. \A i \in DOMAIN t : t[i] \in A
        OBVIOUS
    <2> QED
        BY <1>1, <2>1 DEF Clean, ToSet
<1> QED
    BY <1>2, <1>3

\* Two texts that are cut into the same pieces are the same.
LEMMA SameCut ==
    ASSUME NEW S, NEW ws \in Seq(Seq(S)), NEW s \in Seq(S), NEW t \in Seq(S),
           NEW b, IsCut(s, ws, b), NEW c, IsCut(t, ws, c)
    PROVE  s = t
<1> DEFINE N == Len(ws)
           Bad == {k \in 0 .. N : b[k] # c[k]}
<1>1. N \in Nat /\ \A k \in 1 .. N : Len(ws[k]) \in Nat
    OBVIOUS
<1>2. /\ b \in [0 .. N -> 0 .. Len(s)] /\ b[0] = 0 /\ b[N] = Len(s)
      /\ \A k \in 1 .. N :
             /\ b[k] = b[k - 1] + Len(ws[k])
             /\ \A j \in 1 .. Len(ws[k]) : s[b[k - 1] + j] = ws[k][j]
    BY DEF IsCut
<1>3. /\ c \in [0 .. N -> 0 .. Len(t)] /\ c[0] = 0 /\ c[N] = Len(t)
      /\ \A k \in 1 .. N :
             /\ c[k] = c[k - 1] + Len(ws[k])
             /\ \A j \in 1 .. Len(ws[k]) : t[c[k - 1] + j] = ws[k][j]
    BY DEF IsCut
<1>4. Len(s) \in Nat /\ Len(t) \in Nat
    OBVIOUS
<1> HIDE DEF N
<1>5. Bad = {}
    <2> SUFFICES ASSUME Bad # {} PROVE FALSE
        OBVIOUS
    <2>1. PICK k \in Bad : \A m \in Bad : k <= m
        <3>1. Bad \in SUBSET Nat
            BY <1>1
        <3> HIDE DEF Bad
        <3> QED
            BY <3>1, LeastNatural
    <2>2. k \in 0 .. N /\ b[k] # c[k] /\ k # 0
        BY <1>2, <1>3
    <2>3. k \in 1 .. N /\ k - 1 \in 0 .. N /\ ~(k <= k - 1)
        BY <1>1, <2>2
    <2>4. b[k - 1] = c[k - 1]
        BY <2>1, <2>3
    <2> QED
        BY <1>2, <1>3, <2>2, <2>3, <2>4
<1>6. N \in 0 .. N /\ \A k \in 0 .. N : b[k] = c[k]
    BY <1>1, <1>5
<1>7. Len(s) = Len(t)
    BY <1>2, <1>3, <1>6
<1> HIDE DEF Bad
<1>8. ASSUME NEW i \in 1 .. Len(s) PROVE s[i] = t[i]
    <2> DEFINE Above == {k \in 0 .. N : i <= b[k]}
    <2>1. N \in Above
        BY <1>2, <1>4, <1>6
    <2>2. PICK k \in Above : \A m \in Above : k <= m
        <3>1. Above \in SUBSET Nat
            BY ONLY <1>1
        <3> HIDE DEF Above
        <3>2. Above # {}
            BY <2>1
        <3> QED
            BY <3>1, <3>2, LeastNatural
    <2>3. k \in 0 .. N /\ i <= b[k] /\ k # 0
        BY <1>2, <1>4
    <2>4. k \in 1 .. N /\ k - 1 \in 0 .. N /\ ~(k <= k - 1)
        BY <1>1, <2>3
    <2>5. ~(i <= b[k - 1]) /\ b[k - 1] \in Nat
        <3>1. k - 1 \notin Above
            BY ONLY <2>2, <2>4
        <3>2. ~(i <= b[k - 1])
            BY ONLY <2>4, <3>1
        <3>3. b[k - 1] \in Nat
            BY ONLY <1>2, <1>4, <2>4
        <3> QED
            BY ONLY <3>2, <3>3
    <2> DEFINE j == i - b[k - 1]
    <2>6. j \in 1 .. Len(ws[k]) /\ b[k - 1] + j = i
        BY <1>1, <1>2, <1>4, <2>3, <2>4, <2>5
    <2> HIDE DEF j
    <2>7. s[i] = ws[k][j] /\ t[i] = ws[k][j]
        BY <1>2, <1>3, <1>6, <2>4, <2>6
    <2> QED
        BY <2>7
<1> QED
    BY ONLY <1>4, <1>7, <1>8, SameSequence

\* A text is what FlattenSeq makes of the pieces it is cut into.
LEMMA CutFacts ==
    ASSUME NEW S, NEW ws \in Seq(Seq(S)), NEW s \in Seq(S), NEW b, IsCut(s, ws, b)
    PROVE  FlattenSeq(ws) = s
<1>1. FlattenSeq(ws) \in Seq(S) /\ \E c : IsCut(FlattenSeq(ws), ws, c)
    BY FlattenFacts
<1> QED
    BY <1>1, SameCut

\* What a piece reads as.
ReadPiece(p) == IF p = Root THEN Root ELSE <<Reading[p[1]]>>

\* Reading leaves the path alone, and makes a word of a word.
LEMMA ReadFacts ==
    ASSUME NEW p \in Pieces
    PROVE  /\ ReadPiece(p) \in Pieces /\ Len(ReadPiece(p)) = Len(p)
           /\ \A j \in 1 .. Len(p) :
                  ReadPiece(p)[j] = IF p[j] \in Words THEN Reading[p[j]] ELSE p[j]
<1>1. CASE p = Root
    <2>1. \A j \in 1 .. Len(Root) : Root[j] \notin Words
        BY RedactionAssumption DEF ToSet
    <2> QED
        BY <1>1, <2>1 DEF ReadPiece, Pieces
<1>2. CASE p # Root
    <2>1. Len(p) = 1 /\ p[1] \in Words
        BY <1>2, PieceFacts
    <2>2. Reading[p[1]] \in Words
        BY <2>1, RedactionAssumption
    <2> QED
        BY <1>2, <2>1, <2>2 DEF ReadPiece, Pieces
<1> QED
    BY <1>1, <1>2

\* What a client prints is cut into pieces, and so is what that reads as.
LEMMA OutputFacts ==
    ASSUME NEW text \in Outputs
    PROVE  /\ text \in Seq(Tokens) /\ AsRead(text) \in Seq(Tokens)
           /\ \E ws \in Seq(Pieces) : \E b : IsCut(AsRead(text), ws, b)
<1>1. PICK n \in 0 .. MaxWords : \E ws \in [1 .. n -> Pieces] : text = FlattenSeq(ws)
    BY DEF Outputs, Pieces
<1>2. PICK ws \in [1 .. n -> Pieces] : text = FlattenSeq(ws)
    BY <1>1
<1> DEFINE N == Len(ws)
           us == [k \in 1 .. N |-> ReadPiece(ws[k])]
           t == AsRead(text)
<1>3. /\ ws \in Seq(Pieces) /\ ws \in Seq(Seq(Tokens)) /\ N \in Nat
      /\ \A k \in 1 .. N : ws[k] \in Pieces
    <2>1. n \in Nat
        BY RedactionAssumption
    <2>2. ws \in Seq(Pieces) /\ N = n
        BY <2>1
    <2>3. Pieces \subseteq Seq(Tokens)
        BY PieceFacts
    <2>4. ws \in [1 .. n -> Seq(Tokens)]
        BY <2>3
    <2> QED
        BY <2>1, <2>2, <2>4
<1>4. text \in Seq(Tokens)
    BY <1>2, <1>3, FlattenFacts
<1>5. PICK b : IsCut(text, ws, b)
    BY <1>2, <1>3, FlattenFacts
<1>6. /\ t \in Seq(Tokens) /\ Len(t) = Len(text)
      /\ \A i \in 1 .. Len(text) :
             t[i] = IF text[i] \in Words THEN Reading[text[i]] ELSE text[i]
    <2>1. \A i \in 1 .. Len(text) :
              (IF text[i] \in Words THEN Reading[text[i]] ELSE text[i]) \in Tokens
        BY <1>4, RedactionAssumption DEF Tokens
    <2> QED
        BY <1>4, <2>1 DEF AsRead
<1>7. us \in Seq(Pieces) /\ Len(us) = N /\ \A k \in 1 .. N : us[k] = ReadPiece(ws[k])
    <2>1. \A k \in 1 .. N : ReadPiece(ws[k]) \in Pieces
        BY <1>3, ReadFacts
    <2> HIDE DEF N
    <2> QED
        BY <1>3, <2>1
<1> HIDE DEF N, us, t
<1>8. /\ b \in [0 .. N -> 0 .. Len(text)] /\ b[0] = 0 /\ b[N] = Len(text)
      /\ \A k \in 1 .. N :
             /\ b[k] = b[k - 1] + Len(ws[k])
             /\ \A j \in 1 .. Len(ws[k]) : text[b[k - 1] + j] = ws[k][j]
    BY <1>5 DEF IsCut, N
<1>9. ASSUME NEW k \in 1 .. N
      PROVE  /\ b[k] = b[k - 1] + Len(us[k])
             /\ \A j \in 1 .. Len(us[k]) : t[b[k - 1] + j] = us[k][j]
    <2> DEFINE p == ws[k]
               a == b[k - 1]
    <2>1. /\ us[k] = ReadPiece(p) /\ Len(us[k]) = Len(p) /\ Len(p) \in Nat
          /\ \A j \in 1 .. Len(p) :
                 us[k][j] = IF p[j] \in Words THEN Reading[p[j]] ELSE p[j]
        <3>1. p \in Pieces /\ us[k] = ReadPiece(p)
            BY <1>3, <1>7
        <3> HIDE DEF p
        <3> QED
            BY <3>1, ReadFacts, PieceFacts
    <2>2. /\ k \in 0 .. N /\ k - 1 \in 0 .. N
        BY <1>3
    <2>3. a \in Nat /\ b[k] = a + Len(p) /\ b[k] <= Len(text)
          /\ \A j \in 1 .. Len(p) : text[a + j] = p[j]
        BY <1>4, <1>8, <2>2
    <2> HIDE DEF p, a
    <2>4. \A j \in 1 .. Len(p) : a + j \in 1 .. Len(text)
        BY <1>4, <2>1, <2>3
    <2>5. \A j \in 1 .. Len(p) : t[a + j] = us[k][j]
        BY <1>6, <2>1, <2>3, <2>4
    <2> QED
        BY <2>1, <2>3, <2>5 DEF a
<1>10. IsCut(t, us, b)
    BY <1>6, <1>7, <1>8, <1>9 DEF IsCut
<1> QED
    BY <1>4, <1>6, <1>7, <1>10 DEF t

\* redact() of what was read: nothing of the path is in it, and putting it back undoes
\* it.
LEMMA RedactFacts ==
    ASSUME NEW text \in Outputs
    PROVE  /\ Redact(AsRead(text)) \in Seq(Words \cup {Marker})
           /\ PutBack(Redact(AsRead(text))) = AsRead(text)
<1> DEFINE t == AsRead(text)
           A == Words \cup {Marker}
<1>1. t \in Seq(Tokens) /\ \E ws \in Seq(Pieces) : \E b : IsCut(t, ws, b)
    BY OutputFacts
<1> HIDE DEF t
<1>2. PICK ws \in Seq(Pieces) : \E b : IsCut(t, ws, b)
    BY <1>1
<1>3. PICK b : IsCut(t, ws, b)
    BY <1>2
<1> DEFINE N == Len(ws)
           ts == [k \in 1 .. N |-> Token(ws[k])]
           r == CHOOSE r : IsRedacted(t, r)
<1>4. /\ N \in Nat /\ ws \in [1 .. N -> Pieces] /\ ws \in Seq(Seq(Tokens))
    <2>1. Pieces \subseteq Seq(Tokens)
        BY PieceFacts
    <2>2. N \in Nat /\ ws \in [1 .. N -> Pieces]
        OBVIOUS
    <2> HIDE DEF N
    <2>3. ws \in [1 .. N -> Seq(Tokens)]
        BY <2>1, <2>2
    <2> QED
        BY <2>2, <2>3
<1>5. IsRedacted(t, r)
    BY <1>1, RedactedExists
<1>6. Redact(t) = r[1]
    BY DEF Redact, IsRedacted
<1> HIDE DEF r, N
<1>7. r[1] = ts
    BY ONLY <1>1, <1>2, <1>3, <1>5, ws \in Seq(Pieces), RedactedFacts DEF N
<1>8. \A k \in 1 .. N : /\ Token(ws[k]) \in A
                        /\ ws[k] = IF Token(ws[k]) = Marker THEN Root
                                   ELSE <<Token(ws[k])>>
    BY <1>4, PieceFacts
<1>9. ts \in Seq(A) /\ Len(ts) = N
    <2> HIDE DEF A
    <2>1. ts \in [1 .. N -> A]
        BY <1>8
    <2> HIDE DEF ts
    <2> QED
        BY <1>4, <2>1, IsASeq
<1>10. [i \in 1 .. Len(ts) |-> IF ts[i] = Marker THEN Root ELSE <<ts[i]>>] = ws
    <2>1. \A k \in 1 .. N : ts[k] = Token(ws[k])
        OBVIOUS
    <2> HIDE DEF ts
    <2>2. ws = [k \in 1 .. N |-> ws[k]]
        BY <1>4
    <2> QED
        BY <1>8, <1>9, <2>1, <2>2
<1>11. FlattenSeq(ws) = t
    BY <1>1, <1>3, <1>4, CutFacts
<1>12. PutBack(ts) = t
    <2> HIDE DEF ts
    <2> QED
        BY <1>10, <1>11 DEF PutBack
<1> HIDE DEF ts
<1> QED
    BY <1>6, <1>7, <1>9, <1>12 DEF A, t

\* Where there is no mark, there is nothing to put back.
LEMMA PutBackFacts ==
    ASSUME NEW S, NEW s \in Seq(S), Marker \notin ToSet(s)
    PROVE  PutBack(s) = s
<1> DEFINE ws == [i \in 1 .. Len(s) |-> <<s[i]>>]
           b == [k \in 0 .. Len(s) |-> k]
<1>1. \A i \in 1 .. Len(s) : s[i] # Marker /\ <<s[i]>> \in Seq(S)
    BY DEF ToSet
<1>2. [i \in 1 .. Len(s) |-> IF s[i] = Marker THEN Root ELSE <<s[i]>>] = ws
    BY <1>1
<1>3. /\ Len(s) \in Nat /\ ws \in Seq(Seq(S)) /\ Len(ws) = Len(s)
      /\ \A i \in 1 .. Len(s) : Len(ws[i]) = 1 /\ ws[i][1] = s[i]
    BY <1>1
<1>4. IsCut(s, ws, b)
    <2>1. b \in [0 .. Len(s) -> 0 .. Len(s)] /\ b[0] = 0 /\ b[Len(s)] = Len(s)
        BY <1>3
    <2>2. \A k \in 1 .. Len(s) : b[k] = k /\ b[k - 1] = k - 1
        BY <1>3
    <2> HIDE DEF ws, b
    <2>3. ASSUME NEW k \in 1 .. Len(s)
          PROVE  /\ b[k] = b[k - 1] + Len(ws[k])
                 /\ \A j \in 1 .. Len(ws[k]) : s[b[k - 1] + j] = ws[k][j]
        <3>1. k \in Nat /\ Len(ws[k]) = 1 /\ ws[k][1] = s[k]
            BY <1>3
        <3>2. b[k] = k /\ b[k - 1] = k - 1 /\ (k - 1) + 1 = k
            BY <2>2, <3>1
        <3>3. \A j \in 1 .. 1 : j = 1
            OBVIOUS
        <3>4. s[b[k - 1] + 1] = ws[k][1]
            BY ONLY <3>1, <3>2
        <3> QED
            BY ONLY <3>1, <3>2, <3>3, <3>4
    <2> QED
        BY <1>3, <2>1, <2>3 DEF IsCut
<1> HIDE DEF ws, b
<1> QED
    BY <1>2, <1>3, <1>4, CutFacts DEF PutBack

\* What reads as a text without the path is itself without.
LEMMA CleanRead ==
    ASSUME NEW text \in Seq(Tokens), Clean(AsRead(text))
    PROVE  Clean(text)
<1> SUFFICES ASSUME NEW i \in 1 .. Len(text), text[i] \in ToSet(Root) PROVE FALSE
    BY DEF Clean, ToSet
<1>1. text[i] \notin Words
    BY RedactionAssumption
<1>2. i \in DOMAIN AsRead(text) /\ AsRead(text)[i] = text[i]
    BY <1>1 DEF AsRead
<1> QED
    BY <1>2 DEF Clean, ToSet

-----------------------------------------------------------------------------
(* The inductive invariant, and what follows from it. *)

\* What a client said, and what has been made of it so far.
IInv ==
    /\ step \in {"client", "runner", "harness", "committed", "reported", "ended"}
    /\ step # "client" => said \in Outputs
    /\ step \in {"runner", "harness"} => evidence = said
    /\ step = "committed" => evidence = Rewritten(said)
    /\ step = "reported" => line = FailureLine(AsRead(said))

\* The invariant holds of every reachable state.
THEOREM Invariance == Spec => []IInv
<1>1. Init => IInv
    BY DEF Init, IInv
<1>2. IInv /\ [Next]_vars => IInv'
    <2> SUFFICES ASSUME IInv, [Next]_vars PROVE IInv'
        OBVIOUS
    <2> USE DEF IInv
    <2>1. CASE ClientWrites
        BY <2>1 DEF ClientWrites
    <2>2. CASE Emit
        BY <2>2 DEF Emit
    <2>3. CASE Collect
        <3>1. step' = "committed" /\ said' = said /\ said \in Outputs
              /\ evidence' = Rewritten(said) /\ access' = access
            BY <2>3 DEF Collect
        <3> QED
            BY <3>1 DEF Rewritten
    <2>4. CASE Unwritable
        BY <2>4 DEF Unwritable
    <2>5. CASE ReportFailure
        BY <2>5 DEF ReportFailure
    <2>6. CASE Unreadable
        BY <2>6 DEF Unreadable
    <2>7. CASE UNCHANGED vars
        BY <2>7 DEF vars, Rewritten
    <2> QED
        BY <2>1, <2>2, <2>3, <2>4, <2>5, <2>6, <2>7 DEF Next
<1> QED
    BY <1>1, <1>2, PTL DEF Spec

\* No part of the checkout's path is left in the evidence of a cell that could be read,
\* nor in the line of a failed runner, which is redacted before it is cut.
THEOREM NoPathIsLeft == Spec => []NoPathLeft
<1>1. IInv => NoPathLeft
    <2> SUFFICES ASSUME IInv PROVE NoPathLeft
        OBVIOUS
    <2> DEFINE t == AsRead(said)
    <2>1. ASSUME step = "committed", access # "none" PROVE Clean(evidence)
        <3>1. said \in Outputs /\ evidence = Rewritten(said)
            BY <2>1 DEF IInv
        <3>2. Clean(Redact(t))
            BY <3>1, RedactFacts, CleanFacts, RedactionAssumption
        <3>3. CASE Redact(t) = t
            <4>1. evidence = said /\ said \in Seq(Tokens)
                BY <2>1, <3>1, <3>3, OutputFacts DEF Rewritten
            <4> QED
                BY <3>2, <3>3, <4>1, CleanRead
        <3>4. CASE Redact(t) # t
            BY <2>1, <3>1, <3>2, <3>4 DEF Rewritten
        <3> QED
            BY <3>3, <3>4
    <2>2. ASSUME step = "reported" PROVE Clean(line)
        <3>1. said \in Outputs /\ line = Cut(Redact(t), LineLimit)
            BY <2>2 DEF IInv, FailureLine
        <3> QED
            BY <3>1, RedactFacts, CleanFacts, RedactionAssumption
    <2> QED
        BY <2>1, <2>2 DEF NoPathLeft
<1> QED
    BY <1>1, Invariance, PTL

\* Committed evidence is to the byte what the client printed, or it has the mark, and
\* with the path put back it is what the client printed as text is read.
THEOREM EvidenceFaithful == Spec => []EvidenceIsFaithful
<1>1. IInv => EvidenceIsFaithful
    <2> SUFFICES ASSUME IInv, step = "committed", evidence # said
                 PROVE  Marker \in ToSet(evidence) /\ PutBack(evidence) = AsRead(said)
        BY DEF EvidenceIsFaithful
    <2>1. /\ said \in Outputs /\ evidence = Redact(AsRead(said))
          /\ Redact(AsRead(said)) # AsRead(said)
        BY DEF IInv, Rewritten
    <2>2. evidence \in Seq(Words \cup {Marker}) /\ PutBack(evidence) = AsRead(said)
        BY <2>1, RedactFacts
    <2> QED
        BY <2>1, <2>2, PutBackFacts
<1> QED
    BY <1>1, Invariance, PTL
=============================================================================
