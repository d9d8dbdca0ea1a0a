---------------------------- MODULE CimaFormatProofs ----------------------------
(***************************************************************************)
(* Proofs about CimaFormat and CimaLexer, for texts of every length: where *)
(* the tokens of lexer.c begin and end, and what format_str makes of them. *)
(***************************************************************************)
EXTENDS CimaFormat, CimaInduction, FiniteSetTheorems, SequenceTheorems

-----------------------------------------------------------------------------
(* Functions that are defined from their end on *)

\* The value that G gives a function at q follows from its values behind q.
Descends(G, a, n, V) ==
  /\ V # {}
  /\ G \in [a..n -> [[a..n -> V] -> V]]
  /\ \A q \in a..n : \A f, g \in [a..n -> V] :
       (\A r \in a..n : r > q => f[r] = g[r]) => G[q][f] = G[q][g]

\* A function on a..n that has these values exists.
LEMMA Descent ==
  ASSUME NEW a \in Int, NEW n \in Int, NEW V, NEW G, Descends(G, a, n, V)
  PROVE  \E f \in [a..n -> V] : \A q \in a..n : f[q] = G[q][f]
  <1> DEFINE T == {k \in Nat : \E f \in [a..n -> V] :
                                 \A q \in a..n : q > n - k => f[q] = G[q][f]}
  <1>1. 0 \in T
    <2>0. PICK v : v \in V
      BY DEF Descends
    <2> DEFINE f == [q \in a..n |-> v]
    <2>1. f \in [a..n -> V] /\ \A q \in a..n : ~(q > n - 0)
      BY <2>0
    <2> QED
      BY <2>1
  <1>2. ASSUME NEW k \in Nat, k \in T PROVE k + 1 \in T
    <2>1. PICK f \in [a..n -> V] : \A q \in a..n : q > n - k => f[q] = G[q][f]
      BY <1>2
    <2>2. CASE n - k \notin a..n
      BY <2>1, <2>2
    <2>3. CASE n - k \in a..n
      <3> DEFINE m == n - k
                 g == [f EXCEPT ![m] = G[m][f]]
      <3>1. g \in [a..n -> V] /\ g[m] = G[m][f]
        BY <2>3 DEF Descends
      <3>2. \A r \in a..n : r > m => f[r] = g[r]
        OBVIOUS
      <3> HIDE DEF g, m
      <3>3. ASSUME NEW q \in a..n, q > n - (k + 1) PROVE g[q] = G[q][g]
        <4>1. m \in Int /\ q \in Int
          BY DEF m
        <4>2. \A r \in a..n : r > q => f[r] = g[r]
          BY <3>2, <3>3, <4>1 DEF m
        <4>3. G[q][f] = G[q][g]
          BY <3>1, <4>2 DEF Descends
        <4>4. CASE q = m
          BY <3>1, <4>3, <4>4
        <4>5. CASE q # m
          <5>1. q > n - k
            BY <3>3, <4>1, <4>5 DEF m
          <5> QED
            BY <2>1, <3>2, <4>3, <5>1 DEF m
        <4> QED
          BY <4>4, <4>5
      <3> QED
        BY <3>1, <3>3
    <2> QED
      BY <2>2, <2>3
  <1> HIDE DEF T
  <1>3. Nat \subseteq T
    BY <1>1, <1>2, NatInductionSet
  <1>4. PICK k \in Nat : n - k < a
    <2> DEFINE k == IF n < a THEN 0 ELSE n - a + 1
    <2>1. k \in Nat /\ n - k < a
      OBVIOUS
    <2> QED
      BY <2>1
  <1>5. k \in T
    BY <1>3
  <1> QED
    BY <1>4, <1>5 DEF T

\* What holds at q if it holds wherever step leads from q holds everywhere.
LEMMA DescentHolds ==
  ASSUME NEW a \in Int, NEW n \in Int, NEW S \in SUBSET (a..n),
         \A q \in a..n : (\A r \in a..n : r > q => r \in S) => q \in S
  PROVE  S = a..n
  <1> DEFINE T == {k \in Nat : \A q \in a..n : q > n - k => q \in S}
  <1>1. 0 \in T
    OBVIOUS
  <1>2. ASSUME NEW k \in Nat, k \in T PROVE k + 1 \in T
    <2>1. ASSUME NEW q \in a..n, q > n - (k + 1) PROVE q \in S
      <3>1. \A r \in a..n : r > q => r \in S
        BY <1>2, <2>1
      <3> QED
        BY <3>1
    <2> QED
      BY <2>1
  <1> HIDE DEF T
  <1>3. Nat \subseteq T
    BY <1>1, <1>2, NatInductionSet
  <1>4. ASSUME NEW q \in a..n PROVE q \in S
    <2>1. n - q + 1 \in Nat
      OBVIOUS
    <2>2. n - q + 1 \in T
      BY <1>3, <2>1
    <2> QED
      BY <2>2 DEF T
  <1> QED
    BY <1>4

\* The loop of Settle ends at a position where it stays, reached in a last step.
LEMMA Settles ==
  ASSUME NEW a \in Int, NEW n \in Int, NEW step \in [a..n -> Int],
         \A q \in a..n : q <= step[q] /\ step[q] <= n, NEW p \in a..n
  PROVE  /\ Settle(step, p) \in p..n /\ step[Settle(step, p)] = Settle(step, p)
         /\ Settle(step, p) # p =>
              \E r \in a..n : p <= r /\ r < Settle(step, p) /\ step[r] = Settle(step, p)
  <1> DEFINE F(f) == f = [q \in DOMAIN step |-> IF step[q] = q THEN q ELSE f[step[q]]]
             end == CHOOSE f : F(f)
  <1>1. \E f : F(f)
    <2> DEFINE V == a..n
               G == [q \in a..n |-> [f \in [a..n -> V] |->
                       IF step[q] = q THEN q ELSE f[step[q]]]]
    <2>1. p \in V /\ \A q \in a..n : step[q] \in a..n
      OBVIOUS
    <2>2. G \in [a..n -> [[a..n -> V] -> V]]
      BY <2>1
    <2>3. \A q \in a..n : \A f \in [a..n -> V] :
            G[q][f] = IF step[q] = q THEN q ELSE f[step[q]]
      OBVIOUS
    <2> HIDE DEF G, V
    <2>4. ASSUME NEW q \in a..n, NEW f \in [a..n -> V], NEW g \in [a..n -> V],
                 \A r \in a..n : r > q => f[r] = g[r]
          PROVE  G[q][f] = G[q][g]
      <3>1. step[q] # q => step[q] > q /\ step[q] \in a..n
        BY <2>1
      <3>2. step[q] # q => f[step[q]] = g[step[q]]
        BY <2>4, <3>1
      <3> QED
        BY <2>3, <3>2, ZenonT(30)
    <2>5. Descends(G, a, n, V)
      BY <2>1, <2>2, <2>4 DEF Descends
    <2>6. PICK f \in [a..n -> V] : \A q \in a..n : f[q] = G[q][f]
      BY <2>5, Descent
    <2>7. \A q \in a..n : f[q] = IF step[q] = q THEN q ELSE f[step[q]]
      BY <2>3, <2>6
    <2>8. F(f)
      BY <2>7
    <2> QED
      BY <2>8
  <1>2. F(end)
    BY <1>1
  <1> HIDE DEF end
  <1>3. \A q \in a..n : end[q] = IF step[q] = q THEN q ELSE end[step[q]]
    BY <1>2
  <1> DEFINE Good(q) == /\ end[q] \in q..n /\ step[end[q]] = end[q]
                        /\ end[q] # q =>
                             \E r \in a..n : q <= r /\ r < end[q] /\ step[r] = end[q]
             S == {q \in a..n : Good(q)}
  <1>4. ASSUME NEW q \in a..n, \A r \in a..n : r > q => r \in S PROVE q \in S
    <2>1. CASE step[q] = q
      BY <1>3, <2>1
    <2>2. CASE step[q] # q
      <3> DEFINE r == step[q]
      <3>1. r \in a..n /\ r > q /\ end[q] = end[r]
        BY <1>3, <2>2
      <3>2. Good(r)
        BY <1>4, <3>1
      <3>3. end[q] \in q..n /\ step[end[q]] = end[q]
        BY <3>1, <3>2
      <3>4. CASE end[r] = r
        BY <3>1, <3>3, <3>4
      <3>5. CASE end[r] # r
        BY <3>1, <3>2, <3>3, <3>5
      <3> QED
        BY <3>4, <3>5
    <2> QED
      BY <2>1, <2>2
  <1> HIDE DEF S
  <1>5. S = a..n
    <2>1. S \in SUBSET (a..n)
      BY DEF S
    <2> HIDE DEF Good
    <2> QED
      BY <1>4, <2>1, DescentHolds
  <1>6. Settle(step, p) = end[p]
    BY DEF Settle, end
  <1> QED
    BY <1>5, <1>6 DEF S

-----------------------------------------------------------------------------
(* Positions *)

LEMMA UntilFinds ==
  ASSUME NEW s \in Seq(Chars), NEW p \in Nat, NEW stops \in SUBSET (1..Len(s))
  PROVE  /\ Until(s, p, stops) \in Nat /\ Until(s, p, stops) >= p
         /\ p > Len(s) => Until(s, p, stops) = p
         /\ p <= Len(s) + 1 => Until(s, p, stops) <= Len(s) + 1
         /\ Until(s, p, stops) <= Len(s) => Until(s, p, stops) \in stops
         /\ \A r \in stops : r >= p => r >= Until(s, p, stops)
  <1> DEFINE n == Len(s)
             C == {q \in stops \cup {n + 1} : q >= p}
  <1>1. n \in Nat
    OBVIOUS
  <1> HIDE DEF n
  <1>2. CASE p > n
    <2>1. \A r \in stops : r <= n
      BY DEF n
    <2> QED
      BY <1>1, <1>2, <2>1 DEF Until, n
  <1>3. CASE p <= n
    <2>1. C \in SUBSET Nat /\ n + 1 \in C
      <3>1. \A q \in stops : q \in Nat
        BY <1>1 DEF n
      <3>2. \A q \in C : q \in Nat
        BY <1>1, <3>1
      <3>3. n + 1 \in C
        BY <1>1, <1>3
      <3> QED
        BY <3>2, <3>3
    <2>2. \E m \in C : \A q \in C : m <= q
      BY <2>1, LeastOfNats
    <2>3. Until(s, p, stops) = Min(C)
      BY <1>3, <1>1 DEF Until, n
    <2> HIDE DEF C
    <2>4. Min(C) \in C /\ \A q \in C : Min(C) <= q
      BY <2>2 DEF Min
    <2>5. Min(C) <= n + 1 /\ Min(C) \in Nat
      BY <2>1, <2>4
    <2>6. Min(C) >= p /\ (Min(C) <= n => Min(C) \in stops)
      BY <1>1, <2>4 DEF C
    <2>7. \A r \in stops : r >= p => r >= Min(C)
      BY <2>4, <2>5 DEF C, n
    <2> QED
      BY <1>3, <2>3, <2>5, <2>6, <2>7 DEF n
  <1> QED
    BY <1>1, <1>2, <1>3

-----------------------------------------------------------------------------
(* Braces and strings *)

LEMMA Counts ==
  ASSUME NEW s, NEW c, NEW a \in Int, NEW b \in Int
  PROVE  Count(s, c, a, b) \in Nat /\ (a > b => Count(s, c, a, b) = 0)
  <1> DEFINE S == {i \in a..b : s[i] = c}
  <1>1. IsFiniteSet(a..b) /\ S \in SUBSET (a..b)
    BY FS_Interval
  <1> HIDE DEF S
  <1>2. IsFiniteSet(S) /\ Cardinality(S) \in Nat
    BY <1>1, FS_Subset, FS_CardinalityType
  <1>3. a > b => Cardinality(S) = 0
    BY FS_EmptySet DEF S
  <1> QED
    BY <1>2, <1>3 DEF S, Count

LEMMA CountsOne ==
  ASSUME NEW s, NEW c, NEW a \in Int, NEW b \in Int, a <= b
  PROVE  /\ Count(s, c, a, b) = Count(s, c, a, b - 1) + (IF s[b] = c THEN 1 ELSE 0)
         /\ Count(s, c, a, b) = Count(s, c, a + 1, b) + (IF s[a] = c THEN 1 ELSE 0)
  <1> DEFINE S == {i \in a..b : s[i] = c}
             L == {i \in a..(b - 1) : s[i] = c}
             R == {i \in (a + 1)..b : s[i] = c}
  <1>1. IsFiniteSet(L) /\ IsFiniteSet(R)
    <2>1. IsFiniteSet(a..b) /\ L \in SUBSET (a..b) /\ R \in SUBSET (a..b)
      BY FS_Interval
    <2> HIDE DEF L, R
    <2> QED
      BY <2>1, FS_Subset
  <1>2. b \notin L /\ a \notin R
    OBVIOUS
  <1>3. /\ S = IF s[b] = c THEN L \cup {b} ELSE L
        /\ S = IF s[a] = c THEN R \cup {a} ELSE R
    OBVIOUS
  <1>4. Cardinality(L \cup {b}) = Cardinality(L) + 1 /\ Cardinality(R \cup {a}) = Cardinality(R) + 1
    BY <1>1, <1>2, FS_AddElement
  <1>5. Cardinality(L) \in Nat /\ Cardinality(R) \in Nat
    BY <1>1, FS_CardinalityType
  <1> HIDE DEF S, L, R
  <1>6. /\ Cardinality(S) = Cardinality(L) + (IF s[b] = c THEN 1 ELSE 0)
        /\ Cardinality(S) = Cardinality(R) + (IF s[a] = c THEN 1 ELSE 0)
    BY <1>3, <1>4, <1>5
  <1> QED
    BY <1>6 DEF S, L, R, Count

\* A text in which a string may go on behind the end.
Unclosed(s) ==
  \/ s[Len(s)] = "\\"
  \/ \E i \in DOMAIN s :
       s[i] = LBrace /\ Count(s, LBrace, i, Len(s)) > Count(s, RBrace, i, Len(s))

\* lexer_get_str: the braces of a field end before the text does, if it closes them.
LEMMA BracesEnd ==
  ASSUME NEW s \in Seq(Chars), NEW p \in 1..Len(s), s[p] = LBrace
  PROVE  /\ BraceEnd(s, p) \in p..(Len(s) + 1)
         /\ BraceEnd(s, p) > Len(s) => Unclosed(s)
  <1> DEFINE n == Len(s)
             stops == {q \in p..n : s[q] = RBrace /\ Skips(s, p, q) = 0}
             e == BraceEnd(s, p)
  <1>1. n \in Nat /\ p \in Nat /\ p <= n /\ p \in Int /\ n \in Int
    OBVIOUS
  <1>2. e = Until(s, p, stops) /\ stops \in SUBSET (1..n)
    BY DEF BraceEnd
  <1>3. e \in p..(n + 1) /\ (\A r \in stops : r >= p => r >= e)
    BY <1>1, <1>2, UntilFinds
  <1> HIDE DEF e, n
  <1>4. ASSUME e > n PROVE Unclosed(s)
    <2>1. \A q \in p..n : s[q] = RBrace => Skips(s, p, q) # 0
      BY <1>1, <1>3, <1>4
    <2> HIDE DEF stops
    <2> DEFINE T == {k \in Nat : p + k <= n => Skips(s, p, p + k) \in Nat}
    <2>2. 0 \in T
      <3>1. Count(s, LBrace, p + 1, p) = 0 /\ Count(s, RBrace, p, p - 1) = 0
        BY <1>1, Counts
      <3> QED
        BY <1>1, <3>1 DEF Skips
    <2>3. ASSUME NEW k \in Nat, k \in T PROVE k + 1 \in T
      <3> SUFFICES ASSUME p + k + 1 <= n PROVE Skips(s, p, p + k + 1) \in Nat
        BY <1>1, <2>3
      <3> DEFINE q == p + k
      <3>1. q \in p..n /\ q \in Int /\ Skips(s, p, q) \in Nat /\ q + 1 - 1 = q
        BY <1>1, <2>3
      <3> HIDE DEF q
      <3>2. Count(s, LBrace, p + 1, q + 1) >= Count(s, LBrace, p + 1, q)
        <4>1. Count(s, LBrace, p + 1, q + 1)
                = Count(s, LBrace, p + 1, q + 1 - 1) + (IF s[q + 1] = LBrace THEN 1 ELSE 0)
          BY <1>1, <3>1, CountsOne
        <4>2. Count(s, LBrace, p + 1, q) \in Nat
          BY <1>1, <3>1, Counts
        <4> QED
          BY <3>1, <4>1, <4>2
      <3>3. Count(s, RBrace, p, q) = Count(s, RBrace, p, q - 1) + (IF s[q] = RBrace THEN 1 ELSE 0)
        BY <1>1, <3>1, CountsOne
      <3>4. /\ Count(s, LBrace, p + 1, q) \in Nat /\ Count(s, LBrace, p + 1, q + 1) \in Nat
            /\ Count(s, RBrace, p, q) \in Nat /\ Count(s, RBrace, p, q - 1) \in Nat
        BY <1>1, <3>1, Counts
      <3>5. s[q] = RBrace => Skips(s, p, q) > 0
        BY <2>1, <3>1
      <3>6. Skips(s, p, q + 1) \in Nat
        BY <3>1, <3>2, <3>3, <3>4, <3>5 DEF Skips
      <3> QED
        BY <1>1, <3>6 DEF q
    <2> HIDE DEF T
    <2>4. Nat \subseteq T
      BY <2>2, <2>3, NatInductionSet
    <2>5. Skips(s, p, n) \in Nat
      <3>1. n - p \in T
        BY <1>1, <2>4
      <3> QED
        BY <1>1, <3>1 DEF T
    <2>6. s[n] = RBrace => Skips(s, p, n) > 0
      BY <1>1, <2>1, <2>5
    <2>7. /\ Count(s, LBrace, p, n) = Count(s, LBrace, p + 1, n) + 1
          /\ Count(s, RBrace, p, n) = Count(s, RBrace, p, n - 1) + (IF s[n] = RBrace THEN 1 ELSE 0)
      BY <1>1, CountsOne
    <2>8. /\ Count(s, LBrace, p + 1, n) \in Nat /\ Count(s, RBrace, p, n - 1) \in Nat
      BY <1>1, Counts
    <2>9. Count(s, LBrace, p, n) > Count(s, RBrace, p, n)
      BY <2>5, <2>6, <2>7, <2>8 DEF Skips
    <2> QED
      BY <2>9 DEF Unclosed, n
  <1> QED
    BY <1>3, <1>4 DEF e, n

\* lexer_get_str, lexer_get_char: no character behind the closing quote is read, and
\* none behind the end of a text that closes what it opens.
LEMMA QuotesEnd ==
  ASSUME NEW s \in Seq(Chars), NEW p \in 1..(Len(s) + 1), NEW quote
  PROVE  /\ QuoteEnd(s, p, quote) \in p..(Len(s) + 2)
         /\ QuoteEnd(s, p, quote) > Len(s) + 1 => Unclosed(s)
  <1> DEFINE n == Len(s)
             C(q) == IF s[q] = "\\" THEN q + 1 ELSE q
             field(q) == quote = Quote /\ C(q) <= Len(s) /\ s[C(q)] = LBrace
             to(q) == 1 + (IF field(q) THEN BraceEnd(s, C(q)) ELSE C(q))
             step == [q \in p..(n + 2) |-> IF q > n \/ s[q] = quote THEN q ELSE to(q)]
             e == Settle(step, p)
  <1>1. n \in Nat /\ p \in Int /\ 1 <= p /\ p <= n + 1
    OBVIOUS
  <1>2. QuoteEnd(s, p, quote) = e
    BY DEF QuoteEnd
  <1>3. ASSUME NEW q \in p..n
        PROVE  to(q) \in (q + 1)..(n + 2) /\ (to(q) > n + 1 => Unclosed(s))
    <2>1. q \in Int /\ q <= n /\ q >= 1 /\ C(q) \in {q, q + 1}
      BY <1>1
    <2>2. CASE field(q)
      <3> DEFINE c == C(q)
      <3>1. c \in 1..Len(s) /\ s[c] = LBrace /\ to(q) = 1 + BraceEnd(s, c)
        BY <2>1, <2>2
      <3> HIDE DEF c
      <3>2. BraceEnd(s, c) \in c..(Len(s) + 1) /\ (BraceEnd(s, c) > Len(s) => Unclosed(s))
        BY <3>1, BracesEnd
      <3> QED
        BY <1>1, <2>1, <3>1, <3>2 DEF c
    <2>3. CASE ~field(q)
      <3>1. to(q) = 1 + C(q)
        BY <2>3
      <3>2. C(q) = n + 1 => q = n /\ s[n] = "\\"
        BY <1>1, <2>1
      <3> QED
        BY <1>1, <2>1, <3>1, <3>2 DEF Unclosed
    <2> QED
      BY <2>2, <2>3
  <1> HIDE DEF n, to
  <1>4. /\ step \in [p..(n + 2) -> Int]
        /\ \A q \in p..(n + 2) : q <= step[q] /\ step[q] <= n + 2
    BY <1>1, <1>3
  <1>5. \A q \in p..(n + 2) : step[q] = n + 2 /\ q < n + 2 => Unclosed(s)
    BY <1>1, <1>3
  <1> HIDE DEF step
  <1>6. /\ e \in p..(n + 2)
        /\ e # p => \E r \in p..(n + 2) : p <= r /\ r < e /\ step[r] = e
    BY <1>1, <1>4, Settles
  <1>7. e > n + 1 => Unclosed(s)
    BY <1>1, <1>5, <1>6
  <1> QED
    BY <1>2, <1>6, <1>7 DEF n

-----------------------------------------------------------------------------
(* Tokens *)

TokensOf(s) == [kind : TokenKinds, from : 1..(Len(s) + 3), to : 1..(Len(s) + 3),
                pos : 1..(Len(s) + 3)]

\* A token that the lexer, standing at p, yields: where it is, and what its kind
\* says of the text.
TokenOK(s, t, p) ==
  /\ t \in TokensOf(s)
  /\ p <= t.from /\ t.from <= t.to /\ t.to <= t.pos
  /\ t.from < t.to => t.from <= Len(s) + 1 /\ t.to <= Len(s) + 2
  /\ t.to > Len(s) + 1 /\ t.from < t.to => t.kind = "quoted" /\ Unclosed(s)
  /\ t.kind = "LBRACE" => t.from <= Len(s) /\ s[t.from] = LBrace /\ t.pos = t.from + 1
  /\ t.kind = "RBRACE" => t.from <= Len(s) /\ s[t.from] = RBrace /\ t.pos = t.from + 1
  /\ t.kind # "EOF" => t.from < t.to \/ t.from = t.pos \/ t.kind = "quoted"

LEMMA Braces == LBrace # RBrace /\ LBrace # Quote /\ RBrace # Quote
  BY Zenon DEF LBrace, RBrace, Quote

\* lexer_get_name
LEMMA Names ==
  ASSUME NEW s \in Seq(Chars), NEW p \in 1..Len(s)
  PROVE  /\ TokenOK(s, Name(s, p), p) /\ Name(s, p).kind = "word"
         /\ s[p] \notin Blank \cup Special \cup BinopSymbs => Name(s, p).pos > p
  <1> DEFINE C == Blank \cup Special \cup BinopSymbs
             stops == Where(s, C)
             q == Until(s, p, stops)
  <1>1. stops \in SUBSET (1..Len(s)) /\ (s[p] \notin C => p \notin stops)
    BY DEF Where
  <1> HIDE DEF C
  <1>2. Name(s, p) = Token("word", p, q, q)
    BY DEF Name, C
  <1> HIDE DEF stops
  <1>3. q \in Nat /\ q >= p /\ q <= Len(s) + 1 /\ (q <= Len(s) => q \in stops)
    BY <1>1, UntilFinds
  <1> HIDE DEF q
  <1>4. TokenOK(s, Name(s, p), p) /\ Name(s, p).kind = "word" /\ Name(s, p).pos = q
    BY <1>2, <1>3 DEF TokenOK, TokensOf, Token, TokenKinds
  <1>5. s[p] \notin C => q > p
    BY <1>1, <1>3
  <1> QED
    BY <1>4, <1>5 DEF C

\* lexer_get_number
LEMMA Numbers ==
  ASSUME NEW s \in Seq(Chars), NEW p \in 1..Len(s), s[p] \in NumberStarts
  PROVE  TokenOK(s, Number(s, p), p) /\ Number(s, p).kind = "word" /\ Number(s, p).pos > p
  <1> DEFINE stops == {q \in p..Len(s) :
                         \/ s[q] \notin Digits \cup Exponents \cup Signs \cup {"."}
                         \/ s[q] \in Signs /\ s[q - 1] \notin Exponents}
             q == Until(s, p, stops)
             to == IF s[q - 1] \in Signs THEN q - 1 ELSE q
  <1>1. stops \in SUBSET (1..Len(s)) /\ p \notin stops /\ s[p] \notin Signs
    BY DEF NumberStarts, Digits, Signs
  <1>2. Number(s, p) = Token("word", p, to, to)
    BY DEF Number, NumberEnd
  <1> HIDE DEF stops
  <1>3. q \in Nat /\ q >= p /\ q <= Len(s) + 1 /\ (q <= Len(s) => q \in stops)
    BY <1>1, UntilFinds
  <1> HIDE DEF q
  <1>4. q > p
    BY <1>1, <1>3
  <1>5. to \in Nat /\ to > p /\ to <= Len(s) + 1
    BY <1>1, <1>3, <1>4
  <1> HIDE DEF to
  <1> QED
    BY <1>2, <1>5 DEF TokenOK, TokensOf, Token, TokenKinds

\* get_lit_token
LEMMA Literals ==
  ASSUME NEW s \in Seq(Chars), NEW p \in Nat, 1 <= p, p <= Len(s) + 3
  PROVE  /\ TokenOK(s, Literal(s, p), p) /\ Literal(s, p).kind \in {"word", "quoted"}
         /\ p <= Len(s) /\ s[p] \notin Blank \cup (Special \ {Quote, "'"}) \cup BinopSymbs
              => Literal(s, p).pos > p
  <1>1. CASE p > Len(s)
    <2>1. Literal(s, p) = Token("word", p, p, p)
      BY <1>1 DEF Literal
    <2> QED
      BY <1>1, <2>1 DEF TokenOK, TokensOf, Token, TokenKinds
  <1>2. CASE p <= Len(s) /\ s[p] \in NumberStarts
    <2>0. s[p] \notin {Quote, "'"}
      BY <1>2, Zenon DEF NumberStarts, Digits, Quote
    <2>1. Literal(s, p) = Number(s, p)
      BY <1>2, <2>0 DEF Literal
    <2> QED
      BY <1>2, <2>1, Numbers
  <1>3. CASE p <= Len(s) /\ s[p] \in {Quote, "'"} /\ s[p] \notin NumberStarts
    <2> DEFINE q == QuoteEnd(s, p + 1, s[p])
    <2>1. Literal(s, p) = Token("quoted", p + 1, q, q + 1)
      BY <1>3 DEF Literal, Quoted
    <2>2. q \in (p + 1)..(Len(s) + 2) /\ (q > Len(s) + 1 => Unclosed(s))
      BY <1>3, QuotesEnd
    <2> HIDE DEF q
    <2> QED
      BY <1>3, <2>1, <2>2 DEF TokenOK, TokensOf, Token, TokenKinds
  <1>4. CASE p <= Len(s) /\ s[p] \notin {Quote, "'"} /\ s[p] \notin NumberStarts
    <2>1. Literal(s, p) = Name(s, p)
      BY <1>4 DEF Literal
    <2> QED
      BY <1>4, <2>1, Names
  <1> QED
    BY <1>1, <1>2, <1>3, <1>4

\* get_token, get_plus_token .. get_or_token
LEMMA Operators ==
  ASSUME NEW s \in Seq(Chars), NEW p \in 1..Len(s)
  PROVE  /\ TokenOK(s, Operator(s, p), p) /\ Operator(s, p).kind \in {"op", "LBRACE", "RBRACE"}
         /\ Operator(s, p).from = p
         /\ \/ Operator(s, p).to > p /\ Operator(s, p).pos > p
            \/ /\ Operator(s, p).to = p /\ Operator(s, p).pos = p
               /\ s[p] \notin (Special \ {Quote, "'"}) \cup BinopSymbs
  <1> DEFINE w == Width(s, p)
             v == Counted(s, p)
             k == CASE s[p] = LBrace -> "LBRACE" [] s[p] = RBrace -> "RBRACE" [] OTHER -> "op"
  <1>1. Operator(s, p) = Token(k, p, p + v, p + w)
    BY DEF Operator
  <1>2. \A i \in Nat : Pair(s, i) => i < Len(s)
    BY DEF Pair
  <1>3. w \in 0..3 /\ p + w <= Len(s) + 1
    BY <1>2 DEF Width
  <1>4. w = 0 => s[p] \notin (Special \ {Quote, "'"}) \cup BinopSymbs
    BY DEF Width
  <1>5. v \in 0..3 /\ v <= w /\ (w > 0 => v > 0)
    <2>1. s[p] = ">" => w > 0
      BY <1>3, <1>4 DEF BinopSymbs
    <2> QED
      BY <1>3, <2>1 DEF Counted
  <1>6. s[p] \in {LBrace, RBrace} => w = 1
    <2>1. s[p] \in {LBrace, RBrace} => ~Pair(s, p)
      BY Zenon DEF Pair, Pairs, LBrace, RBrace
    <2>2. s[p] \in {LBrace, RBrace} => s[p] \in Special \ {Quote, "'"}
      BY Zenon DEF Special, LBrace, RBrace, Quote
    <2> QED
      BY <2>1, <2>2 DEF Width
  <1>7. k \in {"op", "LBRACE", "RBRACE"} /\ (k = "LBRACE" => s[p] = LBrace)
        /\ (k = "RBRACE" => s[p] = RBrace)
    OBVIOUS
  <1> HIDE DEF k, w, v
  <1>8. TokenOK(s, Token(k, p, p + v, p + w), p)
    BY <1>3, <1>5, <1>6, <1>7 DEF TokenOK, TokensOf, Token, TokenKinds
  <1> QED
    BY <1>1, <1>3, <1>4, <1>5, <1>7, <1>8 DEF Token

-----------------------------------------------------------------------------
(* Comments and lexer_next *)

\* skip_comment, skip_multi_line_comment: a comment is not empty, and ends with the text.
LEMMA CommentEnds ==
  ASSUME NEW s \in Seq(Chars), NEW p \in 1..Len(s)
  PROVE  CommentEnd(s, p) \in (p + 1)..(Len(s) + 1)
  <1> DEFINE line == Until(s, p + 1, Where(s, {"\n"}))
             tilde == Until(s, p + 2, Where(s, {"~"}))
  <1>1. Where(s, {"\n"}) \in SUBSET (1..Len(s)) /\ Where(s, {"~"}) \in SUBSET (1..Len(s))
    BY DEF Where
  <1>2. line \in (p + 1)..(Len(s) + 1)
    BY <1>1, UntilFinds
  <1>3. p < Len(s) => tilde \in (p + 2)..(Len(s) + 1)
    BY <1>1, UntilFinds
  <1> HIDE DEF line, tilde
  <1>4. CASE p = Len(s) \/ s[p + 1] # "~"
    <2>1. CommentEnd(s, p) = line
      BY <1>4 DEF CommentEnd, line
    <2> QED
      BY <1>2, <2>1
  <1>5. CASE p < Len(s) /\ s[p + 1] = "~"
    <2>1. CommentEnd(s, p) = IF tilde > Len(s) THEN tilde
                             ELSE IF tilde < Len(s) /\ s[tilde + 1] = "#" THEN tilde + 2
                             ELSE tilde + 1
      BY <1>5 DEF CommentEnd, tilde
    <2> QED
      BY <1>3, <1>5, <2>1
  <1> QED
    BY <1>4, <1>5

LEMMA CommentsEnds ==
  ASSUME NEW s \in Seq(Chars), NEW p \in 1..(Len(s) + 1)
  PROVE  /\ CommentsEnd(s, p) \in p..(Len(s) + 1)
         /\ p <= Len(s) /\ s[p] = "#" => CommentsEnd(s, p) > p
  <1> DEFINE n == Len(s) + 1
             step == [q \in p..n |->
                        IF q <= Len(s) /\ s[q] = "#" THEN CommentEnd(s, q) ELSE q]
             e == Settle(step, p)
  <1>1. n \in Int /\ p \in Int /\ p \in p..n /\ n = Len(s) + 1
    OBVIOUS
  <1>2. CommentsEnd(s, p) = e
    BY DEF CommentsEnd
  <1> HIDE DEF n
  <1>3. ASSUME NEW q \in p..n PROVE step[q] \in q..n /\ (q <= Len(s) /\ s[q] = "#" => step[q] > q)
    BY <1>1, <1>3, CommentEnds
  <1>4. step \in [p..n -> Int] /\ \A q \in p..n : q <= step[q] /\ step[q] <= n
    BY <1>3
  <1> HIDE DEF step
  <1>5. e \in p..n /\ step[e] = e
    BY <1>1, <1>4, Settles, SMTT(30)
  <1>6. p <= Len(s) /\ s[p] = "#" => e > p
    BY <1>1, <1>3, <1>5
  <1> QED
    BY <1>1, <1>2, <1>5, <1>6

\* What lexer_next looks for a second time is a token of the same place or behind it.
LEMMA OrLiterals ==
  ASSUME NEW s \in Seq(Chars), NEW p \in Nat, p >= 1, NEW t, TokenOK(s, t, p)
  PROVE  /\ TokenOK(s, OrLiteral(s, t), p) /\ OrLiteral(s, t).pos >= t.pos
         /\ OrLiteral(s, t) = t \/ OrLiteral(s, t) = Literal(s, t.pos)
         /\ OrLiteral(s, t).kind = "EOF" => OrLiteral(s, t) = t
  <1>1. CASE t.from = t.to /\ t.kind # "EOF"
    <2> DEFINE q == t.pos
               u == Literal(s, q)
    <2>1. OrLiteral(s, t) = u
      BY <1>1 DEF OrLiteral
    <2>2. q \in Nat /\ p <= q /\ q <= Len(s) + 3
      BY DEF TokenOK, TokensOf
    <2> HIDE DEF q
    <2>3. TokenOK(s, u, q) /\ u.kind \in {"word", "quoted"}
      BY <2>2, Literals
    <2> HIDE DEF u
    <2>4. TokenOK(s, u, p) /\ u.pos >= q
      BY <2>2, <2>3 DEF TokenOK, TokensOf
    <2> QED
      BY <2>1, <2>3, <2>4 DEF q, u
  <1>2. CASE ~(t.from = t.to /\ t.kind # "EOF")
    <2>1. OrLiteral(s, t) = t
      BY <1>2 DEF OrLiteral
    <2> QED
      BY <2>1 DEF TokenOK, TokensOf
  <1> QED
    BY <1>1, <1>2

Fetched(s) == [tok : TokensOf(s), skipFrom : 1..(Len(s) + 3), skipTo : 1..(Len(s) + 3)]

\* What lexer_next finds from position p on: a token that does not begin before what
\* is skipped, and moves the lexer on unless it is the end.
FetchOK(s, r, p) ==
  /\ r \in Fetched(s) /\ TokenOK(s, r.tok, p)
  /\ p <= r.skipFrom /\ r.skipFrom <= r.skipTo
  /\ r.skipTo <= Len(s) + 1 \/ r.skipTo = r.skipFrom
  /\ r.tok.kind = "EOF" \/ r.tok.pos > p

Skipping(s, p) == Until(s, p, Where(s, Chars \ Blank))
Skipped3(t, p, b) == [tok |-> t, skipFrom |-> p, skipTo |-> b]

\* Where skip_whitespaces stops, and what stands there.
LEMMA Skippings ==
  ASSUME NEW s \in Seq(Chars), NEW p \in 1..(Len(s) + 3)
  PROVE  /\ Skipping(s, p) \in p..(Len(s) + 3)
         /\ Skipping(s, p) <= Len(s) + 1 \/ Skipping(s, p) = p
         /\ Skipping(s, p) <= Len(s) => s[Skipping(s, p)] \notin Blank
  <1> DEFINE stops == Where(s, Chars \ Blank)
             b == Until(s, p, stops)
  <1>1. stops \in SUBSET (1..Len(s)) /\ \A i \in stops : s[i] \notin Blank
    BY DEF Where
  <1> HIDE DEF stops
  <1>2. /\ b \in Nat /\ b >= p
        /\ p > Len(s) => b = p
        /\ p <= Len(s) + 1 => b <= Len(s) + 1
        /\ b <= Len(s) => b \in stops
    BY <1>1, UntilFinds
  <1>3. b \in p..(Len(s) + 3) /\ (b <= Len(s) + 1 \/ b = p) /\ (b <= Len(s) => s[b] \notin Blank)
    BY <1>1, <1>2
  <1> QED
    BY <1>3 DEF Skipping, stops

\* The token at a position where no comment begins.
LEMMA TokenAt ==
  ASSUME NEW s \in Seq(Chars), NEW b \in 1..Len(s), s[b] \notin Blank
  PROVE  /\ TokenOK(s, OrLiteral(s, Operator(s, b)), b)
         /\ OrLiteral(s, Operator(s, b)).pos > b
  <1> DEFINE t == Operator(s, b)
  <1>1. /\ TokenOK(s, t, b) /\ t.kind \in {"op", "LBRACE", "RBRACE"} /\ t.from = b
        /\ \/ t.to > b /\ t.pos > b
           \/ /\ t.to = b /\ t.pos = b
              /\ s[b] \notin (Special \ {Quote, "'"}) \cup BinopSymbs
    BY Operators
  <1> HIDE DEF t
  <1>2. TokenOK(s, OrLiteral(s, t), b) /\ OrLiteral(s, t).pos >= t.pos
    BY <1>1, OrLiterals
  <1>3. CASE t.to > b
    <2>1. b \in Nat /\ t.pos \in Nat /\ t.pos > b /\ OrLiteral(s, t).pos \in Nat
      BY <1>1, <1>2, <1>3 DEF TokenOK, TokensOf
    <2> QED
      BY <1>2, <2>1 DEF t
  <1>4. CASE ~(t.to > b)
    <2>1. t.to = b /\ t.pos = b /\ s[b] \notin (Special \ {Quote, "'"}) \cup BinopSymbs
      BY <1>1, <1>4
    <2>2. OrLiteral(s, t) = Literal(s, b)
      BY <1>1, <2>1 DEF OrLiteral
    <2>3. Literal(s, b).pos > b
      BY <2>1, Literals
    <2> QED
      BY <1>2, <2>2, <2>3 DEF t
  <1> QED
    BY <1>2, <1>3, <1>4 DEF t

\* lexer_next
LEMMA NextFinds ==
  ASSUME NEW s \in Seq(Chars), NEW p \in 1..(Len(s) + 3)
  PROVE  /\ FetchOK(s, Next(s, p), p)
         /\ Skipping(s, p) > Len(s) =>
              Next(s, p) = Skipped3(Token("EOF", Skipping(s, p), Skipping(s, p), Skipping(s, p)),
                                    p, Skipping(s, p))
         /\ Skipping(s, p) <= Len(s) /\ s[Skipping(s, p)] # "#" =>
              Next(s, p) = Skipped3(OrLiteral(s, Operator(s, Skipping(s, p))),
                                    p, Skipping(s, p))
  <1> DEFINE n == Len(s) + 3
             V == Fetched(s)
             R(q, f) == LET b == Skipping(s, q) IN
                        IF b > Len(s) THEN Skipped3(Token("EOF", b, b, b), q, b)
                        ELSE IF s[b] = "#"
                             THEN [f[CommentsEnd(s, b)] EXCEPT !.tok = OrLiteral(s, @)]
                             ELSE Skipped3(OrLiteral(s, Operator(s, b)), q, b)
             F(f) == f = [q \in p..n |->
                LET b == Until(s, q, Where(s, Chars \ Blank))
                    after == f[CommentsEnd(s, b)]
                    skipped(t) == [tok |-> t, skipFrom |-> q, skipTo |-> b]
                IN  CASE b > Len(s) -> skipped(Token("EOF", b, b, b))
                      [] b <= Len(s) /\ s[b] = "#" -> [after EXCEPT !.tok = OrLiteral(s, @)]
                      [] OTHER -> skipped(OrLiteral(s, Operator(s, b)))]
             next == CHOOSE f : F(f)
  <1>1. p \in Int /\ n \in Int /\ n = Len(s) + 3 /\ p >= 1 /\ p \in p..n /\ Len(s) \in Nat
    OBVIOUS
  <1>2. Next(s, p) = next[p]
    BY DEF Next
  <1>3. \A f : F(f) <=> f = [q \in p..n |-> R(q, f)]
    <2>1. ASSUME NEW f, NEW q \in p..n
          PROVE  R(q, f) = LET b == Until(s, q, Where(s, Chars \ Blank))
                               after == f[CommentsEnd(s, b)]
                               skipped(t) == [tok |-> t, skipFrom |-> q, skipTo |-> b]
                           IN  CASE b > Len(s) -> skipped(Token("EOF", b, b, b))
                                 [] b <= Len(s) /\ s[b] = "#" ->
                                      [after EXCEPT !.tok = OrLiteral(s, @)]
                                 [] OTHER -> skipped(OrLiteral(s, Operator(s, b)))
      <3>1. Skipping(s, q) \in Int
        BY <2>1, Skippings, <1>1
      <3> QED
        BY <1>1, <3>1 DEF Skipping, Skipped3
    <2> QED
      BY <2>1, ZenonT(30)
  <1> HIDE DEF n, F
  <1>4. ASSUME NEW q \in p..n
        PROVE  LET b == Skipping(s, q) IN
               /\ b \in q..n /\ (b <= Len(s) + 1 \/ b = q)
               /\ b <= Len(s) /\ s[b] = "#" => CommentsEnd(s, b) \in (q + 1)..n
    <2> DEFINE b == Skipping(s, q)
    <2>1. b \in q..n /\ (b <= Len(s) + 1 \/ b = q)
      BY <1>1, Skippings
    <2> HIDE DEF b
    <2>2. b <= Len(s) /\ s[b] = "#" => CommentsEnd(s, b) \in (b + 1)..(Len(s) + 1)
      BY <1>1, <2>1, CommentsEnds
    <2> QED
      BY <1>1, <2>1, <2>2 DEF b
  <1>5. ASSUME NEW q \in p..n, NEW b, b = Skipping(s, q), b > Len(s)
        PROVE  FetchOK(s, Skipped3(Token("EOF", b, b, b), q, b), q)
    BY <1>1, <1>4, <1>5 DEF FetchOK, Fetched, Skipped3, Token, TokenOK, TokensOf, TokenKinds
  <1>6. ASSUME NEW q \in p..n, NEW b, b = Skipping(s, q), b <= Len(s), s[b] # "#"
        PROVE  FetchOK(s, Skipped3(OrLiteral(s, Operator(s, b)), q, b), q)
    <2> DEFINE t == OrLiteral(s, Operator(s, b))
    <2>1. b \in q..n /\ b \in 1..Len(s) /\ s[b] \notin Blank
      BY <1>1, <1>4, <1>6, Skippings
    <2>2. TokenOK(s, t, b) /\ t.pos > b
      BY <2>1, TokenAt
    <2> HIDE DEF t
    <2>3. TokenOK(s, t, q) /\ t.pos > q /\ t \in TokensOf(s)
      BY <1>1, <2>1, <2>2 DEF TokenOK, TokensOf
    <2>4. Skipped3(t, q, b) \in Fetched(s)
      BY <1>1, <2>1, <2>3 DEF Fetched, Skipped3
    <2> QED
      BY <1>1, <2>1, <2>3, <2>4 DEF FetchOK, Skipped3, t
  <1>7. ASSUME NEW r \in V
        PROVE  [r EXCEPT !.tok = OrLiteral(s, @)] \in V
    <2>1. r.tok \in TokensOf(s)
      BY DEF Fetched
    <2>2. OrLiteral(s, r.tok) \in TokensOf(s)
      <3>1. r.tok.pos \in Nat /\ 1 <= r.tok.pos /\ r.tok.pos <= Len(s) + 3
        BY <2>1 DEF TokensOf
      <3>2. Literal(s, r.tok.pos) \in TokensOf(s)
        BY <3>1, Literals DEF TokenOK
      <3> QED
        BY <2>1, <3>2 DEF OrLiteral
    <2> QED
      BY <2>2 DEF Fetched
  <1>8. ASSUME NEW q \in p..n, NEW f \in [p..n -> V] PROVE R(q, f) \in V
    <2> DEFINE b == Skipping(s, q)
    <2>1. b \in q..n
      BY <1>4
    <2>2. CASE b > Len(s)
      <3>1. R(q, f) = Skipped3(Token("EOF", b, b, b), q, b)
        BY <2>2
      <3> QED
        BY <1>5, <2>2, <3>1 DEF FetchOK
    <2>3. CASE b <= Len(s) /\ s[b] = "#"
      <3>1. CommentsEnd(s, b) \in p..n
        BY <1>1, <1>4, <2>3
      <3>2. R(q, f) = [f[CommentsEnd(s, b)] EXCEPT !.tok = OrLiteral(s, @)]
        BY <1>1, <2>1, <2>3
      <3> QED
        BY <1>7, <3>1, <3>2
    <2>4. CASE b <= Len(s) /\ s[b] # "#"
      <3>1. R(q, f) = Skipped3(OrLiteral(s, Operator(s, b)), q, b)
        BY <1>1, <2>1, <2>4
      <3> QED
        BY <1>6, <2>4, <3>1 DEF FetchOK
    <2> QED
      BY <1>1, <2>1, <2>2, <2>3, <2>4
  <1>9. \E f : F(f)
    <2> DEFINE G == [q \in p..n |-> [f \in [p..n -> V] |-> R(q, f)]]
    <2>1. G \in [p..n -> [[p..n -> V] -> V]]
      BY <1>8
    <2>2. \A q \in p..n : \A f \in [p..n -> V] : G[q][f] = R(q, f)
      OBVIOUS
    <2>3. ASSUME NEW q \in p..n, NEW f \in [p..n -> V], NEW g \in [p..n -> V],
                 \A r \in p..n : r > q => f[r] = g[r]
          PROVE  R(q, f) = R(q, g)
      <3> DEFINE b == Skipping(s, q)
      <3>1. b \in q..n /\ (b <= Len(s) /\ s[b] = "#" => CommentsEnd(s, b) \in (q + 1)..n)
        BY <1>4
      <3>2. CASE b <= Len(s) /\ s[b] = "#"
        <4>1. f[CommentsEnd(s, b)] = g[CommentsEnd(s, b)]
          BY <1>1, <2>3, <3>1, <3>2
        <4> QED
          BY <4>1
      <3>3. CASE ~(b <= Len(s) /\ s[b] = "#")
        BY <1>1, <3>1, <3>3
      <3> QED
        BY <3>2, <3>3
    <2>4. p \in p..n /\ V # {}
      <3>1. \E b : b = Skipping(s, p) /\ (b > Len(s) \/ b <= Len(s))
        BY <1>1, <1>4
      <3>2. Fetched(s) # {}
        <4>1. Token("EOF", 1, 1, 1) \in TokensOf(s)
          BY DEF Token, TokensOf, TokenKinds
        <4>2. [tok |-> Token("EOF", 1, 1, 1), skipFrom |-> 1, skipTo |-> 1] \in Fetched(s)
          BY <4>1 DEF Fetched
        <4> QED
          BY <4>2
      <3> QED
        BY <1>1, <3>2
    <2> HIDE DEF G, R, V
    <2>5. Descends(G, p, n, V)
      <3>1. ASSUME NEW q \in p..n, NEW f \in [p..n -> V], NEW g \in [p..n -> V],
                   \A r \in p..n : r > q => f[r] = g[r]
            PROVE  G[q][f] = G[q][g]
        <4>1. R(q, f) = R(q, g)
          BY <2>3, <3>1
        <4>2. G[q][f] = R(q, f) /\ G[q][g] = R(q, g)
          BY <2>2
        <4> QED
          BY <4>1, <4>2
      <3> QED
        BY <2>1, <2>4, <3>1 DEF Descends
    <2>6. PICK f \in [p..n -> V] : \A q \in p..n : f[q] = G[q][f]
      BY <1>1, <2>5, Descent
    <2>7. f = [q \in p..n |-> R(q, f)]
      BY <2>2, <2>6
    <2> QED
      BY <1>3, <2>7
  <1>10. F(next)
    BY <1>9
  <1> HIDE DEF next
  <1>11. next = [q \in p..n |-> R(q, next)]
    BY <1>3, <1>10
  <1> HIDE DEF R
  <1>12. \A q \in p..n : next[q] = R(q, next)
    BY <1>11
  <1> DEFINE S == {q \in p..n : FetchOK(s, next[q], q)}
  <1>13. ASSUME NEW q \in p..n, \A r \in p..n : r > q => r \in S PROVE q \in S
    <2> DEFINE b == Skipping(s, q)
    <2>1. b \in q..n
      BY <1>4
    <2>2. CASE b > Len(s)
      <3>1. next[q] = Skipped3(Token("EOF", b, b, b), q, b)
        BY <1>12, <2>2 DEF R
      <3> QED
        BY <1>5, <2>2, <3>1
    <2>3. CASE b <= Len(s) /\ s[b] = "#"
      <3> DEFINE e == CommentsEnd(s, b)
                 r == next[e]
                 t == OrLiteral(s, r.tok)
      <3>1. e \in p..n /\ e > q
        BY <1>1, <1>4, <2>3
      <3>2. next[q] = [r EXCEPT !.tok = t]
        BY <1>1, <1>12, <2>1, <2>3 DEF R
      <3>3. FetchOK(s, r, e)
        BY <1>13, <3>1
      <3> HIDE DEF e, b
      <3> HIDE DEF r
      <3>4. TokenOK(s, r.tok, e) /\ r.tok \in TokensOf(s) /\ r \in Fetched(s)
        BY <3>3 DEF FetchOK, TokenOK
      <3>5. TokenOK(s, t, e) /\ t.pos >= r.tok.pos /\ (r.tok.kind = "EOF" => t = r.tok)
        <4>1. e \in Nat /\ e >= 1
          BY <1>1, <3>1
        <4>2. TokenOK(s, t, e) /\ t.pos >= r.tok.pos
          BY <3>4, <4>1, OrLiterals
        <4>3. r.tok.kind = "EOF" => t = r.tok
          BY DEF OrLiteral
        <4> QED
          BY <4>2, <4>3
      <3> HIDE DEF t
      <3>6. TokenOK(s, t, q) /\ t \in TokensOf(s)
        BY <1>1, <3>1, <3>5 DEF TokenOK, TokensOf
      <3>7. t.kind = "EOF" \/ t.pos > q
        BY <1>1, <3>1, <3>3, <3>4, <3>5, <3>6 DEF FetchOK, TokensOf
      <3>8. next[q] \in Fetched(s) /\ next[q].tok = t
            /\ next[q].skipFrom = r.skipFrom /\ next[q].skipTo = r.skipTo
        BY <3>2, <3>4, <3>6 DEF Fetched
      <3> QED
        BY <1>1, <3>1, <3>3, <3>6, <3>7, <3>8 DEF FetchOK, Fetched
    <2>4. CASE b <= Len(s) /\ s[b] # "#"
      <3>1. next[q] = Skipped3(OrLiteral(s, Operator(s, b)), q, b)
        <4>1. next[q] = R(q, next) /\ ~(b > Len(s)) /\ ~(s[b] = "#")
          BY <1>1, <1>12, <2>1, <2>4
        <4> QED
          BY <4>1 DEF R
      <3> QED
        BY <1>6, <2>4, <3>1
    <2> QED
      BY <1>1, <2>1, <2>2, <2>3, <2>4
  <1>14. S = p..n
    <2>1. S \in SUBSET (p..n)
      OBVIOUS
    <2> HIDE DEF S
    <2> QED
      BY <1>1, <1>13, <2>1, DescentHolds
  <1>15. FetchOK(s, Next(s, p), p)
    BY <1>1, <1>2, <1>14
  <1>16. Next(s, p) = R(p, next)
    BY <1>1, <1>2, <1>12
  <1>17. Skipping(s, p) \in p..n
    BY <1>1, <1>4
  <1> QED
    BY <1>1, <1>15, <1>16, <1>17 DEF R

-----------------------------------------------------------------------------
(* The pieces of the result *)

\* The arguments among the pieces are the first n, in their order.
ArgsTo(o, n) ==
  LET args == {i \in DOMAIN o : o[i].what = "arg"}
  IN  /\ {o[i].arg : i \in args} = 1..n
      /\ \A i, j \in args : i < j => o[i].arg < o[j].arg

LEMMA Copies ==
  ASSUME NEW a \in Nat, NEW b \in Nat, a >= 1, a <= b, b <= MaxText + 2
  PROVE  /\ Copy(a, b) \in Seq(Pieces) /\ Len(Copy(a, b)) = b - a
         /\ \A i \in 1..(b - a) : Copy(a, b)[i] = Char(a + i - 1)
         /\ \A i \in 1..Len(Copy(a, b)) : Copy(a, b)[i].what = "char"
  <1> DEFINE c == Copy(a, b)
  <1>1. c = [i \in 1..(b - a) |-> Char(a + i - 1)] /\ b - a \in Nat
    BY DEF Copy
  <1> HIDE DEF c
  <1>2. ASSUME NEW i \in 1..(b - a)
        PROVE  Char(a + i - 1) \in Pieces /\ Char(a + i - 1).what = "char"
    <2>1. a + i - 1 \in 1..(MaxText + 1) /\ 0 \in 0..MaxArgs
      BY BoundsAssumption
    <2> QED
      BY <2>1 DEF Char, Pieces
  <1>3. c \in Seq(Pieces) /\ Len(c) = b - a
    <2>1. c \in [1..(b - a) -> Pieces]
      BY <1>1, <1>2
    <2>2. \E k \in Nat : k = b - a /\ c \in [1..k -> Pieces] /\ DOMAIN c = 1..k
      BY <1>1, <2>1
    <2>3. c \in Seq(Pieces)
      BY <2>2, SeqDef
    <2> QED
      BY <2>2, <2>3, LenProperties
  <1>4. \A i \in 1..(b - a) : c[i] = Char(a + i - 1)
    BY <1>1
  <1>5. \A i \in 1..Len(c) : c[i].what = "char"
    BY <1>2, <1>3, <1>4
  <1> QED
    BY <1>3, <1>4, <1>5 DEF c

LEMMA CharsKeepArgs ==
  ASSUME NEW o \in Seq(Pieces), NEW c \in Seq(Pieces), NEW n \in Nat, ArgsTo(o, n),
         \A i \in 1..Len(c) : c[i].what = "char"
  PROVE  o \o c \in Seq(Pieces) /\ ArgsTo(o \o c, n)
  <1> DEFINE u == o \o c
             args == {i \in DOMAIN o : o[i].what = "arg"}
             new == {i \in DOMAIN u : u[i].what = "arg"}
  <1>1. /\ u \in Seq(Pieces) /\ Len(u) = Len(o) + Len(c)
        /\ \A i \in 1..Len(o) : u[i] = o[i]
        /\ \A i \in 1..Len(u) : i > Len(o) => u[i] = c[i - Len(o)]
    BY ConcatProperties
  <1>2. DOMAIN u = 1..Len(u) /\ DOMAIN o = 1..Len(o) /\ Len(o) \in Nat /\ Len(c) \in Nat
    BY <1>1
  <1> HIDE DEF u
  <1>3. \A i \in 1..Len(u) : i > Len(o) => u[i].what # "arg"
    <2>1. \A i \in 1..Len(u) : i > Len(o) => i - Len(o) \in 1..Len(c)
      BY <1>1, <1>2
    <2> QED
      BY <1>1, <2>1
  <1>4. new = args /\ \A i \in args : u[i] = o[i]
    BY <1>1, <1>2, <1>3
  <1> HIDE DEF new, args
  <1>5. {u[i].arg : i \in new} = {o[i].arg : i \in args}
    BY <1>4
  <1>6. {o[i].arg : i \in args} = 1..n /\ \A i, j \in args : i < j => o[i].arg < o[j].arg
    BY DEF ArgsTo, args
  <1>7. \A i, j \in new : i < j => u[i].arg < u[j].arg
    BY <1>4, <1>6
  <1> QED
    BY <1>1, <1>5, <1>6, <1>7 DEF ArgsTo, u, new

LEMMA ArgsAppended ==
  ASSUME NEW o \in Seq(Pieces), NEW n \in Nat, ArgsTo(o, n), NEW x \in Pieces, NEW m \in Nat,
         \/ x.what = "arg" /\ x.arg = n + 1 /\ m = n + 1
         \/ x.what # "arg" /\ m = n
  PROVE  Append(o, x) \in Seq(Pieces) /\ ArgsTo(Append(o, x), m)
  <1> DEFINE u == Append(o, x)
             args == {i \in DOMAIN o : o[i].what = "arg"}
             new == {i \in DOMAIN u : u[i].what = "arg"}
             k == Len(o) + 1
  <1>1. /\ u \in Seq(Pieces) /\ Len(u) = k /\ u[k] = x
        /\ \A i \in 1..Len(o) : u[i] = o[i]
    BY AppendProperties
  <1>2. DOMAIN u = 1..k /\ DOMAIN o = 1..Len(o) /\ Len(o) \in Nat
    BY <1>1
  <1> HIDE DEF u
  <1>3. {o[i].arg : i \in args} = 1..n /\ \A i, j \in args : i < j => o[i].arg < o[j].arg
    BY DEF ArgsTo
  <1>4. /\ \A i \in args : i \in 1..Len(o) /\ i < k /\ i \in DOMAIN u /\ u[i] = o[i]
        /\ k \notin args /\ k \in Nat
    BY <1>1, <1>2
  <1>5. \A i \in args : o[i].arg \in 1..n
    BY <1>3
  <1>6. CASE x.what = "arg" /\ x.arg = n + 1 /\ m = n + 1
    <2>1. new = args \cup {k}
      BY <1>1, <1>2, <1>4, <1>6
    <2> HIDE DEF new, args, k
    <2>2. {u[i].arg : i \in new} = {o[i].arg : i \in args} \cup {n + 1}
      BY <1>1, <1>4, <1>6, <2>1
    <2>3. {u[i].arg : i \in new} = 1..m
      <3>1. (1..n) \cup {n + 1} = 1..(n + 1)
        OBVIOUS
      <3> QED
        BY <1>3, <1>6, <2>2, <3>1
    <2>4. ASSUME NEW i \in new, NEW j \in new, i < j PROVE u[i].arg < u[j].arg
      <3>1. i \in args
        BY <1>4, <2>1, <2>4
      <3>2. CASE j = k
        BY <1>1, <1>4, <1>5, <1>6, <3>1, <3>2
      <3>3. CASE j \in args
        BY <1>3, <1>4, <2>4, <3>1, <3>3
      <3> QED
        BY <2>1, <3>2, <3>3
    <2> QED
      BY <1>1, <2>3, <2>4 DEF ArgsTo, u, new
  <1>7. CASE x.what # "arg" /\ m = n
    <2>1. new = args
      BY <1>1, <1>2, <1>4, <1>7
    <2> HIDE DEF new, args, k
    <2>2. {u[i].arg : i \in new} = {o[i].arg : i \in args}
      BY <1>4, <2>1
    <2>3. \A i, j \in new : i < j => u[i].arg < u[j].arg
      BY <1>3, <1>4, <2>1
    <2> QED
      BY <1>1, <1>3, <1>7, <2>2, <2>3 DEF ArgsTo, u, new
  <1> QED
    BY <1>6, <1>7

-----------------------------------------------------------------------------
(* format_str *)

\* The text and its arguments, and where the lexer stands in it.
Reading ==
  /\ text \in Seq(Chars) /\ Len(text) <= MaxText
  /\ count \in 0..MaxArgs /\ used \in 0..count
  /\ l \in Fetched(text) /\ TokenOK(text, l.tok, 1)
  /\ l.skipFrom <= l.skipTo /\ (l.skipTo <= Len(text) + 1 \/ l.skipTo = l.skipFrom)

\* Where format_str stands: every brace that is open was a token before this one.
Standing ==
  /\ pc \in Places /\ (pc = "done" => used = count)
  /\ depth \in 0..MaxText /\ depth < l.tok.from
  /\ brace \in 0..MaxText /\ (pc \in {"field", "expr"} => brace > 0)

Rendered == out \in Seq(Pieces) /\ ArgsTo(out, used)

IInv == Reading /\ Standing /\ Rendered

LEMMA InitIInv == Init => IInv
  <1> SUFFICES ASSUME Init PROVE IInv
    OBVIOUS
  <1>1. text \in Seq(Chars) /\ Len(text) <= MaxText
    <2>1. PICK chars \in Vocabularies : text \in Texts(chars)
      BY DEF Init
    <2>2. PICK n \in 0..MaxText : text \in [1..n -> chars]
      BY <2>1 DEF Texts
    <2>3. chars \in SUBSET Chars
      BY VocabulariesAssumption
    <2>4. n \in Nat /\ n <= MaxText
      BY BoundsAssumption
    <2>5. text \in [1..n -> Chars]
      BY <2>2, <2>3
    <2> QED
      BY <2>4, <2>5, SeqDef
  <1>2. 1 \in 1..(Len(text) + 3)
    BY <1>1
  <1>3. FetchOK(text, l, 1)
    BY <1>1, <1>2, NextFinds DEF Init
  <1>4. Reading
    BY <1>1, <1>3, BoundsAssumption DEF Init, Reading, FetchOK
  <1>5. Standing
    <2>1. l.tok.from \in Nat /\ l.tok.from >= 1
      BY <1>3 DEF FetchOK, Fetched, TokensOf
    <2> QED
      BY <2>1, BoundsAssumption DEF Init, Standing, Places
  <1>6. Rendered
    <2>1. out \in Seq(Pieces) /\ DOMAIN out = {} /\ used = 0
      BY DEF Init
    <2> QED
      BY <2>1 DEF Rendered, ArgsTo
  <1> QED
    BY <1>4, <1>5, <1>6 DEF IInv

\* lexer_next, called where the lexer stands: the token behind the current one.
LEMMA Advanced ==
  ASSUME Reading, Advance, text' = text, count' = count, used' \in 0..count
  PROVE  /\ Reading' /\ FetchOK(text, l', l.tok.pos)
         /\ l.tok.from \in Nat /\ l.tok.pos \in Nat /\ l'.tok.from \in Nat /\ l'.tok.pos \in Nat
         /\ l.tok.from <= l.tok.pos /\ l.tok.pos <= l'.tok.from
         /\ l'.tok.kind = "EOF" \/ l'.tok.pos > l.tok.pos
  <1>1. /\ l.tok.pos \in 1..(Len(text) + 3) /\ l.tok.from \in Nat /\ l.tok.pos \in Nat
        /\ l.tok.from <= l.tok.pos /\ text \in Seq(Chars)
    BY DEF Reading, TokenOK, TokensOf
  <1>2. FetchOK(text, l', l.tok.pos)
    BY <1>1, NextFinds DEF Advance
  <1>3. /\ l'.tok.from \in Nat /\ l'.tok.pos \in Nat /\ l.tok.pos <= l'.tok.from
        /\ TokenOK(text, l'.tok, 1)
    BY <1>1, <1>2 DEF FetchOK, TokenOK, TokensOf
  <1>4. Reading'
    BY <1>2, <1>3 DEF Reading, FetchOK
  <1> QED
    BY <1>1, <1>2, <1>3, <1>4 DEF FetchOK

\* What stands between tokens, and the characters of a token, as pieces.
LEMMA SkippedCopied ==
  ASSUME Reading
  PROVE  Skipped \in Seq(Pieces) /\ \A i \in 1..Len(Skipped) : Skipped[i].what = "char"
  <1> DEFINE a == l.skipFrom
             b == l.skipTo
  <1>1. a \in Nat /\ b \in Nat /\ a >= 1 /\ a <= b /\ (b <= MaxText + 2 \/ a = b)
    BY BoundsAssumption DEF Reading, Fetched
  <1>2. Skipped = Copy(a, b)
    BY DEF Skipped
  <1> HIDE DEF a, b
  <1>3. CASE a = b
    <2>1. Copy(a, b) = <<>>
      BY <1>1, <1>3 DEF Copy
    <2> QED
      BY <1>2, <2>1
  <1>4. CASE b <= MaxText + 2
    BY <1>1, <1>2, <1>4, Copies
  <1> QED
    BY <1>1, <1>3, <1>4

LEMMA TokenCopied ==
  ASSUME Reading
  PROVE  /\ Copy(l.tok.from, l.tok.to) \in Seq(Pieces)
         /\ \A i \in 1..Len(Copy(l.tok.from, l.tok.to)) :
              Copy(l.tok.from, l.tok.to)[i].what = "char"
  <1> DEFINE a == l.tok.from
             b == l.tok.to
  <1>1. a \in Nat /\ b \in Nat /\ a >= 1 /\ a <= b /\ (b <= MaxText + 2 \/ a = b)
    BY BoundsAssumption DEF Reading, TokenOK, TokensOf
  <1> HIDE DEF a, b
  <1>3. CASE a = b
    <2>1. Copy(a, b) = <<>>
      BY <1>1, <1>3 DEF Copy
    <2> QED
      BY <2>1 DEF a, b
  <1>4. CASE b <= MaxText + 2
    BY <1>1, <1>4, Copies DEF a, b
  <1> QED
    BY <1>1, <1>3, <1>4

LEMMA NextIInv == IInv /\ [Step]_vars => IInv'
  <1> SUFFICES ASSUME IInv, [Step]_vars PROVE IInv'
    OBVIOUS
  <1>0. /\ Reading /\ Standing /\ Rendered /\ used \in Nat /\ count \in Nat /\ used <= count
        /\ out \in Seq(Pieces) /\ ArgsTo(out, used) /\ depth \in Nat /\ depth < l.tok.from
        /\ l.tok.from \in Nat /\ l.tok.pos \in Nat
    BY DEF IInv, Reading, Standing, Rendered, TokenOK, TokensOf
  <1>1. CASE TakeToken
    <2>1. /\ Reading' /\ l'.tok.from \in Nat /\ l'.tok.from >= l.tok.from
      <3>1. Advance /\ text' = text /\ count' = count /\ used' \in 0..count
        BY <1>0, <1>1 DEF TakeToken
      <3> QED
        BY <1>0, <3>1, Advanced
    <2>2. Standing'
      BY <1>0, <1>1, <2>1 DEF TakeToken, Standing
    <2>3. Rendered'
      <3> DEFINE a == Skipped
                 b == Copy(l.tok.from, l.tok.to)
      <3>1. a \in Seq(Pieces) /\ \A i \in 1..Len(a) : a[i].what = "char"
        BY <1>0, SkippedCopied
      <3>2. b \in Seq(Pieces) /\ \A i \in 1..Len(b) : b[i].what = "char"
        BY <1>0, TokenCopied
      <3>3. out' = (out \o a) \o b /\ used' = used
        BY <1>1 DEF TakeToken
      <3> HIDE DEF a, b
      <3>4. out \o a \in Seq(Pieces) /\ ArgsTo(out \o a, used)
        BY <1>0, <3>1, CharsKeepArgs
      <3>5. (out \o a) \o b \in Seq(Pieces) /\ ArgsTo((out \o a) \o b, used)
        BY <1>0, <3>2, <3>4, CharsKeepArgs
      <3> QED
        BY <3>3, <3>5 DEF Rendered
    <2> QED
      BY <2>1, <2>2, <2>3 DEF IInv
  <1>2. CASE OpenField
    <2>1. Reading' /\ l'.tok.from \in Nat /\ l'.tok.from >= l.tok.from
      <3>1. Advance /\ text' = text /\ count' = count /\ used' \in 0..count
        BY <1>0, <1>2 DEF OpenField
      <3> QED
        BY <1>0, <3>1, Advanced
    <2>2. l.tok.from \in 1..MaxText
      BY <1>0, <1>2, BoundsAssumption DEF OpenField, Kind, Reading, TokenOK, TokensOf
    <2>3. Standing'
      BY <1>0, <1>2, <2>1, <2>2, BoundsAssumption DEF OpenField, Standing, Places
    <2>4. Rendered'
      BY <1>0, <1>2, SkippedCopied, CharsKeepArgs DEF OpenField, Rendered
    <2> QED
      BY <2>1, <2>3, <2>4 DEF IInv
  <1>3. CASE Fail
    <2>1. Reading' /\ Rendered'
      BY <1>0, <1>3 DEF Fail, Reading, Rendered
    <2>2. Standing'
      BY <1>0, <1>3 DEF Fail, Standing, Places, Ends
    <2> QED
      BY <2>1, <2>2 DEF IInv
  <1>4. ASSUME pc = "field", used < count, out' = Append(out, Arg(used + 1, brace)),
               used' = used + 1, Advance, pc' = "loop",
               UNCHANGED <<text, count, depth, brace>>
        PROVE  IInv'
    <2>1. Reading' /\ l'.tok.from \in Nat /\ l'.tok.from >= l.tok.from
      <3>1. Advance /\ text' = text /\ count' = count /\ used' \in 0..count
        BY <1>0, <1>4
      <3> QED
        BY <1>0, <3>1, Advanced
    <2>2. Standing'
      BY <1>0, <1>4, <2>1 DEF Standing, Places
    <2>3. Rendered'
      <3> DEFINE x == Arg(used + 1, brace)
      <3>1. x \in Pieces /\ x.what = "arg" /\ x.arg = used + 1
        BY <1>0, <1>4, BoundsAssumption DEF Arg, Pieces, Standing, Reading
      <3> HIDE DEF x
      <3>2. used + 1 \in Nat
        BY <1>0
      <3>3. Append(out, x) \in Seq(Pieces) /\ ArgsTo(Append(out, x), used + 1)
        BY <1>0, <3>1, <3>2, ArgsAppended
      <3> QED
        BY <1>4, <3>3 DEF Rendered, x
    <2> QED
      BY <2>1, <2>2, <2>3 DEF IInv
  <1>5. CASE ParseToken
    <2>1. Reading' /\ l'.tok.from \in Nat /\ l'.tok.from >= l.tok.pos /\ l.tok.pos >= l.tok.from
      <3>1. Advance /\ text' = text /\ count' = count /\ used' \in 0..count
        BY <1>0, <1>5 DEF ParseToken
      <3> QED
        BY <1>0, <3>1, Advanced
    <2>2. /\ Kind = "LBRACE" => l.tok.pos = l.tok.from + 1 /\ l.tok.from <= MaxText
          /\ MaxText \in Nat /\ depth <= MaxText
      BY <1>0, BoundsAssumption DEF Kind, Reading, Standing, TokenOK, TokensOf
    <2>3. /\ Kind = "LBRACE" => depth' = depth + 1
          /\ Kind = "RBRACE" => depth' = depth - 1 /\ depth > 0
          /\ Kind \notin {"LBRACE", "RBRACE"} => depth' = depth
      BY <1>5 DEF ParseToken
    <2>4. depth' \in 0..MaxText /\ depth' < l'.tok.from
      BY <1>0, <2>1, <2>2, <2>3, SMTT(30)
    <2>5. Standing'
      BY <1>0, <1>5, <2>4 DEF ParseToken, Standing, Places
    <2>6. Rendered'
      BY <1>0, <1>5 DEF ParseToken, Rendered
    <2> QED
      BY <2>1, <2>5, <2>6 DEF IInv
  <1>6. CASE FillExpr
    <2>1. Reading' /\ l'.tok.from \in Nat /\ l'.tok.from >= l.tok.from
      <3>1. Advance /\ text' = text /\ count' = count /\ used' \in 0..count
        BY <1>0, <1>6 DEF FillExpr
      <3> QED
        BY <1>0, <3>1, Advanced
    <2>2. Standing'
      BY <1>0, <1>6, <2>1 DEF FillExpr, Standing, Places
    <2>3. Rendered'
      <3> DEFINE x == Value(brace)
      <3>1. x \in Pieces /\ x.what # "arg"
        BY <1>0, <1>6, BoundsAssumption DEF FillExpr, Value, Pieces, Standing
      <3> HIDE DEF x
      <3>2. Append(out, x) \in Seq(Pieces) /\ ArgsTo(Append(out, x), used)
        BY <1>0, <3>1, ArgsAppended
      <3> QED
        BY <1>6, <3>2 DEF FillExpr, Rendered, x
    <2> QED
      BY <2>1, <2>2, <2>3 DEF IInv
  <1>7. ASSUME used = count, out' = out \o Skipped, pc' = "done",
               UNCHANGED <<text, count, l, depth, brace, used>>
        PROVE  IInv'
    <2>1. Reading' /\ Standing'
      BY <1>0, <1>7 DEF Reading, Standing, Places, Ends
    <2>2. Rendered'
      BY <1>0, <1>7, SkippedCopied, CharsKeepArgs DEF Rendered
    <2> QED
      BY <2>1, <2>2 DEF IInv
  <1>8. CASE UNCHANGED vars
    BY <1>0, <1>8 DEF vars, IInv, Reading, Standing, Rendered
  <1>9. CASE FillField
    BY <1>3, <1>4, <1>9 DEF FillField
  <1>10. CASE FailExpr \/ FailValue
    BY <1>3, <1>10 DEF FailExpr, FailValue
  <1>11. CASE Finish
    BY <1>3, <1>7, <1>11 DEF Finish
  <1> QED
    BY <1>1, <1>2, <1>5, <1>6, <1>8, <1>9, <1>10, <1>11 DEF Step

THEOREM Invariant == Spec => []IInv
  BY InitIInv, NextIInv, PTL DEF Spec

-----------------------------------------------------------------------------
(* What format_str guarantees *)

\* The positions the lexer and format_str keep stay in the text, up to the little the
\* lexer reads behind it.
THEOREM Typing == Spec => []TypeOK
  <1>1. IInv => TypeOK
    <2> SUFFICES ASSUME IInv PROVE TypeOK
      OBVIOUS
    <2>1. MaxText \in Nat /\ Len(text) \in Nat /\ Len(text) <= MaxText
      BY BoundsAssumption DEF IInv, Reading
    <2>2. l \in [tok : TokensOfText, skipFrom : Positions, skipTo : Positions]
      <3>1. 1..(Len(text) + 3) \subseteq Positions
        BY <2>1 DEF Positions
      <3>2. TokensOf(text) \subseteq TokensOfText
        BY <3>1 DEF TokensOf, TokensOfText
      <3> QED
        BY <3>1, <3>2 DEF IInv, Reading, Fetched
    <2>3. l.tok.from <= l.tok.to /\ l.tok.to <= l.tok.pos
      BY DEF IInv, Reading, TokenOK
    <2> QED
      BY <2>1, <2>2, <2>3 DEF TypeOK, IInv, Reading, Standing, Rendered
  <1> QED
    BY <1>1, Invariant, PTL

\* println and format put in every argument once and in order, or fail.
THEOREM ArgumentsOnce == Spec => []ArgsOnce
  <1>1. IInv => ArgsOnce
    BY DEF IInv, Standing, Rendered, ArgsTo, ArgsOnce
  <1> QED
    BY <1>1, Invariant, PTL

\* The lexer yields characters from behind a text only if a string is not closed.
THEOREM LexerInBounds == Spec => []InBounds
  <1>1. IInv => InBounds
    BY DEF IInv, Reading, TokenOK, Unclosed, InBounds, Tally
  <1> QED
    BY <1>1, Invariant, PTL

\* Every token before the end moves the lexer on.
THEOREM LexerAdvances == Spec => Advances
  <1>1. IInv /\ [Step]_vars =>
          [pc' \notin Ends => l'.tok.kind = "EOF" \/ l'.tok.pos > l.tok.pos]_vars
    <2> SUFFICES ASSUME IInv, Step, pc' \notin Ends
                 PROVE  l'.tok.kind = "EOF" \/ l'.tok.pos > l.tok.pos
      OBVIOUS
    <2>1. ~Fail /\ pc' # "done"
      BY DEF Fail, Ends
    <2>2. Advance /\ text' = text /\ count' = count /\ used' \in 0..count
      BY <2>1 DEF Step, TakeToken, OpenField, FillField, ParseToken, FailExpr, FailValue,
                  FillExpr, Finish, IInv, Reading
    <2> QED
      BY <2>2, Advanced DEF IInv
  <1> QED
    BY <1>1, Invariant, PTL DEF Spec, Advances

-----------------------------------------------------------------------------
(* Plain texts: where their tokens are *)

PlainText(s) ==
  \A i \in DOMAIN s :
    /\ s[i] \notin {Quote, "'", "#"}
    /\ s[i] = ">" => i = Len(s) \/ s[i + 1] # "="

NoBrace(s, a, b) == \A i \in a..(b - 1) : s[i] \notin {LBrace, RBrace}

\* The characters of the text that a token at b stands for, none left out.
PlainToken(s, t, b) ==
  /\ t.kind \in TokenKinds \ {"EOF"}
  /\ t.from = b /\ t.to \in Nat /\ t.to = t.pos /\ b < t.to /\ t.to <= Len(s) + 1
  /\ t.kind = "LBRACE" => s[b] = LBrace /\ t.to = b + 1
  /\ t.kind = "RBRACE" => s[b] = RBrace /\ t.to = b + 1
  /\ t.kind \notin {"LBRACE", "RBRACE"} => NoBrace(s, b, t.to)

\* What the sets of characters say of braces and quotes.
LEMMA Symbols ==
  /\ LBrace \in Special \ {Quote, "'"} /\ RBrace \in Special \ {Quote, "'"}
  /\ LBrace \notin Blank /\ RBrace \notin Blank
  /\ LBrace \notin Digits \cup Exponents \cup Signs \cup {"."}
  /\ RBrace \notin Digits \cup Exponents \cup Signs \cup {"."}
  <1>1. /\ LBrace \in Special \ {Quote, "'"} /\ RBrace \in Special \ {Quote, "'"}
    BY Zenon DEF LBrace, RBrace, Quote, Special
  <1>2. LBrace \notin Blank /\ RBrace \notin Blank
    BY Zenon DEF LBrace, RBrace, Blank
  <1>3. /\ LBrace \notin Digits \cup Exponents \cup Signs \cup {"."}
        /\ RBrace \notin Digits \cup Exponents \cup Signs \cup {"."}
    BY Zenon DEF LBrace, RBrace, Digits, Exponents, Signs
  <1> QED
    BY <1>1, <1>2, <1>3

LEMMA PairsAre ==
  ASSUME NEW s \in Seq(Chars), NEW p \in 1..Len(s), Pair(s, p)
  PROVE  /\ p < Len(s) /\ s[p] \notin {LBrace, RBrace} /\ s[p + 1] \notin {LBrace, RBrace}
         /\ s[p] = ">" => s[p + 1] = "="
         /\ s[p] = "." => s[p + 1] = "."
  <1> DEFINE x == s[p]
             y == s[p + 1]
  <1>1. p < Len(s) /\ <<x, y>> \in Pairs
    BY DEF Pair
  <1> HIDE DEF x, y
  <1>2. x \notin {LBrace, RBrace} /\ y \notin {LBrace, RBrace}
    BY <1>1, Zenon DEF Pairs, LBrace, RBrace
  <1>3. (x = ">" => y = "=") /\ (x = "." => y = ".")
    BY <1>1, Zenon DEF Pairs
  <1> QED
    BY <1>1, <1>2, <1>3 DEF x, y

\* lexer_get_name, lexer_get_number
LEMMA PlainNames ==
  ASSUME NEW s \in Seq(Chars), NEW p \in 1..Len(s),
         s[p] \notin Blank \cup Special \cup BinopSymbs
  PROVE  PlainToken(s, Name(s, p), p)
  <1> DEFINE C == Blank \cup Special \cup BinopSymbs
             stops == Where(s, C)
             q == Until(s, p, stops)
  <1>1. stops \in SUBSET (1..Len(s)) /\ p \notin stops
        /\ \A i \in 1..Len(s) : i \notin stops => s[i] \notin C
    BY DEF Where
  <1>2. \A i \in 1..Len(s) : i \notin stops => s[i] \notin {LBrace, RBrace}
    BY <1>1, Symbols
  <1> HIDE DEF C
  <1>3. Name(s, p) = Token("word", p, q, q)
    BY DEF Name, C
  <1> HIDE DEF stops
  <1>4. q \in Nat /\ q >= p /\ q <= Len(s) + 1 /\ (q <= Len(s) => q \in stops)
        /\ \A r \in stops : r >= p => r >= q
    BY <1>1, UntilFinds
  <1> HIDE DEF q
  <1>5. q > p
    BY <1>1, <1>4
  <1>6. NoBrace(s, p, q)
    <2>1. \A i \in p..(q - 1) : i \in 1..Len(s) /\ i \notin stops
      BY <1>4
    <2> QED
      BY <1>2, <2>1 DEF NoBrace
  <1> QED
    BY <1>3, <1>4, <1>5, <1>6 DEF PlainToken, Token, TokenKinds

LEMMA PlainNumbers ==
  ASSUME NEW s \in Seq(Chars), NEW p \in 1..Len(s), s[p] \in NumberStarts
  PROVE  PlainToken(s, Number(s, p), p)
  <1> DEFINE stops == {q \in p..Len(s) :
                         \/ s[q] \notin Digits \cup Exponents \cup Signs \cup {"."}
                         \/ s[q] \in Signs /\ s[q - 1] \notin Exponents}
             q == Until(s, p, stops)
             to == IF s[q - 1] \in Signs THEN q - 1 ELSE q
  <1>1. stops \in SUBSET (1..Len(s)) /\ p \notin stops /\ s[p] \notin Signs
        /\ \A i \in p..Len(s) : i \notin stops => s[i] \notin {LBrace, RBrace}
    BY Symbols DEF NumberStarts, Digits, Signs
  <1>2. Number(s, p) = Token("word", p, to, to)
    BY DEF Number, NumberEnd
  <1> HIDE DEF stops
  <1>3. q \in Nat /\ q >= p /\ q <= Len(s) + 1 /\ (q <= Len(s) => q \in stops)
        /\ \A r \in stops : r >= p => r >= q
    BY <1>1, UntilFinds
  <1> HIDE DEF q
  <1>4. q > p
    BY <1>1, <1>3
  <1>5. to \in Nat /\ to > p /\ to <= Len(s) + 1 /\ to <= q
    BY <1>1, <1>3, <1>4
  <1> HIDE DEF to
  <1>6. NoBrace(s, p, to)
    <2>1. \A i \in p..(to - 1) : i \in p..Len(s) /\ i \notin stops
      BY <1>3, <1>5
    <2> QED
      BY <1>1, <2>1 DEF NoBrace
  <1> QED
    BY <1>2, <1>5, <1>6 DEF PlainToken, Token, TokenKinds

LEMMA PlainTokens ==
  ASSUME NEW s \in Seq(Chars), PlainText(s), NEW b \in 1..Len(s), s[b] \notin Blank
  PROVE  PlainToken(s, OrLiteral(s, Operator(s, b)), b)
  <1> DEFINE w == Width(s, b)
             v == Counted(s, b)
             k == CASE s[b] = LBrace -> "LBRACE" [] s[b] = RBrace -> "RBRACE" [] OTHER -> "op"
             t == Token(k, b, b + v, b + w)
  <1>1. Operator(s, b) = t
    BY DEF Operator
  <1>2. s[b] \notin {Quote, "'"} /\ (s[b] = ">" => b = Len(s) \/ s[b + 1] # "=")
    BY DEF PlainText
  <1>3. CASE Pair(s, b)
    <2>1. /\ b < Len(s) /\ NoBrace(s, b, b + 2) /\ s[b] # ">"
          /\ (s[b] = "." => s[b + 1] = ".") /\ s[b] \notin {LBrace, RBrace}
      BY <1>2, <1>3, PairsAre DEF NoBrace
    <2>2. w \in {2, 3} /\ (w = 3 => Pair(s, b + 1) /\ b + 1 \in 1..Len(s))
      BY <1>3, <2>1 DEF Width
    <2>3. b + w <= Len(s) + 1 /\ NoBrace(s, b, b + w)
      <3>1. w = 3 => b + 1 < Len(s) /\ NoBrace(s, b + 1, b + 3)
        BY <2>2, PairsAre DEF NoBrace
      <3> QED
        BY <2>1, <2>2, <3>1 DEF NoBrace
    <2>4. v = w /\ k = "op"
      BY <2>1 DEF Counted
    <2> HIDE DEF w, v, k
    <2>5. PlainToken(s, t, b) /\ t.from # t.to
      BY <2>2, <2>3, <2>4 DEF PlainToken, Token, TokenKinds
    <2> HIDE DEF t
    <2> QED
      BY <1>1, <2>5 DEF OrLiteral
  <1>4. CASE ~Pair(s, b) /\ s[b] \in (Special \ {Quote, "'"}) \cup BinopSymbs
                                       \cup {"!", "&", "|", "@"}
    <2>1. w = 1 /\ v = 1
      BY <1>4 DEF Width, Counted
    <2>2. /\ k \in {"op", "LBRACE", "RBRACE"} /\ (k = "LBRACE" => s[b] = LBrace)
          /\ k = "RBRACE" => s[b] = RBrace
          /\ k = "op" => s[b] \notin {LBrace, RBrace}
      OBVIOUS
    <2> HIDE DEF w, v, k
    <2>3. PlainToken(s, t, b) /\ t.from # t.to
      BY <2>1, <2>2 DEF PlainToken, Token, TokenKinds, NoBrace
    <2> HIDE DEF t
    <2> QED
      BY <1>1, <2>3 DEF OrLiteral
  <1>5. CASE ~Pair(s, b) /\ s[b] \notin (Special \ {Quote, "'"}) \cup BinopSymbs
                                          \cup {"!", "&", "|", "@"}
    <2>1. w = 0 /\ v = 0
      <3>1. w = 0
        BY <1>5 DEF Width
      <3>2. s[b] # ">"
        BY <1>5 DEF BinopSymbs
      <3> QED
        BY <3>1, <3>2 DEF Counted
    <2>2. k = "op"
      BY <1>5, Symbols
    <2> HIDE DEF w, v, k
    <2>3. OrLiteral(s, t) = Literal(s, b)
      BY <2>1, <2>2 DEF OrLiteral, Token
    <2>4. s[b] \notin Blank \cup Special \cup BinopSymbs
      BY <1>2, <1>5
    <2>5. Literal(s, b) = IF s[b] \in NumberStarts THEN Number(s, b) ELSE Name(s, b)
      BY <1>2 DEF Literal
    <2>6. PlainToken(s, Literal(s, b), b)
      BY <2>4, <2>5, PlainNames, PlainNumbers
    <2> QED
      BY <1>1, <2>3, <2>6
  <1> QED
    BY <1>3, <1>4, <1>5

\* lexer_next on a plain text: what is skipped and the token follow each other from
\* where the lexer stands, and what is skipped has no brace.
PlainFetch(s, r, p) ==
  /\ r.skipFrom = p /\ r.skipTo = r.tok.from
  /\ r.tok.from \in p..(Len(s) + 1) /\ NoBrace(s, p, r.tok.from)
  /\ \/ r.tok.kind = "EOF" /\ r.tok.from = Len(s) + 1 /\ r.tok.pos = Len(s) + 1
     \/ r.tok.from <= Len(s) /\ PlainToken(s, r.tok, r.tok.from)

LEMMA NextPlain ==
  ASSUME NEW s \in Seq(Chars), PlainText(s), NEW p \in 1..(Len(s) + 1)
  PROVE  PlainFetch(s, Next(s, p), p)
  <1> DEFINE stops == Where(s, Chars \ Blank)
             b == Skipping(s, p)
  <1>1. /\ stops \in SUBSET (1..Len(s))
        /\ \A i \in 1..Len(s) : i \notin stops => s[i] \notin {LBrace, RBrace}
    <2>1. \A i \in 1..Len(s) : s[i] \in Chars
      BY ElementOfSeq
    <2> QED
      BY <2>1, Symbols DEF Where
  <1>2. b \in p..(Len(s) + 1) /\ (b <= Len(s) => s[b] \notin Blank)
    BY Skippings
  <1>3. \A r \in stops : r >= p => r >= b
    <2>1. b = Until(s, p, stops) /\ p \in Nat
      BY DEF Skipping
    <2> HIDE DEF b, stops
    <2> QED
      BY <1>1, <2>1, UntilFinds
  <1> HIDE DEF b, stops
  <1>4. NoBrace(s, p, b)
    <2>1. \A i \in p..(b - 1) : i \in 1..Len(s) /\ i \notin stops
      BY <1>2, <1>3
    <2> QED
      BY <1>1, <2>1 DEF NoBrace
  <1>5. CASE b > Len(s)
    <2>1. Next(s, p) = Skipped3(Token("EOF", b, b, b), p, b)
      BY <1>5, NextFinds DEF b
    <2> QED
      BY <1>2, <1>4, <1>5, <2>1 DEF PlainFetch, Skipped3, Token
  <1>6. CASE b <= Len(s)
    <2> DEFINE t == OrLiteral(s, Operator(s, b))
    <2>1. b \in 1..Len(s) /\ s[b] \notin Blank /\ s[b] # "#"
      BY <1>2, <1>6 DEF PlainText
    <2>2. Next(s, p) = Skipped3(t, p, b)
      BY <2>1, <1>6, NextFinds DEF b
    <2>3. PlainToken(s, t, b)
      BY <2>1, PlainTokens
    <2> HIDE DEF t
    <2>4. t.from = b
      BY <2>3 DEF PlainToken
    <2> QED
      BY <1>2, <1>4, <1>6, <2>2, <2>3, <2>4 DEF PlainFetch, Skipped3
  <1> QED
    BY <1>2, <1>5, <1>6

-----------------------------------------------------------------------------
(* Plain texts: what is rendered *)

\* The braces open behind the first i characters of a text.
Opens(s) ==
  LET open[i \in 0..Len(s)] ==
        CASE i > 0 /\ s[i] = LBrace -> open[i - 1] + 1
          [] i > 0 /\ s[i] = RBrace -> IF open[i - 1] = 0 THEN 0 ELSE open[i - 1] - 1
          [] i > 0 /\ s[i] \notin {LBrace, RBrace} -> open[i - 1]
          [] OTHER -> 0
  IN  open

\* How they are counted.
LEMMA Opening ==
  ASSUME NEW s \in Seq(Chars)
  PROVE  /\ Opens(s) \in [0..Len(s) -> Nat] /\ Opens(s)[0] = 0
         /\ \A i \in 1..Len(s) :
              /\ s[i] = LBrace => Opens(s)[i] = Opens(s)[i - 1] + 1
              /\ s[i] = RBrace => Opens(s)[i] = IF Opens(s)[i - 1] = 0 THEN 0
                                                     ELSE Opens(s)[i - 1] - 1
              /\ s[i] \notin {LBrace, RBrace} => Opens(s)[i] = Opens(s)[i - 1]
  <1> DEFINE n == Len(s)
             R(i, f) == CASE i > 0 /\ s[i] = LBrace -> f[i - 1] + 1
                          [] i > 0 /\ s[i] = RBrace -> IF f[i - 1] = 0 THEN 0 ELSE f[i - 1] - 1
                          [] i > 0 /\ s[i] \notin {LBrace, RBrace} -> f[i - 1]
                          [] OTHER -> 0
             F(f) == f = [i \in 0..n |-> R(i, f)]
             open == CHOOSE f : F(f)
             A == [0..n -> Nat]
  <1>1. n \in Nat
    OBVIOUS
  <1>2. Opens(s) = open
    BY DEF Opens
  <1> HIDE DEF n
  <1>3. ASSUME NEW i \in 0..n, NEW f \in A PROVE R(i, f) \in Nat
    <2>1. i > 0 => i - 1 \in 0..n
      BY <1>1
    <2>2. i > 0 => f[i - 1] \in Nat
      BY <2>1
    <2>3. LBrace # RBrace
      BY Braces
    <2> QED
      BY <2>2, <2>3
  <1>4. ASSUME NEW i \in 0..n, NEW f, NEW g, i > 0 => f[i - 1] = g[i - 1]
        PROVE  R(i, f) = R(i, g)
    BY <1>4
  <1>5. \A f : (\A i \in 0..n : f[i] = R(i, f)) /\ f \in A => F(f)
    OBVIOUS
  <1>6. /\ \A f : R(0, f) = 0
        /\ \A f : \A i \in 1..n :
             /\ s[i] = LBrace => R(i, f) = f[i - 1] + 1
             /\ s[i] = RBrace => R(i, f) = IF f[i - 1] = 0 THEN 0 ELSE f[i - 1] - 1
             /\ s[i] \notin {LBrace, RBrace} => R(i, f) = f[i - 1]
    BY Braces
  <1> HIDE DEF R
  <1>7. \E f \in A : \A i \in 0..n : f[i] = R(i, f)
    <2> DEFINE T == {k \in Nat : \E f \in A : \A i \in 0..n : i < k => f[i] = R(i, f)}
    <2>1. 0 \in T
      <3>1. PICK f : f \in A
        <4>1. [i \in 0..n |-> 0] \in A
          OBVIOUS
        <4> QED
          BY <4>1
      <3>2. \A i \in 0..n : ~(i < 0)
        BY <1>1
      <3> HIDE DEF A
      <3> QED
        BY <3>1, <3>2
    <2>2. ASSUME NEW k \in Nat, k \in T PROVE k + 1 \in T
      <3>1. PICK f \in A : \A i \in 0..n : i < k => f[i] = R(i, f)
        BY <2>2
      <3> DEFINE g == [i \in 0..n |-> IF i = k THEN R(k, f) ELSE f[i]]
      <3>2. g \in A /\ (\A i \in 0..n : i # k => g[i] = f[i])
            /\ (k \in 0..n => g[k] = R(k, f))
        BY <1>3
      <3> HIDE DEF g
      <3>3. ASSUME NEW i \in 0..n, i < k + 1 PROVE g[i] = R(i, g)
        <4>1. i > 0 => g[i - 1] = f[i - 1]
          <5>1. i > 0 => i - 1 \in 0..n /\ i - 1 # k
            BY <1>1, <3>3
          <5> QED
            BY <3>2, <5>1
        <4>2. R(i, g) = R(i, f)
          BY <1>4, <4>1
        <4>3. CASE i = k
          BY <3>2, <4>2, <4>3
        <4>4. CASE i < k
          BY <3>1, <3>2, <4>2, <4>4
        <4> QED
          BY <3>3, <4>3, <4>4
      <3> HIDE DEF A
      <3>4. g \in A /\ \A i \in 0..n : i < k + 1 => g[i] = R(i, g)
        BY <3>2, <3>3
      <3> QED
        BY <3>4
    <2> HIDE DEF T
    <2>3. Nat \subseteq T
      BY <2>1, <2>2, NatInductionSet
    <2>4. n + 1 \in T
      BY <1>1, <2>3
    <2>5. PICK f \in A : \A i \in 0..n : i < n + 1 => f[i] = R(i, f)
      BY <2>4 DEF T
    <2>6. \A i \in 0..n : i < n + 1
      BY <1>1
    <2> QED
      BY <2>5, <2>6
  <1>8. F(open)
    BY <1>5, <1>7
  <1> HIDE DEF open
  <1>9. \A i \in 0..n : open[i] = R(i, open)
    BY <1>8
  <1>10. open \in A
    <2> DEFINE T == {k \in Nat : k <= n => open[k] \in Nat}
    <2>1. 0 \in T
      BY <1>1, <1>6, <1>9
    <2>2. ASSUME NEW k \in Nat, k \in T PROVE k + 1 \in T
      <3> SUFFICES ASSUME k + 1 <= n PROVE open[k + 1] \in Nat
        OBVIOUS
      <3>1. k + 1 \in 1..n /\ k + 1 - 1 = k /\ open[k] \in Nat
        BY <1>1, <2>2
      <3>2. open[k + 1] = R(k + 1, open)
        BY <1>9, <3>1
      <3> QED
        BY <1>6, <3>1, <3>2
    <2> HIDE DEF T
    <2>3. Nat \subseteq T
      BY <2>1, <2>2, NatInductionSet
    <2>4. \A k \in 0..n : open[k] \in Nat
      BY <1>1, <2>3 DEF T
    <2> QED
      BY <1>8, <2>4
  <1>11. 0 \in 0..n /\ \A i \in 1..n : i \in 0..n
    BY <1>1
  <1> QED
    BY <1>2, <1>6, <1>9, <1>10, <1>11 DEF n

\* Where there is no brace, none opens or closes.
LEMMA OpeningKept ==
  ASSUME NEW s \in Seq(Chars), NEW a \in 1..(Len(s) + 1), NEW b \in a..(Len(s) + 1),
         NoBrace(s, a, b)
  PROVE  \A i \in (a - 1)..(b - 1) : Opens(s)[i] = Opens(s)[a - 1]
  <1> DEFINE T == {k \in Nat : a - 1 + k <= b - 1 => Opens(s)[a - 1 + k] = Opens(s)[a - 1]}
  <1>1. 0 \in T
    OBVIOUS
  <1>2. ASSUME NEW k \in Nat, k \in T PROVE k + 1 \in T
    <2> SUFFICES ASSUME a - 1 + (k + 1) <= b - 1
                 PROVE  Opens(s)[a - 1 + (k + 1)] = Opens(s)[a - 1]
      OBVIOUS
    <2>1. PICK i : i = a - 1 + (k + 1)
      OBVIOUS
    <2>2. i \in 1..Len(s) /\ i \in a..(b - 1) /\ i - 1 = a - 1 + k
      BY <2>1
    <2>3. Opens(s)[i] = Opens(s)[i - 1]
      BY <2>2, Opening DEF NoBrace
    <2>4. Opens(s)[i - 1] = Opens(s)[a - 1]
      BY <1>2, <2>2
    <2> QED
      BY <2>1, <2>3, <2>4
  <1> HIDE DEF T
  <1>3. Nat \subseteq T
    BY <1>1, <1>2, NatInductionSet
  <1>4. ASSUME NEW i \in (a - 1)..(b - 1) PROVE Opens(s)[i] = Opens(s)[a - 1]
    <2>1. i - (a - 1) \in Nat /\ a - 1 + (i - (a - 1)) = i /\ i <= b - 1
      OBVIOUS
    <2>2. i - (a - 1) \in T
      BY <1>3, <2>1
    <2> QED
      BY <2>1, <2>2 DEF T
  <1> QED
    BY <1>4

\* The pieces are what stands outside braces in the first x - 1 characters.
KeptTo(s, o, x) ==
  /\ \A i, j \in DOMAIN o : i < j => o[i].at < o[j].at
  /\ {o[i].at : i \in DOMAIN o} = {i \in 1..(x - 1) : Opens(s)[i - 1] = 0}
  /\ \A i \in DOMAIN o : o[i].what = "char" <=> s[o[i].at] # LBrace

LEMMA CharsKept ==
  ASSUME NEW s \in Seq(Chars), Len(s) <= MaxText, NEW o \in Seq(Pieces),
         NEW a \in 1..(Len(s) + 1), NEW b \in a..(Len(s) + 1),
         KeptTo(s, o, a), Opens(s)[a - 1] = 0,
         \A i \in a..(b - 1) : Opens(s)[i - 1] = 0 /\ s[i] # LBrace
  PROVE  o \o Copy(a, b) \in Seq(Pieces) /\ KeptTo(s, o \o Copy(a, b), b)
  <1> DEFINE c == Copy(a, b)
             u == o \o c
             m == Len(o)
  <1>1. /\ c \in Seq(Pieces) /\ Len(c) = b - a
        /\ \A i \in 1..(b - a) : c[i] = Char(a + i - 1)
    <2>1. a \in Nat /\ b \in Nat /\ a >= 1 /\ a <= b /\ b <= MaxText + 2
      BY BoundsAssumption
    <2> QED
      BY <2>1, Copies
  <1> HIDE DEF c
  <1>2. /\ u \in Seq(Pieces) /\ Len(u) = m + (b - a)
        /\ \A i \in 1..m : u[i] = o[i]
        /\ \A i \in 1..(m + (b - a)) : i > m => u[i] = c[i - m]
    <2>1. /\ u \in Seq(Pieces) /\ Len(u) = m + Len(c)
          /\ \A i \in 1..(m + Len(c)) : u[i] = IF i <= m THEN o[i] ELSE c[i - m]
      <3>1. c \in Seq(Pieces)
        BY <1>1
      <3> QED
        BY <3>1, ConcatProperties
    <2>2. m \in Nat
      OBVIOUS
    <2> HIDE DEF u, m
    <2> QED
      BY <1>1, <2>1, <2>2
  <1>3. m \in Nat /\ DOMAIN o = 1..m /\ DOMAIN u = 1..(m + (b - a))
    BY <1>2
  <1> HIDE DEF u, m
  <1>4. \A i \in 1..(m + (b - a)) : i > m =>
          u[i].at = a + (i - m) - 1 /\ u[i].what = "char" /\ a + (i - m) - 1 \in a..(b - 1)
    <2>1. ASSUME NEW i \in 1..(m + (b - a)), i > m
          PROVE  u[i] = Char(a + (i - m) - 1) /\ a + (i - m) - 1 \in a..(b - 1)
      <3>1. PICK j : j = i - m
        OBVIOUS
      <3>2. j \in 1..(b - a) /\ a + (i - m) - 1 = a + j - 1 /\ a + j - 1 \in a..(b - 1)
        BY <1>3, <2>1, <3>1
      <3>3. u[i] = c[j] /\ c[j] = Char(a + j - 1)
        BY <1>1, <1>2, <2>1, <3>1, <3>2
      <3> QED
        BY <3>2, <3>3
    <2>2. \A j : Char(j).at = j /\ Char(j).what = "char"
      BY DEF Char
    <2> QED
      BY <2>1, <2>2
  <1>5. /\ \A i, j \in 1..m : i < j => o[i].at < o[j].at
        /\ {o[i].at : i \in 1..m} = {i \in 1..(a - 1) : Opens(s)[i - 1] = 0}
        /\ \A i \in 1..m : o[i].what = "char" <=> s[o[i].at] # LBrace
    BY <1>3 DEF KeptTo
  <1>6. \A i \in 1..m : o[i].at \in 1..(a - 1) /\ Opens(s)[o[i].at - 1] = 0
    BY <1>5
  <1>7. ASSUME NEW i \in 1..(m + (b - a)), NEW j \in 1..(m + (b - a)), i < j
        PROVE  u[i].at < u[j].at
    <2>1. CASE j <= m
      BY <1>2, <1>3, <1>5, <1>7, <2>1
    <2>2. CASE i <= m /\ j > m
      <3>1. u[i].at \in 1..(a - 1)
        BY <1>2, <1>3, <1>6, <2>2
      <3> QED
        BY <1>3, <1>4, <2>2, <3>1
    <2>3. CASE i > m
      <3>1. u[i].at = a + (i - m) - 1
        BY <1>4, <2>3
      <3>2. j > m
        BY <1>3, <1>7, <2>3
      <3>3. u[j].at = a + (j - m) - 1
        BY <1>4, <3>2
      <3> QED
        BY <1>3, <1>7, <3>1, <3>3
    <2> QED
      BY <1>3, <2>1, <2>2, <2>3
  <1>8. ASSUME NEW i \in 1..(m + (b - a))
        PROVE  /\ u[i].at \in 1..(b - 1) /\ Opens(s)[u[i].at - 1] = 0
               /\ u[i].what = "char" <=> s[u[i].at] # LBrace
    <2>1. CASE i <= m
      <3>1. i \in 1..m /\ u[i] = o[i]
        BY <1>2, <1>3, <2>1
      <3> QED
        BY <1>5, <1>6, <3>1
    <2>2. CASE i > m
      BY <1>4, <2>2
    <2> QED
      BY <1>3, <2>1, <2>2
  <1>9. ASSUME NEW y \in 1..(b - 1), Opens(s)[y - 1] = 0
        PROVE  \E i \in 1..(m + (b - a)) : u[i].at = y
    <2>1. CASE y < a
      <3>1. y \in {o[i].at : i \in 1..m}
        <4>1. y \in 1..(a - 1)
          BY <2>1
        <4>2. y \in {i \in 1..(a - 1) : Opens(s)[i - 1] = 0}
          BY <1>9, <4>1
        <4> QED
          BY <1>5, <4>2
      <3>2. PICK i \in 1..m : o[i].at = y
        BY <3>1
      <3> QED
        BY <1>2, <1>3, <3>2
    <2>2. CASE y >= a
      <3>1. PICK i : i = m + (y - a) + 1
        OBVIOUS
      <3>2. i \in 1..(m + (b - a)) /\ i > m /\ a + (i - m) - 1 = y
        BY <1>3, <2>2, <3>1
      <3> QED
        BY <1>4, <3>2
    <2> QED
      BY <2>1, <2>2
  <1>10. {u[i].at : i \in DOMAIN u} = {i \in 1..(b - 1) : Opens(s)[i - 1] = 0}
    <2>1. \A i \in DOMAIN u : u[i].at \in 1..(b - 1) /\ Opens(s)[u[i].at - 1] = 0
      BY <1>3, <1>8
    <2>2. \A y \in 1..(b - 1) : Opens(s)[y - 1] = 0 => \E i \in DOMAIN u : u[i].at = y
      BY <1>3, <1>9
    <2> QED
      BY <2>1, <2>2
  <1>11. KeptTo(s, u, b)
    BY <1>3, <1>7, <1>8, <1>10 DEF KeptTo
  <1> QED
    BY <1>2, <1>11 DEF u, c

LEMMA FieldKept ==
  ASSUME NEW s \in Seq(Chars), NEW o \in Seq(Pieces), NEW x \in Pieces,
         NEW b \in 1..Len(s), NEW y \in (b + 1)..(Len(s) + 1),
         KeptTo(s, o, b), Opens(s)[b - 1] = 0, s[b] = LBrace,
         \A i \in b..(y - 2) : Opens(s)[i] # 0,
         x.what # "char", x.at = b
  PROVE  KeptTo(s, Append(o, x), y)
  <1> DEFINE u == Append(o, x)
             m == Len(o)
             k == m + 1
  <1>1. Len(u) = k /\ u[k] = x /\ \A i \in 1..m : u[i] = o[i]
    BY AppendProperties
  <1>2. u \in Seq(Pieces)
    BY AppendProperties
  <1>3. m \in Nat /\ DOMAIN o = 1..m /\ DOMAIN u = 1..k /\ k = m + 1
    BY <1>1, <1>2
  <1> HIDE DEF u, m, k
  <1>4. /\ \A i, j \in 1..m : i < j => o[i].at < o[j].at
        /\ {o[i].at : i \in 1..m} = {i \in 1..(b - 1) : Opens(s)[i - 1] = 0}
        /\ \A i \in 1..m : o[i].what = "char" <=> s[o[i].at] # LBrace
    BY <1>3 DEF KeptTo
  <1>5. \A i \in 1..m : o[i].at \in 1..(b - 1) /\ Opens(s)[o[i].at - 1] = 0
    BY <1>4
  <1>6. ASSUME NEW i \in 1..k, NEW j \in 1..k, i < j PROVE u[i].at < u[j].at
    <2>1. i \in 1..m /\ u[i] = o[i]
      BY <1>1, <1>3, <1>6
    <2>2. CASE j = k
      BY <1>1, <1>5, <2>1, <2>2
    <2>3. CASE j # k
      <3>1. j \in 1..m /\ u[j] = o[j]
        BY <1>1, <1>3, <2>3
      <3> QED
        BY <1>4, <1>6, <2>1, <3>1
    <2> QED
      BY <2>2, <2>3
  <1>7. ASSUME NEW i \in 1..k
        PROVE  /\ u[i].at \in 1..(y - 1) /\ Opens(s)[u[i].at - 1] = 0
               /\ u[i].what = "char" <=> s[u[i].at] # LBrace
    <2>1. CASE i = k
      BY <1>1, <2>1
    <2>2. CASE i # k
      <3>1. i \in 1..m /\ u[i] = o[i]
        BY <1>1, <1>3, <2>2
      <3> QED
        BY <1>4, <1>5, <3>1
    <2> QED
      BY <2>1, <2>2
  <1>8. ASSUME NEW z \in 1..(y - 1), Opens(s)[z - 1] = 0
        PROVE  \E i \in 1..k : u[i].at = z
    <2>1. CASE z < b
      <3>1. z \in {o[i].at : i \in 1..m}
        <4>1. z \in 1..(b - 1)
          BY <2>1
        <4>2. z \in {i \in 1..(b - 1) : Opens(s)[i - 1] = 0}
          BY <1>8, <4>1
        <4> QED
          BY <1>4, <4>2
      <3>2. PICK i \in 1..m : o[i].at = z
        BY <3>1
      <3> QED
        BY <1>1, <1>3, <3>2
    <2>2. CASE z = b
      <3>1. k \in 1..k
        BY <1>3
      <3> QED
        BY <1>1, <2>2, <3>1
    <2>3. CASE z > b
      <3>1. z - 1 \in b..(y - 2)
        BY <2>3
      <3> QED
        BY <1>8, <3>1
    <2> QED
      BY <2>1, <2>2, <2>3
  <1>9. {u[i].at : i \in 1..k} = {i \in 1..(y - 1) : Opens(s)[i - 1] = 0}
    BY <1>7, <1>8
  <1> QED
    BY <1>3, <1>6, <1>7, <1>9 DEF KeptTo, u

\* What the lexer holds of a plain text, what format_str has made of the text up to
\* there, and how many braces are open: none outside a field, one more than the
\* expression has in it.
PlainInv ==
  LET at == l.skipFrom
  IN  /\ at \in 1..(Len(text) + 1) /\ PlainFetch(text, l, at)
      /\ pc = "loop" => depth = 0 /\ Opens(text)[at - 1] = 0 /\ KeptTo(text, out, at)
      /\ pc = "field" => depth = 0
      /\ pc \in {"field", "expr"} =>
           /\ brace \in 1..Len(text) /\ brace < at
           /\ text[brace] = LBrace /\ Opens(text)[brace - 1] = 0
           /\ KeptTo(text, out, brace)
           /\ \A i \in brace..(at - 1) : Opens(text)[i] # 0
           /\ Opens(text)[at - 1] = depth + 1
      /\ pc = "done" => KeptTo(text, out, Len(text) + 1)

KInv == IInv /\ (PlainText(text) => PlainInv)

LEMMA InitKInv == Init => KInv
  <1> SUFFICES ASSUME Init PROVE KInv
    OBVIOUS
  <1>1. IInv /\ Reading
    BY InitIInv DEF IInv
  <1>2. ASSUME PlainText(text) PROVE PlainInv
    <2>1. text \in Seq(Chars) /\ 1 \in 1..(Len(text) + 1) /\ Len(text) \in Nat
      BY <1>1 DEF Reading
    <2>2. PlainFetch(text, l, 1) /\ l.skipFrom = 1
      BY <1>2, <2>1, NextPlain DEF Init, PlainFetch
    <2>3. KeptTo(text, out, 1)
      <3>1. DOMAIN out = {}
        BY DEF Init
      <3> QED
        BY <3>1 DEF KeptTo
    <2>4. Opens(text)[1 - 1] = 0
      BY <2>1, Opening
    <2> QED
      BY <2>1, <2>2, <2>3, <2>4 DEF Init, PlainInv
  <1> QED
    BY <1>1, <1>2 DEF KInv

\* The current token of a plain text, what is open before it and behind it, and where
\* the lexer goes on.
LEMMA PlainStep ==
  ASSUME Reading, PlainText(text), PlainInv, Kind # "EOF", Advance, text' = text,
         NEW at, at = l.skipFrom, NEW from, from = l.tok.from, NEW to, to = l.tok.to,
         NEW open, open = Opens(text)
  PROVE  /\ at \in 1..Len(text) /\ from \in at..Len(text) /\ to \in (from + 1)..(Len(text) + 1)
         /\ l'.skipFrom = to /\ PlainFetch(text, l', to)
         /\ NoBrace(text, at, from) /\ \A i \in (at - 1)..(from - 1) : open[i] = open[at - 1]
         /\ Kind = "LBRACE" => text[from] = LBrace /\ to = from + 1 /\ open[from] = open[at - 1] + 1
         /\ Kind = "RBRACE" => /\ text[from] = RBrace /\ to = from + 1
                               /\ open[from] = IF open[at - 1] = 0 THEN 0 ELSE open[at - 1] - 1
         /\ Kind \notin {"LBRACE", "RBRACE"} =>
              NoBrace(text, from, to) /\ \A i \in from..(to - 1) : open[i] = open[at - 1]
         /\ \A i \in 0..Len(text) : open[i] \in Nat
  <1>1. /\ PlainToken(text, l.tok, from) /\ at \in 1..(Len(text) + 1) /\ from \in at..Len(text)
        /\ NoBrace(text, at, from) /\ text \in Seq(Chars) /\ Len(text) \in Nat
    BY DEF PlainInv, PlainFetch, Kind, Reading
  <1>2. l.tok.pos = to /\ to \in (from + 1)..(Len(text) + 1) /\ at \in 1..Len(text)
    BY <1>1 DEF PlainToken
  <1>3. PlainFetch(text, l', to) /\ l'.skipFrom = to
    <2>1. to \in 1..(Len(text) + 1)
      BY <1>1, <1>2
    <2> QED
      BY <1>1, <1>2, <2>1, NextPlain DEF Advance, PlainFetch
  <1>4. \A i \in (at - 1)..(from - 1) : open[i] = open[at - 1]
    <2>1. from \in at..(Len(text) + 1)
      BY <1>1
    <2> QED
      BY <1>1, <2>1, OpeningKept
  <1>5. open[from - 1] = open[at - 1] /\ from \in 1..Len(text)
    BY <1>1, <1>4
  <1>6. \A i \in 0..Len(text) : open[i] \in Nat
    BY <1>1, Opening
  <1>7. /\ Kind = "LBRACE" => text[from] = LBrace /\ to = from + 1
        /\ Kind = "RBRACE" => text[from] = RBrace /\ to = from + 1
        /\ Kind \notin {"LBRACE", "RBRACE"} => NoBrace(text, from, to)
    BY <1>1 DEF PlainToken, Kind
  <1>8. /\ text[from] = LBrace => open[from] = open[at - 1] + 1
        /\ text[from] = RBrace => open[from] = IF open[at - 1] = 0 THEN 0 ELSE open[at - 1] - 1
    BY <1>1, <1>5, Opening
  <1>9. NoBrace(text, from, to) => \A i \in (from - 1)..(to - 1) : open[i] = open[from - 1]
    <2>1. from \in 1..(Len(text) + 1) /\ to \in from..(Len(text) + 1)
      BY <1>2, <1>5
    <2> QED
      BY <1>1, <2>1, OpeningKept
  <1>10. NoBrace(text, from, to) => \A i \in from..(to - 1) : open[i] = open[at - 1]
    BY <1>5, <1>9
  <1> QED
    BY <1>1, <1>2, <1>3, <1>4, <1>6, <1>7, <1>8, <1>10

\* What stands outside braces is copied as it is, up to y.
LEMMA PlainCopied ==
  ASSUME text \in Seq(Chars), Len(text) <= MaxText, NEW o \in Seq(Pieces),
         NEW x \in 1..(Len(text) + 1), NEW y \in x..(Len(text) + 1),
         KeptTo(text, o, x), Opens(text)[x - 1] = 0,
         \A i \in x..(y - 1) : Opens(text)[i] = 0 /\ text[i] # LBrace
  PROVE  o \o Copy(x, y) \in Seq(Pieces) /\ KeptTo(text, o \o Copy(x, y), y)
  <1>1. ASSUME NEW i \in x..(y - 1) PROVE Opens(text)[i - 1] = 0 /\ text[i] # LBrace
    <2>1. i = x \/ i - 1 \in x..(y - 1)
      OBVIOUS
    <2> QED
      BY <2>1
  <1> QED
    BY <1>1, CharsKept

LEMMA NextPlainInv == KInv /\ [Step]_vars => KInv'
  <1> SUFFICES ASSUME KInv, [Step]_vars PROVE KInv'
    OBVIOUS
  <1>1. IInv /\ IInv' /\ text' = text
    BY NextIInv DEF KInv, Step, TakeToken, OpenField, FillField, Fail, ParseToken, FailExpr,
                    FailValue, FillExpr, Finish, vars
  <1>2. /\ Reading /\ text \in Seq(Chars) /\ Len(text) <= MaxText /\ out \in Seq(Pieces)
        /\ depth \in Nat /\ Len(text) \in Nat
    BY <1>1 DEF IInv, Reading, Rendered, Standing
  <1> SUFFICES ASSUME PlainText(text), PlainInv PROVE PlainInv'
    BY <1>1 DEF KInv
  <1> DEFINE open == Opens(text)
             at == l.skipFrom
             from == l.tok.from
             to == l.tok.to
  <1>3. at \in 1..(Len(text) + 1) /\ PlainFetch(text, l, at)
    BY DEF PlainInv
  <1>4. ASSUME Kind # "EOF", Advance
        PROVE  /\ at \in 1..Len(text) /\ from \in at..Len(text)
               /\ to \in (from + 1)..(Len(text) + 1)
               /\ l'.skipFrom = to /\ PlainFetch(text, l', to)
               /\ NoBrace(text, at, from) /\ \A i \in (at - 1)..(from - 1) : open[i] = open[at - 1]
               /\ Kind = "LBRACE" => /\ text[from] = LBrace /\ to = from + 1
                                     /\ open[from] = open[at - 1] + 1
               /\ Kind = "RBRACE" => /\ text[from] = RBrace /\ to = from + 1
                                     /\ open[from] = IF open[at - 1] = 0 THEN 0
                                                     ELSE open[at - 1] - 1
               /\ Kind \notin {"LBRACE", "RBRACE"} =>
                    NoBrace(text, from, to) /\ \A i \in from..(to - 1) : open[i] = open[at - 1]
               /\ \A i \in 0..Len(text) : open[i] \in Nat
    BY <1>1, <1>2, <1>4, PlainStep, SMTT(30)
  <1>5. pc = "loop" => depth = 0 /\ open[at - 1] = 0 /\ KeptTo(text, out, at)
    BY DEF PlainInv
  <1>6. pc \in {"field", "expr"} =>
          /\ brace \in 1..Len(text) /\ brace < at /\ (pc = "field" => depth = 0)
          /\ text[brace] = LBrace /\ open[brace - 1] = 0 /\ KeptTo(text, out, brace)
          /\ (\A i \in brace..(at - 1) : open[i] # 0) /\ open[at - 1] = depth + 1
    BY DEF PlainInv
  <1> HIDE DEF open, at, from, to
  <1>7. CASE Fail
    BY <1>3, <1>7 DEF Fail, PlainInv, at
  \* What is skipped, and a token that has no brace or one that closes nothing.
  <1>8. CASE TakeToken
    <2>1. /\ Kind # "EOF" /\ Kind # "LBRACE" /\ Advance
          /\ pc = "loop" /\ pc' = "loop" /\ depth' = depth
      BY <1>8 DEF TakeToken
    <2>2. /\ out' = (out \o Copy(at, from)) \o Copy(from, to)
      BY <1>3, <1>8 DEF TakeToken, Skipped, PlainFetch, at, from, to
    <2>3. \A i \in at..(from - 1) : open[i] = 0 /\ text[i] # LBrace
      <3>1. \A i \in at..(from - 1) : i \in (at - 1)..(from - 1)
        BY <1>3
      <3> QED
        BY <1>4, <1>5, <2>1, <3>1 DEF NoBrace
    <2>4. \A i \in from..(to - 1) : open[i] = 0 /\ text[i] # LBrace
      <3>1. CASE Kind = "RBRACE"
        BY <1>4, <1>5, <2>1, <3>1, Braces
      <3>2. CASE Kind # "RBRACE"
        BY <1>4, <1>5, <2>1, <3>2 DEF NoBrace
      <3> QED
        BY <3>1, <3>2
    <2>5. /\ at \in 1..(Len(text) + 1) /\ from \in at..(Len(text) + 1)
          /\ from \in 1..(Len(text) + 1) /\ to \in from..(Len(text) + 1)
          /\ to \in 1..(Len(text) + 1) /\ to - 1 \in from..(to - 1)
          /\ (from - 1 = at - 1 \/ from - 1 \in at..(from - 1))
      BY <1>2, <1>3, <1>4, <2>1
    <2>6. out \o Copy(at, from) \in Seq(Pieces) /\ KeptTo(text, out \o Copy(at, from), from)
      BY <1>2, <1>5, <2>1, <2>3, <2>5, PlainCopied DEF open
    <2>7. open[from - 1] = 0 /\ open[to - 1] = 0
      BY <1>5, <2>1, <2>3, <2>4, <2>5
    <2>8. KeptTo(text, out', to)
      BY <1>2, <2>2, <2>4, <2>5, <2>6, <2>7, PlainCopied DEF open
    <2>9. l'.skipFrom = to /\ PlainFetch(text, l', to)
      BY <1>4, <2>1
    <2> QED
      BY <1>1, <1>5, <2>1, <2>5, <2>7, <2>8, <2>9 DEF PlainInv, open
  <1>9. CASE OpenField
    <2>1. /\ Kind = "LBRACE" /\ Advance /\ pc = "loop" /\ pc' = "field" /\ depth' = depth
          /\ brace' = from
      BY <1>9 DEF OpenField, from
    <2>2. out' = out \o Copy(at, from)
      BY <1>3, <1>9 DEF OpenField, Skipped, PlainFetch, at, from
    <2>3. \A i \in at..(from - 1) : open[i] = 0 /\ text[i] # LBrace
      <3>1. \A i \in at..(from - 1) : i \in (at - 1)..(from - 1)
        BY <1>3
      <3> QED
        BY <1>4, <1>5, <2>1, <3>1 DEF NoBrace
    <2>4. /\ at \in 1..(Len(text) + 1) /\ from \in at..(Len(text) + 1) /\ from \in 1..Len(text)
          /\ to = from + 1 /\ to \in 1..(Len(text) + 1) /\ from < to /\ to - 1 = from
          /\ from - 1 \in (at - 1)..(from - 1)
      BY <1>2, <1>3, <1>4, <2>1
    <2>5. KeptTo(text, out', from)
      BY <1>2, <1>5, <2>1, <2>2, <2>3, <2>4, PlainCopied DEF open
    <2>6. open[from - 1] = 0 /\ open[from] = 1 /\ text[from] = LBrace
      BY <1>4, <1>5, <2>1, <2>4
    <2>7. l'.skipFrom = to /\ PlainFetch(text, l', to)
      BY <1>4, <2>1
    <2>8. \A i \in from..(to - 1) : open[i] # 0
      BY <2>4, <2>6
    <2> QED
      BY <1>1, <1>5, <2>1, <2>4, <2>5, <2>6, <2>7, <2>8 DEF PlainInv, open
  \* The brace that closes the field.
  <1>10. ASSUME Kind = "RBRACE", depth = 0, pc \in {"field", "expr"}, Advance, pc' = "loop",
                depth' = depth,
                NEW x \in Pieces, x.what # "char", x.at = brace, out' = Append(out, x)
         PROVE  PlainInv'
    <2>1. /\ at \in 1..(Len(text) + 1) /\ from \in at..Len(text) /\ to = from + 1
          /\ to \in (brace + 1)..(Len(text) + 1) /\ to \in 1..(Len(text) + 1)
          /\ brace \in 1..Len(text) /\ to - 1 = from
      BY <1>2, <1>4, <1>6, <1>10
    <2>2. open[at - 1] = 1 /\ open[from] = 0
      BY <1>4, <1>6, <1>10
    <2>3. \A i \in brace..(to - 2) : open[i] # 0
      <3>1. ASSUME NEW i \in brace..(to - 2) PROVE open[i] # 0
        <4>1. i \in brace..(at - 1) \/ i \in (at - 1)..(from - 1)
          BY <2>1
        <4> QED
          BY <1>4, <1>6, <1>10, <2>2, <4>1
      <3> QED
        BY <3>1
    <2>4. KeptTo(text, Append(out, x), to)
      BY <1>2, <1>6, <1>10, <2>1, <2>3, FieldKept DEF open
    <2>5. l'.skipFrom = to /\ PlainFetch(text, l', to)
      BY <1>4, <1>10
    <2> QED
      BY <1>1, <1>10, <2>1, <2>2, <2>4, <2>5 DEF PlainInv, open
  <1>11. CASE FillField
    <2>1. ASSUME pc = "field", Kind = "RBRACE", used < count,
                 out' = Append(out, Arg(used + 1, brace)), Advance, pc' = "loop", depth' = depth
          PROVE  PlainInv'
      <3> DEFINE x == Arg(used + 1, brace)
      <3>1. x \in Pieces /\ x.what # "char" /\ x.at = brace
        BY <1>1, <2>1, BoundsAssumption DEF Arg, Pieces, IInv, Standing, Reading
      <3> HIDE DEF x
      <3>2. out' = Append(out, x) /\ depth = 0
        BY <1>6, <2>1 DEF x
      <3> QED
        BY <1>10, <2>1, <3>1, <3>2
    <2> QED
      BY <1>7, <1>11, <2>1 DEF FillField
  <1>12. CASE ParseToken
    <2>1. /\ Kind # "EOF" /\ Advance /\ pc \in {"field", "expr"} /\ pc' = "expr"
          /\ brace' = brace /\ out' = out
          /\ Kind = "LBRACE" => depth' = depth + 1
          /\ Kind = "RBRACE" => depth' = depth - 1 /\ depth > 0
          /\ Kind \notin {"LBRACE", "RBRACE"} => depth' = depth
      BY <1>12 DEF ParseToken
    <2>2. /\ at \in 1..(Len(text) + 1) /\ from \in at..Len(text)
          /\ to \in (from + 1)..(Len(text) + 1)
          /\ to \in 1..(Len(text) + 1) /\ brace \in 1..Len(text) /\ brace < at /\ brace < to
          /\ to - 1 \in from..(to - 1)
      BY <1>2, <1>4, <1>6, <2>1
    <2>3. open[at - 1] = depth + 1
      BY <1>6, <2>1
    <2>4. \A i \in from..(to - 1) : open[i] = depth' + 1 /\ open[i] # 0
      <3>1. CASE Kind = "LBRACE"
        BY <1>2, <1>4, <2>1, <2>2, <2>3, <3>1
      <3>2. CASE Kind = "RBRACE"
        BY <1>2, <1>4, <2>1, <2>2, <2>3, <3>2
      <3>3. CASE Kind \notin {"LBRACE", "RBRACE"}
        BY <1>2, <1>4, <2>1, <2>2, <2>3, <3>3
      <3> QED
        BY <3>1, <3>2, <3>3
    <2>5. \A i \in brace..(to - 1) : open[i] # 0
      <3>1. ASSUME NEW i \in brace..(to - 1) PROVE open[i] # 0
        <4>1. i \in brace..(at - 1) \/ i \in (at - 1)..(from - 1) \/ i \in from..(to - 1)
          BY <2>2
        <4>2. depth + 1 # 0
          BY <1>2
        <4> QED
          BY <1>4, <1>6, <2>1, <2>3, <2>4, <4>1, <4>2
      <3> QED
        BY <3>1
    <2>6. l'.skipFrom = to /\ PlainFetch(text, l', to)
      BY <1>4, <2>1
    <2>7. open[to - 1] = depth' + 1
      BY <2>2, <2>4
    <2>8. text[brace] = LBrace /\ open[brace - 1] = 0 /\ KeptTo(text, out, brace)
      BY <1>6, <2>1
    <2> QED
      BY <1>1, <2>1, <2>2, <2>5, <2>6, <2>7, <2>8 DEF PlainInv, open
  <1>13. CASE FillExpr
    <2>1. /\ Kind = "RBRACE" /\ depth = 0 /\ pc = "expr" /\ Advance /\ pc' = "loop"
          /\ depth' = depth /\ out' = Append(out, Value(brace))
      BY <1>13 DEF FillExpr
    <2> DEFINE x == Value(brace)
    <2>2. x \in Pieces /\ x.what # "char" /\ x.at = brace
      BY <1>1, <2>1, BoundsAssumption DEF Value, Pieces, IInv, Standing
    <2> HIDE DEF x
    <2>3. out' = Append(out, x)
      BY <2>1 DEF x
    <2> QED
      BY <1>10, <2>1, <2>2, <2>3
  <1>14. ASSUME pc = "loop", Kind = "EOF", out' = out \o Skipped, pc' = "done",
                UNCHANGED <<text, count, l, depth, brace, used>>
         PROVE  PlainInv'
    <2>1. from = Len(text) + 1 /\ Skipped = Copy(at, from) /\ NoBrace(text, at, from)
      BY <1>3, <1>14 DEF PlainFetch, PlainToken, TokenKinds, Kind, Skipped, at, from
    <2>2. from \in at..(Len(text) + 1)
      BY <1>2, <1>3, <2>1
    <2>3. \A i \in at..(from - 1) : open[i] = 0 /\ text[i] # LBrace
      <3>1. \A i \in (at - 1)..(from - 1) : open[i] = open[at - 1]
        BY <1>2, <1>3, <2>1, <2>2, OpeningKept DEF open
      <3>2. \A i \in at..(from - 1) : i \in (at - 1)..(from - 1)
        BY <1>3
      <3> QED
        BY <1>5, <1>14, <2>1, <3>1, <3>2 DEF NoBrace
    <2>4. KeptTo(text, out', Len(text) + 1)
      BY <1>2, <1>3, <1>5, <1>14, <2>1, <2>2, <2>3, PlainCopied DEF open
    <2> QED
      BY <1>3, <1>14, <2>4 DEF PlainInv, at
  <1>15. CASE FailExpr \/ FailValue
    BY <1>7, <1>15 DEF FailExpr, FailValue
  <1>16. CASE Finish
    BY <1>7, <1>14, <1>16 DEF Finish
  <1>17. CASE UNCHANGED vars
    BY <1>17 DEF vars, PlainInv
  <1> QED
    BY <1>8, <1>9, <1>11, <1>12, <1>13, <1>15, <1>16, <1>17 DEF Step

\* A format string without quotes, comments and >= is rendered as it is: every character
\* outside braces once and in its place, and one value for each pair of braces.
THEOREM PlainTextKept == Spec => []TextKept
  <1>1. KInv => TextKept
    <2> SUFFICES ASSUME KInv, pc = "done", Plain PROVE
          /\ \A i, j \in DOMAIN out : i < j => out[i].at < out[j].at
          /\ {out[i].at : i \in DOMAIN out} = {i \in DOMAIN text : OpenBraces[i - 1] = 0}
          /\ \A i \in DOMAIN out : out[i].what = "char" <=> text[out[i].at] # LBrace
      BY DEF TextKept
    <2>1. PlainText(text) /\ OpenBraces = Opens(text)
      BY DEF Plain, PlainText, OpenBraces, Opens
    <2>2. KeptTo(text, out, Len(text) + 1)
      BY <2>1 DEF KInv, PlainInv
    <2>3. DOMAIN text = 1..(Len(text) + 1 - 1)
      BY DEF KInv, IInv, Reading
    <2> QED
      BY <2>1, <2>2, <2>3 DEF KeptTo
  <1> QED
    BY <1>1, InitKInv, NextPlainInv, PTL DEF Spec
===============================================================================
