---------------------------- MODULE SubmissionProofs ----------------------------
(* Proofs about Submission, for every value of its constants. *)
EXTENDS Submission, FiniteSetTheorems, SequenceTheorems, WellFoundedInduction, TLAPS

-----------------------------------------------------------------------------
(* Induction, stated with sets *)

\* A set of natural numbers that is not empty has a least element.
LEMMA LeastElement ==
  ASSUME NEW T \in SUBSET Nat, \A x \in T : \E y \in T : y < x
  PROVE  T = {}
<1>1. IsWellFoundedOn(OpToRel(<, Nat), Nat)
  BY NatLessThanWellFounded
<1>2. SUFFICES ASSUME T # {} PROVE FALSE
  OBVIOUS
<1>3. PICK x \in T : \A y \in T : ~(<<y, x>> \in OpToRel(<, Nat))
  BY <1>1, <1>2, WFMin
<1>4. PICK y \in T : y < x
  OBVIOUS
<1>5. <<y, x>> \in OpToRel(<, Nat)
  BY <1>4 DEF OpToRel
<1> QED
  BY <1>3, <1>5

LEMMA SegmentInduction ==
  ASSUME NEW n \in Nat, NEW G, 0 \in G, \A k \in 0 .. n - 1 : k \in G => k + 1 \in G
  PROVE  0 .. n \subseteq G
<1> DEFINE T == {k \in 0 .. n : k \notin G}
<1>1. ASSUME NEW x \in T PROVE x - 1 \in T /\ x - 1 < x
  <2>1. x \in 1 .. n
    OBVIOUS
  <2>2. x - 1 \in 0 .. n - 1
    BY <2>1
  <2>3. x - 1 \in G => (x - 1) + 1 \in G
    BY <2>2
  <2> QED
    BY <2>1, <2>2, <2>3
<1>2. T \in SUBSET Nat
  OBVIOUS
<1>3. \A x \in T : \E y \in T : y < x
  BY <1>1
<1> HIDE DEF T
<1>4. T = {}
  BY <1>2, <1>3, LeastElement
<1> QED
  BY <1>4 DEF T

-----------------------------------------------------------------------------
(* What a left fold computes *)

\* The largest of a set of numbers that holds n and none beyond.
LEMMA MaxIs ==
  ASSUME NEW n \in Nat, NEW S \in SUBSET (0 .. n), n \in S
  PROVE  Max(S) = n
<1>1. \E x \in S : \A y \in S : x >= y
  OBVIOUS
<1>2. Max(S) \in S /\ \A y \in S : Max(S) >= y
  BY <1>1 DEF Max
<1>3. Max(S) \in 0 .. n /\ Max(S) >= n
  BY <1>2
<1> QED
  BY <1>3

\* A set of numbers up to n that is not empty has a largest.
LEMMA MaxIn ==
  ASSUME NEW n \in Nat, NEW S \in SUBSET (1 .. n), S # {}
  PROVE  Max(S) \in S
<1> DEFINE T == {n - x : x \in S}
<1>1. T \in SUBSET Nat /\ T # {}
  <2>1. \A x \in S : n - x \in Nat
    OBVIOUS
  <2> QED
    BY <2>1
<1>2. PICK y \in T : \A z \in T : ~(z < y)
  <2> HIDE DEF T
  <2> QED
    BY <1>1, LeastElement
<1>3. PICK x \in S : y = n - x
  OBVIOUS
<1>4. ASSUME NEW z \in S PROVE x >= z
  <2>1. n - z \in T /\ ~(n - z < n - x)
    BY <1>2, <1>3
  <2>2. x \in Nat /\ z \in Nat
    OBVIOUS
  <2> QED
    BY <2>1, <2>2
<1>5. \E u \in S : \A z \in S : u >= z
  BY <1>4
<1> QED
  BY <1>5 DEF Max

\* A fold over the first n positions of seq, whose steps are those of the function st,
\* and a function on sets of positions that solves its recursion.
FoldInput(P, T, base, st, n, seq) ==
  base \in P /\ st \in [P \X T -> P] /\ n \in Nat /\ \A i \in 1 .. n : seq[i] \in T

FoldSolution(P, base, st, n, seq, iter) ==
  /\ iter \in [SUBSET (1 .. n) -> P]
  /\ \A s \in SUBSET (1 .. n) :
       iter[s] = IF s = {} THEN base ELSE st[<<iter[s \ {Max(s)}], seq[Max(s)]>>]

\* Every fold has one.
LEMMA FoldExists ==
  ASSUME NEW P, NEW T, NEW base, NEW st, NEW n, NEW seq, FoldInput(P, T, base, st, n, seq)
  PROVE  \E iter : FoldSolution(P, base, st, n, seq, iter)
<1> USE DEF FoldInput
<1> DEFINE
      Solves(k, g) == \A s \in SUBSET (1 .. k) :
                        g[s] = IF s = {} THEN base
                               ELSE st[<<g[s \ {Max(s)}], seq[Max(s)]>>]
      G == {k \in 0 .. n : \E g \in [SUBSET (1 .. k) -> P] : Solves(k, g)}
<1>1. 0 \in G
  <2> DEFINE g == [s \in SUBSET (1 .. 0) |-> base]
  <2>1. g \in [SUBSET (1 .. 0) -> P]
    OBVIOUS
  <2>2. \A s \in SUBSET (1 .. 0) : s = {}
    OBVIOUS
  <2>3. Solves(0, g)
    BY <2>2
  <2>4. 0 \in 0 .. n
    OBVIOUS
  <2> HIDE DEF Solves, g
  <2> QED
    BY <2>1, <2>3, <2>4
<1>2. ASSUME NEW k \in 0 .. n - 1, k \in G PROVE k + 1 \in G
  <2>1. PICK g \in [SUBSET (1 .. k) -> P] : Solves(k, g)
    BY <1>2
  <2> DEFINE m == k + 1
             h == [s \in SUBSET (1 .. m) |->
                    IF m \in s THEN st[<<g[s \ {m}], seq[m]>>] ELSE g[s]]
  <2>2. m \in 1 .. n /\ seq[m] \in T /\ 1 .. k \subseteq 1 .. m /\ m \notin 1 .. k
        /\ 1 .. m \subseteq 0 .. m /\ m \in Nat
    OBVIOUS
  <2>3. \A s \in SUBSET (1 .. m) : /\ s \ {m} \in SUBSET (1 .. k)
                                   /\ m \notin s => s \in SUBSET (1 .. k)
    OBVIOUS
  <2> HIDE DEF m
  <2>4. h \in [SUBSET (1 .. m) -> P]
    BY <2>2, <2>3
  <2>5. ASSUME NEW s \in SUBSET (1 .. m)
        PROVE  h[s] = IF s = {} THEN base ELSE st[<<h[s \ {Max(s)}], seq[Max(s)]>>]
    <3>1. CASE m \in s
      <4>1. Max(s) = m
        BY <2>2, <3>1, MaxIs
      <4>2. h[s \ {m}] = g[s \ {m}]
        BY <2>3
      <4>3. h[s] = st[<<g[s \ {m}], seq[m]>>]
        BY <3>1
      <4> QED
        BY <3>1, <4>1, <4>2, <4>3
    <3>2. CASE m \notin s
      <4>1. s \in SUBSET (1 .. k) /\ s \ {Max(s)} \in SUBSET (1 .. k)
        BY <2>3, <3>2
      <4>2. s \ {Max(s)} \in SUBSET (1 .. m) /\ m \notin s \ {Max(s)}
        BY <3>2
      <4>3. h[s] = g[s] /\ h[s \ {Max(s)}] = g[s \ {Max(s)}]
        BY <3>2, <4>2
      <4> QED
        BY <2>1, <4>1, <4>3
    <3> QED
      BY <3>1, <3>2
  <2>6. Solves(m, h)
    BY <2>5
  <2> HIDE DEF Solves, h
  <2>7. m \in G
    BY <2>2, <2>4, <2>6
  <2> QED
    BY <2>7 DEF m
<1> HIDE DEF G
<1>3. 0 .. n \subseteq G
  BY <1>1, <1>2, SegmentInduction
<1>4. n \in G
  BY <1>3
<1> QED
  BY <1>4 DEF G, FoldSolution

\* A function on the sets 1 .. i, read as one on the numbers i.
LEMMA PrefixSets ==
  ASSUME NEW n \in Nat, NEW i \in 1 .. n
  PROVE  /\ 1 .. i \in SUBSET (1 .. n) /\ 1 .. i - 1 \in SUBSET (1 .. n)
         /\ 1 .. i # {} /\ Max(1 .. i) = i
         /\ (1 .. i) \ {i} = 1 .. i - 1
<1>1. i \in Nat /\ 1 .. i \in SUBSET (0 .. i) /\ i \in 1 .. i
  OBVIOUS
<1>2. Max(1 .. i) = i
  BY <1>1, MaxIs
<1> QED
  BY <1>1, <1>2

\* A function that makes the steps of the fold on the sets 1 .. i makes a run of it.
FoldSteps(P, base, st, n, seq, f) ==
  /\ f[{}] = base
  /\ \A i \in 1 .. n : f[1 .. i - 1] \in P => f[1 .. i] = st[<<f[1 .. i - 1], seq[i]>>]

FoldRun(P, base, st, n, seq, g) ==
  /\ g \in [0 .. n -> P] /\ g[0] = base
  /\ \A i \in 1 .. n : g[i] = st[<<g[i - 1], seq[i]>>]

LEMMA FoldPrefixes ==
  ASSUME NEW P, NEW T, NEW base, NEW st, NEW n, NEW seq, FoldInput(P, T, base, st, n, seq),
         NEW f, FoldSteps(P, base, st, n, seq, f)
  PROVE  FoldRun(P, base, st, n, seq, [i \in 0 .. n |-> f[1 .. i]])
<1> USE DEF FoldInput, FoldSteps
<1> DEFINE G == {i \in 0 .. n : f[1 .. i] \in P}
           g == [i \in 0 .. n |-> f[1 .. i]]
<1>1. 0 \in G
  BY 1 .. 0 = {}
<1>2. ASSUME NEW k \in 0 .. n - 1, k \in G PROVE k + 1 \in G
  <2>1. k + 1 \in 1 .. n /\ (k + 1) - 1 = k /\ f[1 .. k] \in P
    BY <1>2
  <2>2. f[1 .. k + 1] = st[<<f[1 .. k], seq[k + 1]>>]
    BY <2>1
  <2> QED
    BY <2>1, <2>2
<1> HIDE DEF G
<1>3. \A i \in 0 .. n : f[1 .. i] \in P
  BY <1>1, <1>2, SegmentInduction DEF G
<1>4. g \in [0 .. n -> P]
  BY <1>3
<1>5. g[0] = base
  BY 1 .. 0 = {}
<1>6. ASSUME NEW i \in 1 .. n PROVE g[i] = st[<<g[i - 1], seq[i]>>]
  <2>1. i - 1 \in 0 .. n /\ i \in 0 .. n
    OBVIOUS
  <2> QED
    BY <1>3, <2>1
<1> QED
  BY <1>4, <1>5, <1>6 DEF FoldRun

-----------------------------------------------------------------------------
(* parseLeads *)

Parses == [drop : Nat, valid : Seq(Tokens), invalid : Nat, duplicates : Nat]

LEMMA LoweredType ==
  ASSUME NEW t \in Tokens
  PROVE  /\ Lowered(t) \in Tokens /\ Lowered(t).upper = FALSE
         /\ Lowered(t).box = t.box /\ Lowered(t).kind = t.kind
BY DEF Lowered, Tokens

LEMMA AddTokenType ==
  ASSUME NEW p \in Parses, NEW t \in Tokens
  PROVE  AddToken(p, t) \in Parses
<1>1. Append(p.valid, Lowered(t)) \in Seq(Tokens)
  BY LoweredType, AppendProperties DEF Parses
<1>2. p.invalid + 1 \in Nat /\ p.duplicates + 1 \in Nat
  BY DEF Parses
<1> QED
  BY <1>1, <1>2 DEF AddToken, Parses

\* ParseLeads makes one AddToken for each token, from the first to the last.
LEMMA ParseFold ==
  ASSUME NEW base \in Parses, NEW text \in Seq(Tokens)
  PROVE  \E g \in [0 .. Len(text) -> Parses] :
           /\ g[0] = base
           /\ \A i \in 1 .. Len(text) : g[i] = AddToken(g[i - 1], text[i])
           /\ FoldLeft(AddToken, base, text) = g[Len(text)]
<1> DEFINE n == Len(text)
           st == [x \in Parses \X Tokens |-> AddToken(x[1], x[2])]
<1>1. n \in Nat /\ DOMAIN text = 1 .. n /\ \A i \in 1 .. n : text[i] \in Tokens
  BY LenProperties, ElementOfSeq
<1>2. st \in [Parses \X Tokens -> Parses]
  BY AddTokenType
<1>3. \A p \in Parses, t \in Tokens : st[<<p, t>>] = AddToken(p, t)
  OBVIOUS
<1> HIDE DEF n, st
<1>4. \E f : f = [s \in SUBSET (DOMAIN text) |->
                    IF s = {} THEN base ELSE AddToken(f[s \ {Max(s)}], text[Max(s)])]
  <2>0. FoldInput(Parses, Tokens, base, st, n, text)
    BY <1>1, <1>2 DEF FoldInput
  <2>1. PICK f : /\ f \in [SUBSET (1 .. n) -> Parses]
                 /\ \A s \in SUBSET (1 .. n) :
                      f[s] = IF s = {} THEN base ELSE st[<<f[s \ {Max(s)}], text[Max(s)]>>]
    <3>1. PICK f : FoldSolution(Parses, base, st, n, text, f)
      BY <2>0, FoldExists
    <3> QED
      BY <3>1 DEF FoldSolution
  <2>2. ASSUME NEW s \in SUBSET (1 .. n), s # {}
        PROVE  st[<<f[s \ {Max(s)}], text[Max(s)]>>] = AddToken(f[s \ {Max(s)}], text[Max(s)])
    <3>1. Max(s) \in s
      BY <1>1, <2>2, MaxIn
    <3> QED
      BY <1>1, <1>3, <2>1, <3>1
  <2>3. f = [s \in SUBSET (DOMAIN text) |->
              IF s = {} THEN base ELSE AddToken(f[s \ {Max(s)}], text[Max(s)])]
    BY <1>1, <2>1, <2>2
  <2> QED
    BY <2>3
<1>5. PICK f : /\ f = [s \in SUBSET (DOMAIN text) |->
                        IF s = {} THEN base
                        ELSE AddToken(f[s \ {Max(s)}], text[Max(s)])]
               /\ FoldLeft(AddToken, base, text) = f[DOMAIN text]
  BY <1>4, Zenon DEF FoldLeft, MapThenFoldSet
<1>6. f[{}] = base
  BY <1>5
<1>7. ASSUME NEW i \in 1 .. n PROVE f[1 .. i] = AddToken(f[1 .. i - 1], text[i])
  BY <1>1, <1>5, PrefixSets
<1> DEFINE g == [i \in 0 .. n |-> f[1 .. i]]
<1>8. /\ g \in [0 .. n -> Parses] /\ g[0] = base
      /\ \A i \in 1 .. n : g[i] = st[<<g[i - 1], text[i]>>]
  <2>1. FoldInput(Parses, Tokens, base, st, n, text)
    BY <1>1, <1>2 DEF FoldInput
  <2>2. FoldSteps(Parses, base, st, n, text, f)
    BY <1>1, <1>3, <1>6, <1>7 DEF FoldSteps
  <2>3. FoldRun(Parses, base, st, n, text, g)
    BY <2>1, <2>2, FoldPrefixes
  <2> QED
    BY <2>3 DEF FoldRun
<1>9. g[n] = FoldLeft(AddToken, base, text)
  BY <1>1, <1>5
<1> HIDE DEF g
<1>10. \A i \in 1 .. n : g[i] = AddToken(g[i - 1], text[i])
  <2> SUFFICES ASSUME NEW i \in 1 .. n PROVE g[i] = AddToken(g[i - 1], text[i])
    OBVIOUS
  <2>1. i - 1 \in 0 .. n
    BY <1>1
  <2> QED
    BY <1>1, <1>3, <1>8, <2>1
<1> QED
  BY <1>8, <1>9, <1>10 DEF n

NoRepeats(s) == \A i, j \in 1 .. Len(s) : i # j => s[i] # s[j]

\* Appending a new element.
LEMMA AppendNew ==
  ASSUME NEW s \in Seq(Tokens), NEW e \in Tokens
  PROVE  /\ Append(s, e) \in Seq(Tokens) /\ Len(Append(s, e)) = Len(s) + 1
         /\ ToSet(Append(s, e)) = ToSet(s) \cup {e}
         /\ NoRepeats(s) /\ ~Contains(s, e) => NoRepeats(Append(s, e))
         /\ Contains(s, e) <=> e \in ToSet(s)
<1>1. /\ Append(s, e) \in Seq(Tokens) /\ Len(Append(s, e)) = Len(s) + 1
      /\ \A i \in 1 .. Len(s) : Append(s, e)[i] = s[i]
      /\ Append(s, e)[Len(s) + 1] = e
  BY AppendProperties
<1>2. /\ Len(s) \in Nat /\ DOMAIN s = 1 .. Len(s)
      /\ DOMAIN Append(s, e) = 1 .. Len(s) + 1
  BY <1>1, LenProperties
<1>3. 1 .. Len(s) + 1 = (1 .. Len(s)) \cup {Len(s) + 1}
  BY <1>2
<1>4. ToSet(Append(s, e)) = ToSet(s) \cup {e}
  BY <1>1, <1>2, <1>3 DEF ToSet
<1>5. ASSUME NoRepeats(s), ~Contains(s, e) PROVE NoRepeats(Append(s, e))
  BY <1>1, <1>2, <1>3, <1>5 DEF NoRepeats, Contains
<1>6. Contains(s, e) <=> e \in ToSet(s)
  BY <1>2 DEF Contains, ToSet
<1> QED
  BY <1>1, <1>4, <1>5, <1>6

\* What the file of a drop is parsed into, whatever it holds.
ParsedOf(d, text, p) ==
  LET passing == {i \in 1 .. Len(text) : text[i].kind \in {"address", "loose"}} IN
  /\ p \in Parses /\ p.drop = d
  /\ ToSet(p.valid) = {Lowered(text[i]) : i \in passing}
  /\ NoRepeats(p.valid) /\ Len(p.valid) = Cardinality(ToSet(p.valid))
  /\ p.duplicates + Len(p.valid) = Cardinality(passing)
  /\ p.invalid = Cardinality({i \in 1 .. Len(text) : text[i].kind = "broken"})

LEMMA ParseCorrect ==
  ASSUME NEW d \in Nat, NEW text \in Seq(Tokens)
  PROVE  ParsedOf(d, text, FoldLeft(AddToken, [NoLeads EXCEPT !.drop = d], text))
<1> DEFINE n == Len(text)
           base == [NoLeads EXCEPT !.drop = d]
           Passing(k) == {i \in 1 .. k : text[i].kind \in {"address", "loose"}}
           Broken(k) == {i \in 1 .. k : text[i].kind = "broken"}
           Texts(k) == {Lowered(text[i]) : i \in Passing(k)}
           Good(k, p) ==
             /\ p.drop = d /\ ToSet(p.valid) = Texts(k)
             /\ NoRepeats(p.valid) /\ Len(p.valid) = Cardinality(ToSet(p.valid))
             /\ IsFiniteSet(ToSet(p.valid))
             /\ p.duplicates + Len(p.valid) = Cardinality(Passing(k))
             /\ p.invalid = Cardinality(Broken(k))
<1>1. n \in Nat /\ \A i \in 1 .. n : text[i] \in Tokens
  BY LenProperties, ElementOfSeq
<1>2. base \in Parses /\ base = [drop |-> d, valid |-> << >>, invalid |-> 0, duplicates |-> 0]
  <2>1. << >> \in Seq(Tokens)
    BY EmptySeq
  <2>2. base = [drop |-> d, valid |-> << >>, invalid |-> 0, duplicates |-> 0]
    BY DEF NoLeads
  <2> HIDE DEF base
  <2> QED
    BY <2>1, <2>2 DEF Parses
<1> HIDE DEF n, base
<1>3. PICK g \in [0 .. n -> Parses] :
        /\ g[0] = base
        /\ \A i \in 1 .. n : g[i] = AddToken(g[i - 1], text[i])
        /\ FoldLeft(AddToken, base, text) = g[n]
  BY <1>2, ParseFold DEF n
<1>4. Good(0, g[0])
  <2>1. Passing(0) = {} /\ Broken(0) = {} /\ Texts(0) = {}
    OBVIOUS
  <2>2. ToSet(<< >>) = {} /\ Len(<< >>) = 0 /\ NoRepeats(<< >>)
    BY DEF ToSet, NoRepeats
  <2>3. IsFiniteSet({}) /\ Cardinality({}) = 0
    BY FS_EmptySet
  <2>4. g[0].drop = d /\ g[0].valid = << >> /\ g[0].invalid = 0 /\ g[0].duplicates = 0
    BY <1>2, <1>3
  <2> DEFINE p == g[0]
  <2> HIDE DEF Passing, Broken, Texts, p
  <2>5. p.drop = d /\ p.valid = << >> /\ p.invalid = 0 /\ p.duplicates = 0
    BY <2>4 DEF p
  <2>6. ToSet(p.valid) = Texts(0) /\ NoRepeats(p.valid) /\ IsFiniteSet(ToSet(p.valid))
        /\ Len(p.valid) = 0 /\ Cardinality(ToSet(p.valid)) = 0
    BY <2>1, <2>2, <2>3, <2>5
  <2>7. Cardinality(Passing(0)) = 0 /\ Cardinality(Broken(0)) = 0
    BY <2>1, <2>3
  <2>8. Good(0, p)
    BY <2>5, <2>6, <2>7
  <2> QED
    BY <2>8 DEF p
<1>5. ASSUME NEW k \in 0 .. n - 1, Good(k, g[k]) PROVE Good(k + 1, g[k + 1])
  <2> DEFINE m == k + 1
             t == text[m]
             p == g[k]
             q == g[m]
  <2>1. m \in 1 .. n /\ m - 1 = k /\ m \notin 1 .. k /\ 1 .. m = (1 .. k) \cup {m}
        /\ k \in 0 .. n /\ m \in 0 .. n /\ k \in Nat
    BY <1>1
  <2>2. t \in Tokens /\ p \in Parses /\ q \in Parses /\ q = AddToken(p, t)
    BY <1>1, <1>3, <2>1
  <2>3. /\ Passing(m) = IF t.kind \in {"address", "loose"} THEN Passing(k) \cup {m}
                        ELSE Passing(k)
        /\ Broken(m) = IF t.kind = "broken" THEN Broken(k) \cup {m} ELSE Broken(k)
        /\ Texts(m) = IF t.kind \in {"address", "loose"} THEN Texts(k) \cup {Lowered(t)}
                      ELSE Texts(k)
        /\ m \notin Passing(k) /\ m \notin Broken(k)
    BY <2>1
  <2>4. IsFiniteSet(Passing(k)) /\ IsFiniteSet(Broken(k))
    <3>1. IsFiniteSet(1 .. k)
      BY <2>1, FS_Interval
    <3> QED
      BY <3>1, FS_Subset
  <2>5. Good(k, p)
    BY <1>5
  <2> HIDE DEF m, t, p, q, Passing, Broken, Texts
  <2>6. /\ Cardinality(Passing(k)) \in Nat /\ Cardinality(Broken(k)) \in Nat
        /\ Cardinality(Passing(k) \cup {m}) = Cardinality(Passing(k)) + 1
        /\ Cardinality(Broken(k) \cup {m}) = Cardinality(Broken(k)) + 1
    BY <2>3, <2>4, FS_AddElement, FS_CardinalityType
  <2>7. /\ p.valid \in Seq(Tokens) /\ p.invalid \in Nat /\ p.duplicates \in Nat
        /\ Len(p.valid) \in Nat /\ Lowered(t) \in Tokens
        /\ t.kind \in Kinds
    BY <2>2, LoweredType, LenProperties DEF Parses, Tokens
  <2>8. CASE t.kind = "word"
    <3>1. q = p
      BY <2>2, <2>8 DEF AddToken
    <3> QED
      BY <2>3, <2>5, <2>8, <3>1 DEF m, q
  <2>9. CASE t.kind = "broken"
    <3>1. q = [p EXCEPT !.invalid = p.invalid + 1]
      BY <2>2, <2>9 DEF AddToken
    <3>2. q.drop = p.drop /\ q.valid = p.valid /\ q.duplicates = p.duplicates
          /\ q.invalid = p.invalid + 1
      BY <2>2, <3>1 DEF Parses
    <3>3. Good(m, q)
      BY <2>3, <2>5, <2>6, <2>9, <3>2
    <3> QED
      BY <3>3 DEF m, q
  <2>10. CASE t.kind \in {"address", "loose"} /\ Contains(p.valid, Lowered(t))
    <3>1. q = [p EXCEPT !.duplicates = p.duplicates + 1]
      BY <2>2, <2>10 DEF AddToken
    <3>2. q.drop = p.drop /\ q.valid = p.valid /\ q.invalid = p.invalid
          /\ q.duplicates = p.duplicates + 1
      BY <2>2, <3>1 DEF Parses
    <3>3. Lowered(t) \in Texts(k)
      BY <2>5, <2>7, <2>10, AppendNew
    <3>4. q.duplicates + Len(q.valid) = Cardinality(Passing(m))
      <4>1. Cardinality(Passing(m)) = Cardinality(Passing(k)) + 1
        BY <2>3, <2>6, <2>10
      <4>2. p.duplicates + Len(p.valid) = Cardinality(Passing(k))
        BY <2>5
      <4>3. q.duplicates = p.duplicates + 1 /\ Len(q.valid) = Len(p.valid)
        BY <3>2
      <4> HIDE DEF Good
      <4> QED
        BY <2>6, <2>7, <4>1, <4>2, <4>3
    <3>5. Good(m, q)
      BY <2>3, <2>5, <2>10, <3>2, <3>3, <3>4
    <3> QED
      BY <3>5 DEF m, q
  <2>11. CASE t.kind \in {"address", "loose"} /\ ~Contains(p.valid, Lowered(t))
    <3> DEFINE v == Append(p.valid, Lowered(t))
    <3>1. q = [p EXCEPT !.valid = v]
      BY <2>2, <2>11 DEF AddToken
    <3>2. /\ Len(v) = Len(p.valid) + 1 /\ ToSet(v) = ToSet(p.valid) \cup {Lowered(t)}
          /\ NoRepeats(v) /\ Lowered(t) \notin ToSet(p.valid)
      BY <2>5, <2>7, <2>11, AppendNew
    <3> HIDE DEF v
    <3>3. q.drop = p.drop /\ q.valid = v /\ q.invalid = p.invalid
          /\ q.duplicates = p.duplicates
      BY <2>2, <3>1 DEF Parses
    <3>4. IsFiniteSet(ToSet(v)) /\ Cardinality(ToSet(v)) = Cardinality(ToSet(p.valid)) + 1
      BY <2>5, <3>2, FS_AddElement
    <3>5. q.duplicates + Len(q.valid) = Cardinality(Passing(m))
      BY <2>3, <2>5, <2>6, <2>7, <2>11, <3>2, <3>3
    <3>6. Good(m, q)
      BY <2>3, <2>5, <2>11, <3>2, <3>3, <3>4, <3>5
    <3> QED
      BY <3>6 DEF m, q
  <2> QED
    BY <2>7, <2>8, <2>9, <2>10, <2>11 DEF Kinds
<1> DEFINE G == {k \in 0 .. n : Good(k, g[k])}
<1> HIDE DEF Good
<1>6. 0 \in G /\ \A k \in 0 .. n - 1 : k \in G => k + 1 \in G
  <2>1. 0 \in 0 .. n /\ \A k \in 0 .. n - 1 : k + 1 \in 0 .. n
    BY <1>1
  <2> QED
    BY <1>4, <1>5, <2>1
<1> HIDE DEF G
<1>7. n \in G
  <2>1. 0 .. n \subseteq G
    BY <1>1, <1>6, SegmentInduction
  <2> QED
    BY <1>1, <2>1
<1>8. Good(n, g[n]) /\ g[n] \in Parses
  BY <1>1, <1>7 DEF G
<1> QED
  BY <1>3, <1>8 DEF Good, ParsedOf, n, base
-----------------------------------------------------------------------------
(* The recipients of a campaign *)

\* Dedupe makes one AddRecipient for each recipient, from the first to the last.
LEMMA DedupeFold ==
  ASSUME NEW s \in Seq(Tokens)
  PROVE  \E g \in [0 .. Len(s) -> Seq(Tokens)] :
           /\ g[0] = << >>
           /\ \A i \in 1 .. Len(s) : g[i] = AddRecipient(g[i - 1], s[i])
           /\ Dedupe(s) = g[Len(s)]
<1> DEFINE n == Len(s)
           P == Seq(Tokens)
           st == [x \in P \X Tokens |-> AddRecipient(x[1], x[2])]
<1>1. n \in Nat /\ DOMAIN s = 1 .. n /\ \A i \in 1 .. n : s[i] \in Tokens
  BY LenProperties, ElementOfSeq
<1>2. st \in [P \X Tokens -> P] /\ << >> \in P
  BY AppendNew, EmptySeq DEF AddRecipient
<1>3. \A p \in P, t \in Tokens : st[<<p, t>>] = AddRecipient(p, t)
  OBVIOUS
<1> HIDE DEF n, st, P
<1>4. FoldInput(P, Tokens, << >>, st, n, s)
  BY <1>1, <1>2 DEF FoldInput
<1>5. \E f : f = [S \in SUBSET (DOMAIN s) |->
                    IF S = {} THEN << >> ELSE AddRecipient(f[S \ {Max(S)}], s[Max(S)])]
  <2>1. PICK f : FoldSolution(P, << >>, st, n, s, f)
    BY <1>4, FoldExists
  <2>2. ASSUME NEW S \in SUBSET (1 .. n), S # {}
        PROVE  st[<<f[S \ {Max(S)}], s[Max(S)]>>] = AddRecipient(f[S \ {Max(S)}], s[Max(S)])
    <3>1. Max(S) \in S
      BY <1>1, <2>2, MaxIn
    <3> QED
      BY <1>1, <1>3, <2>1, <3>1 DEF FoldSolution
  <2>3. f = [S \in SUBSET (DOMAIN s) |->
              IF S = {} THEN << >> ELSE AddRecipient(f[S \ {Max(S)}], s[Max(S)])]
    BY <1>1, <2>1, <2>2 DEF FoldSolution
  <2> QED
    BY <2>3
<1>6. PICK f : /\ f = [S \in SUBSET (DOMAIN s) |->
                        IF S = {} THEN << >> ELSE AddRecipient(f[S \ {Max(S)}], s[Max(S)])]
               /\ Dedupe(s) = f[DOMAIN s]
  BY <1>5, Zenon DEF Dedupe, FoldLeft, MapThenFoldSet
<1>7. f[{}] = << >>
  BY <1>6
<1>8. ASSUME NEW i \in 1 .. n PROVE f[1 .. i] = AddRecipient(f[1 .. i - 1], s[i])
  BY <1>1, <1>6, PrefixSets
<1> DEFINE g == [i \in 0 .. n |-> f[1 .. i]]
<1>9. FoldRun(P, << >>, st, n, s, g)
  <2>1. FoldSteps(P, << >>, st, n, s, f)
    BY <1>1, <1>3, <1>7, <1>8 DEF FoldSteps
  <2> QED
    BY <1>4, <2>1, FoldPrefixes
<1>10. g[n] = Dedupe(s)
  BY <1>1, <1>6
<1> HIDE DEF g
<1>11. \A i \in 1 .. n : g[i] = AddRecipient(g[i - 1], s[i])
  <2> SUFFICES ASSUME NEW i \in 1 .. n PROVE g[i] = AddRecipient(g[i - 1], s[i])
    OBVIOUS
  <2>1. i - 1 \in 0 .. n
    BY <1>1
  <2> QED
    BY <1>1, <1>3, <1>9, <2>1 DEF FoldRun
<1> QED
  BY <1>9, <1>10, <1>11 DEF FoldRun, n, P

\* It keeps each recipient once, and leaves a list without repetitions as it is.
LEMMA DedupeCorrect ==
  ASSUME NEW s \in Seq(Tokens)
  PROVE  /\ Dedupe(s) \in Seq(Tokens)
         /\ ToSet(Dedupe(s)) = ToSet(s)
         /\ NoRepeats(Dedupe(s))
         /\ NoRepeats(s) => Dedupe(s) = s
<1> DEFINE n == Len(s)
           Firsts(k) == {s[i] : i \in 1 .. k}
           Good(k, p) ==
             /\ ToSet(p) = Firsts(k) /\ NoRepeats(p)
             /\ NoRepeats(s) => Len(p) = k /\ \A i \in 1 .. k : p[i] = s[i]
<1>1. n \in Nat /\ DOMAIN s = 1 .. n /\ \A i \in 1 .. n : s[i] \in Tokens
  BY LenProperties, ElementOfSeq
<1>2. PICK g \in [0 .. n -> Seq(Tokens)] :
        /\ g[0] = << >>
        /\ \A i \in 1 .. n : g[i] = AddRecipient(g[i - 1], s[i])
        /\ Dedupe(s) = g[n]
  BY DedupeFold
<1>3. NoRepeats(s) <=> \A i, j \in 1 .. n : i # j => s[i] # s[j]
  BY DEF NoRepeats
<1> HIDE DEF n
<1>4. Good(0, g[0])
  BY <1>2 DEF ToSet, NoRepeats
<1>5. ASSUME NEW k \in 0 .. n - 1, Good(k, g[k]) PROVE Good(k + 1, g[k + 1])
  <2> DEFINE m == k + 1
             t == s[m]
             p == g[k]
             q == g[m]
  <2>1. m \in 1 .. n /\ m - 1 = k /\ m \notin 1 .. k /\ 1 .. m = (1 .. k) \cup {m}
        /\ k \in 0 .. n /\ m \in 0 .. n /\ k \in Nat /\ 1 .. k \subseteq 1 .. n
    BY <1>1, SMTT(30)
  <2>2. t \in Tokens /\ p \in Seq(Tokens) /\ q = AddRecipient(p, t)
    BY <1>1, <1>2, <2>1
  <2>3. Firsts(m) = Firsts(k) \cup {t}
    BY <2>1
  <2>4. NoRepeats(s) => t \notin Firsts(k)
    BY <1>3, <2>1
  <2>5. Good(k, p)
    BY <1>5
  <2>6. m = k + 1
    OBVIOUS
  <2> HIDE DEF m, t, p, q, Firsts
  <2>7. CASE Contains(p, t)
    <3>1. q = p /\ t \in Firsts(k)
      BY <2>2, <2>5, <2>7, AppendNew DEF AddRecipient
    <3> QED
      BY <2>3, <2>4, <2>5, <3>1 DEF m, q
  <2>8. CASE ~Contains(p, t)
    <3>1. q = Append(p, t)
      BY <2>2, <2>8 DEF AddRecipient
    <3>2. ToSet(q) = ToSet(p) \cup {t} /\ NoRepeats(q) /\ Len(q) = Len(p) + 1
      BY <2>2, <2>5, <2>8, <3>1, AppendNew
    <3>3. \A i \in 1 .. Len(p) : q[i] = p[i]
      BY <2>2, <3>1, AppendProperties
    <3>4. q[Len(p) + 1] = t
      BY <2>2, <3>1, AppendProperties
    <3>5. NoRepeats(s) => Len(q) = m /\ \A i \in 1 .. m : q[i] = s[i]
      BY <2>1, <2>5, <2>6, <3>2, <3>3, <3>4 DEF t
    <3>6. Good(m, q)
      BY <2>3, <2>5, <3>2, <3>5
    <3> QED
      BY <3>6 DEF m, q
  <2> QED
    BY <2>7, <2>8
<1> DEFINE G == {k \in 0 .. n : Good(k, g[k])}
<1> HIDE DEF Good
<1>6. 0 \in G /\ \A k \in 0 .. n - 1 : k \in G => k + 1 \in G
  <2>1. 0 \in 0 .. n
    BY <1>1
  <2>2. ASSUME NEW k \in 0 .. n - 1 PROVE k + 1 \in 0 .. n
    BY <1>1
  <2> QED
    BY <1>4, <1>5, <2>1, <2>2
<1> HIDE DEF G
<1>7. n \in G
  <2>1. 0 .. n \subseteq G
    BY <1>1, <1>6, SegmentInduction
  <2> QED
    BY <1>1, <2>1
<1>8. Good(n, Dedupe(s)) /\ Dedupe(s) \in Seq(Tokens)
  BY <1>1, <1>2, <1>7 DEF G
<1>9. ToSet(Dedupe(s)) = ToSet(s) /\ NoRepeats(Dedupe(s))
  BY <1>1, <1>8 DEF Good, ToSet
<1>10. ASSUME NoRepeats(s) PROVE Dedupe(s) = s
  <2>1. Len(Dedupe(s)) = Len(s) /\ \A i \in 1 .. Len(s) : Dedupe(s)[i] = s[i]
    BY <1>8, <1>10 DEF Good, n
  <2> QED
    BY <1>8, <2>1, SeqEqual
<1> QED
  BY <1>8, <1>9, <1>10
-----------------------------------------------------------------------------
(* Type correctness *)

LEMMA FaultType ==
  ASSUME TypeOK, NEW k \in FaultKinds, Fault(k)
  PROVE  left' \in [FaultKinds -> Nat]
<1>1. left \in [FaultKinds -> Nat] /\ left[k] - 1 \in Nat
  BY DEF TypeOK, Fault
<1> QED
  BY <1>1 DEF Fault

LEMMA TextsType ==
  ASSUME TypeOK
  PROVE  /\ DOMAIN texts = 1 .. Len(texts) /\ Len(texts) \in Nat
         /\ \A d \in DOMAIN texts : d \in Nat \ {0} /\ texts[d] \in Seq(Tokens)
<1>1. texts \in Seq(Contents)
  BY DEF TypeOK
<1>2. DOMAIN texts = 1 .. Len(texts) /\ Len(texts) \in Nat
  BY <1>1, LenProperties
<1>3. \A d \in 1 .. Len(texts) : texts[d] \in Contents
  BY <1>1, ElementOfSeq
<1> QED
  BY <1>2, <1>3, SubmissionAssumption

\* A request that has not been posted is nothing yet, nor is one after it; one that has
\* not been handled has no rows and no jobs.  The form waits for a request of its own.
StageInv ==
  /\ \A r \in Requests :
       /\ request[r].stage = "none" =>
            request[r] = NoRequest /\ \A q \in Requests : q > r => request[q].stage = "none"
       /\ request[r].stage \in {"none", "posted"} => rows[r] = << >> /\ jobs[r] = 0
       /\ pending = r => request[r].drop # 0
  /\ leads.drop = 0 => leads.valid = << >>

LEMMA TypeInit == Init => TypeOK /\ StageInv
<1> SUFFICES ASSUME Init PROVE TypeOK /\ StageInv
  OBVIOUS
<1>1. << >> \in Seq(Tokens) /\ << >> \in Seq(Contents) /\ Len(<< >>) = 0
  BY EmptySeq
<1>2. TypeOK
  BY <1>1, SubmissionAssumption DEF Init, TypeOK, NoLeads, NoRequest, Stages
<1>3. StageInv
  BY DEF Init, StageInv, NoRequest, NoLeads, Requests
<1> QED
  BY <1>2, <1>3

\* A file that is dropped leaves those dropped before it as they are.
LEMMA DropType ==
  ASSUME TypeOK, NEW d \in Drops, NEW text \in Contents, DropFile(d, text)
  PROVE  /\ texts' \in Seq(Contents)
         /\ DOMAIN texts' = DOMAIN texts \cup {d} /\ d \notin DOMAIN texts
         /\ \A e \in DOMAIN texts : texts'[e] = texts[e]
<1>1. texts \in Seq(Contents) /\ texts' = Append(texts, text) /\ d = Len(texts) + 1
  BY DEF TypeOK, DropFile
<1>2. /\ texts' \in Seq(Contents) /\ Len(texts') = Len(texts) + 1
      /\ \A e \in 1 .. Len(texts) : texts'[e] = texts[e]
  BY <1>1, AppendProperties
<1>3. DOMAIN texts' = 1 .. Len(texts) + 1
  BY <1>2, LenProperties
<1> QED
  BY <1>1, <1>2, <1>3, TextsType

LEMMA TypeStep == TypeOK /\ StageInv /\ [Next]_vars => TypeOK'
<1> SUFFICES ASSUME TypeOK, StageInv, [Next]_vars PROVE TypeOK'
  OBVIOUS
<1> USE SubmissionAssumption DEF formVars
<1> DEFINE Rq == [drop : {0} \cup DOMAIN texts, recipients : Seq(Tokens),
                  stage : Stages, told : {"nothing", "success", "error"}]
<1>1. /\ request \in [Requests -> Rq] /\ rows \in [Requests -> Seq(Tokens)]
      /\ jobs \in [Requests -> Nat] /\ \A r \in Requests : jobs[r] <= Len(rows[r])
      /\ leads \in [drop : {0} \cup DOMAIN texts, valid : Seq(Tokens), invalid : Nat,
                    duplicates : Nat]
  BY DEF TypeOK
<1>2. ASSUME NEW d \in Drops, NEW text \in Contents, DropFile(d, text) PROVE TypeOK'
  <2>1. /\ texts' \in Seq(Contents) /\ DOMAIN texts \subseteq DOMAIN texts'
        /\ d \in DOMAIN texts'
    BY <1>2, DropType
  <2>2. \A r \in Requests : request[r] \in
          [drop : {0} \cup DOMAIN texts', recipients : Seq(Tokens),
           stage : Stages, told : {"nothing", "success", "error"}]
    BY <1>1, <2>1
  <2> QED
    BY <1>1, <1>2, <2>1, <2>2 DEF DropFile, TypeOK
<1>3. ASSUME NEW d \in Drops, FileRead(d) PROVE TypeOK'
  <2>1. d \in DOMAIN texts /\ d \in Nat /\ texts[d] \in Seq(Tokens)
    BY <1>3, TextsType DEF FileRead, TypeOK
  <2>2. ParsedOf(d, texts[d], ParseLeads(d))
    BY <2>1, ParseCorrect DEF ParseLeads
  <2> QED
    BY <1>1, <1>3, <2>1, <2>2 DEF FileRead, TypeOK, ParsedOf, Parses
<1>4. ASSUME NEW r \in Requests, NEW d \in {0} \cup DOMAIN texts,
             NEW to \in Seq(Tokens), Post(r, d, to)
      PROVE  request' \in [Requests -> Rq]
  <2>1. [drop |-> d, recipients |-> to, stage |-> "posted", told |-> "nothing"] \in Rq
    BY DEF Stages
  <2> QED
    BY <1>1, <1>4, <2>1 DEF Post
<1>5. ASSUME NEW r \in Requests, Compose(r) PROVE TypeOK'
  <2>1. CASE Submit(r)
    BY <1>1, <1>4, <2>1 DEF Submit, TypeOK
  <2>2. CASE FormSucceeds(r)
    <3>1. 0 \in {0} \cup DOMAIN texts /\ << >> \in Seq(Tokens)
      BY EmptySeq
    <3>2. request' \in [Requests -> Rq]
      BY <1>1, <2>2 DEF FormSucceeds
    <3> QED
      BY <1>1, <2>2, <3>1, <3>2 DEF FormSucceeds, TypeOK, NoLeads
  <2>3. CASE FormFails(r)
    BY <1>1, <2>3 DEF FormFails, TypeOK
  <2>4. CASE ConnectionBreaks(r)
    <3>1. Fault("net") /\ "net" \in FaultKinds
      BY <2>4 DEF ConnectionBreaks, FaultKinds
    <3>2. request' \in [Requests -> Rq]
      <4>1. PICK stage \in {request[r].stage, "lost"} :
              request' = [request EXCEPT ![r].told = "error", ![r].stage = stage]
        BY <2>4 DEF ConnectionBreaks
      <4>2. stage \in Stages
        BY <1>1, <4>1 DEF Stages
      <4> QED
        BY <1>1, <4>1, <4>2
    <3> QED
      BY <1>1, <2>4, <3>1, <3>2, FaultType DEF ConnectionBreaks, TypeOK
  <2>5. ASSUME NEW to \in ScriptBodies, ScriptPost(r, to) PROVE TypeOK'
    BY <1>1, <1>4, <2>5 DEF ScriptPost, TypeOK
  <2> QED
    BY <1>5, <2>1, <2>2, <2>3, <2>4, <2>5 DEF Compose
<1>6. ASSUME NEW r \in Requests, Campaigns(r) PROVE TypeOK'
  <2>1. ASSUME NEW stage \in Stages, Stage(r, stage) PROVE request' \in [Requests -> Rq]
    <3>1. [request[r] EXCEPT !.stage = stage] \in Rq
      BY <1>1
    <3>2. request' = [request EXCEPT ![r] = [request[r] EXCEPT !.stage = stage]]
      BY <2>1 DEF Stage
    <3> QED
      BY <1>1, <3>1, <3>2
  <2>2. {"refused", "committed", "error", "enqueued", "created"} \subseteq Stages
    BY DEF Stages
  <2>3. Dedupe(request[r].recipients) \in Seq(Tokens)
    BY <1>1, DedupeCorrect
  <2>4. \A q \in Requests : Len(rows[q]) \in Nat
    BY <1>1, LenProperties
  <2>5. CASE Refuse(r)
    BY <1>1, <2>1, <2>2, <2>5 DEF Refuse, TypeOK
  <2>6. ASSUME request[r].stage = "posted",
               rows' = [rows EXCEPT ![r] = Dedupe(request[r].recipients)]
        PROVE  /\ rows' \in [Requests -> Seq(Tokens)]
               /\ \A q \in Requests : jobs[q] <= Len(rows'[q])
    <3>1. jobs[r] = 0 /\ Len(Dedupe(request[r].recipients)) \in Nat
      BY <2>3, <2>6, LenProperties DEF StageInv
    <3> QED
      BY <1>1, <2>3, <2>6, <3>1
  <2>7. CASE CreateCampaign(r)
    BY <1>1, <2>1, <2>2, <2>6, <2>7 DEF CreateCampaign, TypeOK
  <2>8. CASE CreateCampaignFails(r)
    <3>1. Fault("db") /\ "db" \in FaultKinds
      BY <2>8 DEF CreateCampaignFails, FaultKinds
    <3>2. /\ rows' \in [Requests -> Seq(Tokens)]
          /\ \A q \in Requests : jobs[q] <= Len(rows'[q])
      BY <1>1, <2>6, <2>8 DEF CreateCampaignFails
    <3> QED
      BY <1>1, <2>1, <2>2, <2>8, <3>1, <3>2, FaultType DEF CreateCampaignFails, TypeOK
  <2>9. CASE EnqueueEmailSends(r)
    <3>1. jobs' \in [Requests -> Nat] /\ \A q \in Requests : jobs'[q] <= Len(rows[q])
      BY <1>1, <2>4, <2>9 DEF EnqueueEmailSends
    <3> QED
      BY <1>1, <2>1, <2>2, <2>9, <3>1 DEF EnqueueEmailSends, TypeOK
  <2>10. CASE EnqueueEmailSendsFails(r)
    <3>1. Fault("redis") /\ "redis" \in FaultKinds
      BY <2>10 DEF EnqueueEmailSendsFails, FaultKinds
    <3>2. PICK n \in 0 .. Len(rows[r]) : jobs' = [jobs EXCEPT ![r] = n]
      BY <2>10 DEF EnqueueEmailSendsFails
    <3>3. jobs' \in [Requests -> Nat] /\ \A q \in Requests : jobs'[q] <= Len(rows[q])
      BY <1>1, <2>4, <3>2
    <3> QED
      BY <1>1, <2>1, <2>2, <2>10, <3>1, <3>3, FaultType DEF EnqueueEmailSendsFails, TypeOK
  <2>11. CASE Respond(r)
    BY <1>1, <2>1, <2>2, <2>11 DEF Respond, TypeOK
  <2> QED
    BY <1>6, <2>5, <2>7, <2>8, <2>9, <2>10, <2>11 DEF Campaigns
<1>7. CASE Reload
  <2>1. Fault("reload") /\ "reload" \in FaultKinds /\ << >> \in Seq(Tokens)
    BY <1>7, EmptySeq DEF Reload, FaultKinds
  <2> QED
    BY <1>1, <1>7, <2>1, FaultType DEF Reload, TypeOK, NoLeads
<1>8. CASE ApiCrash
  <2>1. Fault("crash") /\ "crash" \in FaultKinds
    BY <1>8 DEF ApiCrash, FaultKinds
  <2>2. \A r \in Requests : [request[r] EXCEPT !.stage = "error"] \in Rq
    BY <1>1 DEF Stages
  <2>3. request' \in [Requests -> Rq]
    BY <1>1, <1>8, <2>2 DEF ApiCrash
  <2> QED
    BY <1>1, <1>8, <2>1, <2>3, FaultType DEF ApiCrash, TypeOK
<1>9. CASE UNCHANGED vars
  BY <1>9 DEF vars, TypeOK
<1> QED
  BY <1>2, <1>3, <1>5, <1>6, <1>7, <1>8, <1>9 DEF Next
LEMMA StageFields ==
  ASSUME TypeOK, NEW r \in Requests, NEW stage, Stage(r, stage)
  PROVE  \A q \in Requests :
           /\ request'[q].drop = request[q].drop /\ request'[q].told = request[q].told
           /\ request'[q].recipients = request[q].recipients
           /\ request'[q].stage = IF q = r THEN stage ELSE request[q].stage
           /\ q # r => request'[q] = request[q]
<1>1. request' = [request EXCEPT ![r] = [request[r] EXCEPT !.stage = stage]]
  BY DEF Stage
<1> QED
  BY <1>1 DEF TypeOK

\* What the form and the connection make of a request.
LEMMA AnswerFields ==
  ASSUME TypeOK, NEW r \in Requests,
         FormSucceeds(r) \/ FormFails(r) \/ ConnectionBreaks(r)
  PROVE  /\ \A q \in Requests :
              /\ request'[q].drop = request[q].drop
              /\ request'[q].recipients = request[q].recipients
              /\ q # r => request'[q] = request[q]
         /\ pending = r /\ pending' = 0
         /\ request'[r].told = IF FormSucceeds(r) THEN "success" ELSE "error"
         /\ FormSucceeds(r) => request[r].stage = "created"
         /\ \/ request'[r].stage = request[r].stage
            \/ request[r].stage = "posted" /\ request'[r].stage = "lost"
         /\ request[r].stage # "posted" => request'[r].stage = request[r].stage
<1>1. CASE FormSucceeds(r)
  <2>1. request' = [request EXCEPT ![r] = [request[r] EXCEPT !.told = "success"]]
    BY <1>1 DEF FormSucceeds
  <2> QED
    BY <1>1, <2>1 DEF FormSucceeds, TypeOK
<1>2. CASE FormFails(r)
  <2>1. request' = [request EXCEPT ![r] = [request[r] EXCEPT !.told = "error"]]
    BY <1>2 DEF FormFails
  <2> QED
    BY <1>2, <2>1 DEF FormFails, FormSucceeds, TypeOK
<1>3. CASE ConnectionBreaks(r)
  <2>1. PICK stage : /\ request' = [request EXCEPT ![r].told = "error", ![r].stage = stage]
                     /\ stage = request[r].stage
                        \/ (stage = "lost" /\ request[r].stage = "posted")
    BY <1>3 DEF ConnectionBreaks
  <2>2. /\ request'[r] = [[request[r] EXCEPT !.told = "error"] EXCEPT !.stage = stage]
        /\ \A q \in Requests : q # r => request'[q] = request[q]
    BY <2>1 DEF TypeOK
  <2>3. request'[r].told = "error" /\ request'[r].stage = stage
        /\ request'[r].drop = request[r].drop
        /\ request'[r].recipients = request[r].recipients
    BY <2>2 DEF TypeOK
  <2>4. ~FormSucceeds(r)
    BY <2>3, <1>3 DEF FormSucceeds, TypeOK
  <2> QED
    BY <1>3, <2>1, <2>2, <2>3, <2>4 DEF ConnectionBreaks
<1> QED
  BY <1>1, <1>2, <1>3

LEMMA PostFields ==
  ASSUME TypeOK, StageInv, NEW r \in Requests, NEW d, NEW to, Post(r, d, to)
  PROVE  /\ \A q \in Requests :
              request'[q] = IF q = r THEN [drop |-> d, recipients |-> to,
                                           stage |-> "posted", told |-> "nothing"]
                            ELSE request[q]
         /\ \A q \in Requests : q < r => request[q].stage # "none"
         /\ \A q \in Requests : q > r => request[q].stage = "none"
         /\ rows[r] = << >> /\ jobs[r] = 0 /\ request[r] = NoRequest
<1>1. \A q \in Requests : q < r => q \in 1 .. r - 1
  BY DEF Requests
<1> QED
  BY <1>1 DEF Post, TypeOK, StageInv

LEMMA CrashFields ==
  ASSUME TypeOK, ApiCrash
  PROVE  \A q \in Requests :
           /\ request'[q].drop = request[q].drop /\ request'[q].told = request[q].told
           /\ request'[q].recipients = request[q].recipients
           /\ request'[q].stage = IF request[q].stage \in {"posted", "committed", "enqueued"}
                                  THEN "error" ELSE request[q].stage
           /\ request[q].stage = "none" => request'[q] = request[q]
<1>1. \A q \in Requests :
        request'[q] = IF request[q].stage \in {"posted", "committed", "enqueued"}
                      THEN [request[q] EXCEPT !.stage = "error"] ELSE request[q]
  BY DEF ApiCrash
<1> QED
  BY <1>1 DEF TypeOK

LEMMA StageStep == TypeOK /\ StageInv /\ [Next]_vars => StageInv'
<1> SUFFICES ASSUME TypeOK, StageInv, [Next]_vars PROVE StageInv'
  OBVIOUS
<1> USE DEF formVars
<1> DEFINE Posted(r) == request'[r].stage = "none" =>
             request'[r] = NoRequest /\ \A q \in Requests : q > r => request'[q].stage = "none"
           Empty(r) == request'[r].stage \in {"none", "posted"} =>
                         rows'[r] = << >> /\ jobs'[r] = 0
           Waits(r) == pending' = r => request'[r].drop # 0
           Blank == leads'.drop = 0 => leads'.valid = << >>
<1>1. SUFFICES (\A r \in Requests : Posted(r) /\ Empty(r) /\ Waits(r)) /\ Blank
  BY DEF StageInv
<1>2. /\ \A r \in Requests :
           /\ request[r].stage = "none" => /\ request[r] = NoRequest
                                           /\ \A q \in Requests : q > r => request[q].stage = "none"
           /\ request[r].stage \in {"none", "posted"} => rows[r] = << >> /\ jobs[r] = 0
           /\ pending = r => request[r].drop # 0
      /\ leads.drop = 0 => leads.valid = << >>
      /\ Requests \subseteq Nat \ {0}
  BY DEF StageInv, Requests
<1>3. CASE UNCHANGED <<request, rows, jobs, pending>> /\ Blank
  BY <1>2, <1>3
<1>4. ASSUME NEW d \in Drops, FileRead(d) PROVE Blank
  <2>1. d \in DOMAIN texts /\ d \in Nat \ {0} /\ texts[d] \in Seq(Tokens)
    BY <1>4, TextsType DEF FileRead, TypeOK
  <2>2. ParsedOf(d, texts[d], ParseLeads(d))
    BY <2>1, ParseCorrect DEF ParseLeads
  <2> QED
    BY <1>4, <2>1, <2>2 DEF FileRead, ParsedOf
<1>5. ASSUME NEW r \in Requests, NEW d, NEW to, Post(r, d, to), UNCHANGED <<rows, jobs, leads>>,
             pending' = pending \/ (pending' = r /\ d # 0)
      PROVE  (\A q \in Requests : Posted(q) /\ Empty(q) /\ Waits(q)) /\ Blank
  <2>1. /\ \A q \in Requests :
              request'[q] = IF q = r THEN [drop |-> d, recipients |-> to,
                                           stage |-> "posted", told |-> "nothing"]
                            ELSE request[q]
        /\ \A q \in Requests : q > r => request[q].stage = "none"
        /\ rows[r] = << >> /\ jobs[r] = 0 /\ request[r] = NoRequest
    BY <1>5, PostFields
  <2>2. ASSUME NEW q \in Requests PROVE Posted(q)
    <3>1. CASE q = r
      BY <2>1, <3>1
    <3>2. CASE q # r
      BY <1>2, <1>5, <2>1, <3>2, PostFields
    <3> QED
      BY <3>1, <3>2
  <2>3. ASSUME NEW q \in Requests PROVE Empty(q)
    <3>1. CASE q = r
      BY <1>5, <2>1, <3>1
    <3>2. CASE q # r
      <4>1. request'[q] = request[q]
        BY <2>1, <3>2
      <4> QED
        BY <1>2, <1>5, <4>1
    <3> QED
      BY <3>1, <3>2
  <2>4. ASSUME NEW q \in Requests PROVE Waits(q)
    <3>1. CASE q = r
      BY <1>2, <1>5, <2>1, <3>1 DEF NoRequest
    <3>2. CASE q # r
      <4>1. request'[q] = request[q]
        BY <2>1, <3>2
      <4> QED
        BY <1>2, <1>5, <3>2, <4>1
    <3> QED
      BY <3>1, <3>2
  <2> QED
    BY <1>2, <1>5, <2>2, <2>3, <2>4
<1>6. ASSUME NEW r \in Requests, FormSucceeds(r) \/ FormFails(r) \/ ConnectionBreaks(r)
      PROVE  (\A q \in Requests : Posted(q) /\ Empty(q) /\ Waits(q)) /\ Blank
  <2>1. UNCHANGED <<rows, jobs>> /\ (leads' = leads \/ leads' = NoLeads)
    BY <1>6 DEF FormSucceeds, FormFails, ConnectionBreaks
  <2>2. request[r].stage # "none"
    BY <1>2, <1>6, AnswerFields DEF NoRequest
  <2>3. /\ \A q \in Requests : q # r => request'[q] = request[q]
        /\ pending' = 0
        /\ \/ request'[r].stage = request[r].stage
           \/ request[r].stage = "posted" /\ request'[r].stage = "lost"
    BY <1>6, AnswerFields
  <2> QED
    BY <1>2, <2>1, <2>2, <2>3 DEF NoLeads
<1>7. ASSUME NEW r \in Requests, Campaigns(r)
      PROVE  (\A q \in Requests : Posted(q) /\ Empty(q) /\ Waits(q)) /\ Blank
  <2>1. PICK stage \in {"refused", "committed", "error", "enqueued", "created"} : Stage(r, stage)
    BY <1>7
       DEF Campaigns, Refuse, CreateCampaign, CreateCampaignFails, EnqueueEmailSends,
           EnqueueEmailSendsFails, Respond
  <2>2. /\ request[r].stage # "none" /\ UNCHANGED <<leads, pending>>
        /\ \A q \in Requests : q # r => rows'[q] = rows[q] /\ jobs'[q] = jobs[q]
    BY <1>7
       DEF Campaigns, Refuse, CreateCampaign, CreateCampaignFails, EnqueueEmailSends,
           EnqueueEmailSendsFails, Respond, TypeOK
  <2>3. \A q \in Requests : /\ request'[q].drop = request[q].drop
                            /\ request'[q].stage = IF q = r THEN stage ELSE request[q].stage
                            /\ q # r => request'[q] = request[q]
    BY <2>1, StageFields
  <2> QED
    BY <1>2, <2>1, <2>2, <2>3
<1>8. CASE ApiCrash
  <2>1. UNCHANGED <<rows, jobs, leads, pending>>
    BY <1>8 DEF ApiCrash
  <2> QED
    BY <1>2, <1>8, <2>1, CrashFields
<1>9. ASSUME NEW r \in Requests, Submit(r)
      PROVE  (\A q \in Requests : Posted(q) /\ Empty(q) /\ Waits(q)) /\ Blank
  BY <1>2, <1>5, <1>9 DEF Submit
<1>10. CASE Reload
  BY <1>2, <1>10 DEF Reload, NoLeads
<1>11. CASE UNCHANGED vars
  BY <1>2, <1>3, <1>11 DEF vars
<1> HIDE DEF Posted, Empty, Waits
<1>12. ASSUME NEW d \in Drops, FileRead(d) \/ \E text \in Contents : DropFile(d, text)
       PROVE  (\A q \in Requests : Posted(q) /\ Empty(q) /\ Waits(q)) /\ Blank
  BY <1>2, <1>3, <1>4, <1>12 DEF FileRead, DropFile
<1>13. ASSUME NEW r \in Requests, Compose(r)
       PROVE  (\A q \in Requests : Posted(q) /\ Empty(q) /\ Waits(q)) /\ Blank
  BY <1>5, <1>6, <1>9, <1>13 DEF Compose, ScriptPost
<1> QED
  BY <1>7, <1>8, <1>10, <1>11, <1>12, <1>13 DEF Next
\* Every reachable state is well-typed: no request has more jobs than it has rows.
THEOREM TypeCorrect == Spec => []TypeOK
<1> QED
  BY TypeInit, TypeStep, StageStep, PTL DEF Spec

-----------------------------------------------------------------------------
(* The leads *)

\* The leads of a file are what it is parsed into, and it is not read again.
LeadsInv ==
  leads.drop # 0 =>
    leads.drop \notin reading /\ ParsedOf(leads.drop, texts[leads.drop], leads)

LEMMA LeadsInit == Init => LeadsInv
BY DEF Init, LeadsInv, NoLeads

LEMMA LeadsStep == TypeOK /\ LeadsInv /\ [Next]_vars => LeadsInv'
<1> SUFFICES ASSUME TypeOK, LeadsInv, [Next]_vars PROVE LeadsInv'
  OBVIOUS
<1> USE DEF formVars
<1>1. CASE UNCHANGED <<leads, reading, texts>>
  BY <1>1 DEF LeadsInv
<1>2. CASE leads' = NoLeads
  BY <1>2 DEF LeadsInv, NoLeads
<1>3. ASSUME NEW d \in Drops, NEW text \in Contents, DropFile(d, text) PROVE LeadsInv'
  <2>1. leads.drop # 0 => leads.drop \in DOMAIN texts
    BY DEF TypeOK
  <2>2. d \notin DOMAIN texts /\ \A e \in DOMAIN texts : texts'[e] = texts[e]
    BY <1>3, DropType
  <2>3. leads' = leads /\ reading' = reading \cup {d}
    BY <1>3 DEF DropFile
  <2> QED
    BY <2>1, <2>2, <2>3 DEF LeadsInv
<1>4. ASSUME NEW d \in Drops, FileRead(d) PROVE LeadsInv'
  <2>1. d \in Nat /\ texts[d] \in Seq(Tokens)
    BY <1>4, TextsType DEF FileRead, TypeOK
  <2>2. ParsedOf(d, texts[d], leads') /\ texts' = texts /\ reading' = reading \ {d}
    BY <1>4, <2>1, ParseCorrect DEF FileRead, ParseLeads
  <2>3. leads'.drop = d
    BY <2>2 DEF ParsedOf
  <2> QED
    BY <2>2, <2>3 DEF LeadsInv
<1>5. ASSUME NEW r \in Requests, Compose(r) PROVE LeadsInv'
  BY <1>1, <1>2, <1>5
     DEF Compose, Submit, FormSucceeds, FormFails, ConnectionBreaks, ScriptPost
<1>6. ASSUME NEW r \in Requests, Campaigns(r) PROVE LeadsInv'
  BY <1>1, <1>6
     DEF Campaigns, Refuse, CreateCampaign, CreateCampaignFails, EnqueueEmailSends,
         EnqueueEmailSendsFails, Respond
<1> QED
  BY <1>1, <1>2, <1>3, <1>4, <1>5, <1>6 DEF Next, Reload, ApiCrash, vars

\* parseLeads, whatever the file holds and however long it is: each valid address once,
\* lowercased, every other valid token a duplicate, every broken one invalid.
THEOREM LeadsAreCorrect == Spec => []LeadsCorrect
<1>1. TypeOK /\ LeadsInv => LeadsCorrect
  <2> SUFFICES ASSUME TypeOK, LeadsInv, leads.drop # 0
               PROVE  LeadsCorrect
    BY DEF LeadsCorrect
  <2> DEFINE d == leads.drop
             text == texts[d]
             passing == {i \in 1 .. Len(text) : text[i].kind \in {"address", "loose"}}
  <2>1. /\ ToSet(leads.valid) = {Lowered(text[i]) : i \in passing}
        /\ Len(leads.valid) = Cardinality(ToSet(leads.valid))
        /\ leads.duplicates + Len(leads.valid) = Cardinality(passing)
        /\ leads.invalid = Cardinality({i \in 1 .. Len(text) : text[i].kind = "broken"})
    BY DEF LeadsInv, ParsedOf
  <2>2. leads.duplicates \in Nat /\ Len(leads.valid) \in Nat
    BY LenProperties DEF TypeOK
  <2>3. Cardinality(passing) \in Nat
    BY <2>1, <2>2
  <2>4. leads.duplicates = Cardinality(passing) - Len(leads.valid)
    <3> DEFINE c == Cardinality(passing)
               l == Len(leads.valid)
               u == leads.duplicates
    <3>1. u + l = c /\ u \in Nat /\ l \in Nat
      BY <2>1, <2>2
    <3> HIDE DEF c, l, u
    <3>2. u = c - l
      BY <3>1
    <3> QED
      BY <3>2 DEF c, l, u
  <2> QED
    BY <2>1, <2>4 DEF LeadsCorrect
<1> QED
  BY <1>1, TypeInit, TypeStep, StageStep, LeadsInit, LeadsStep, PTL DEF Spec

-----------------------------------------------------------------------------
(* The rows and the jobs of a campaign *)

\* What the form posts: the leads of a file.
AreLeads(to) == NoRepeats(to) /\ \A i \in 1 .. Len(to) : to[i].upper = FALSE

LEMMA LeadsPosted ==
  ASSUME TypeOK, LeadsInv, leads.drop # 0
  PROVE  AreLeads(leads.valid)
<1> DEFINE text == texts[leads.drop]
           passing == {i \in 1 .. Len(text) : text[i].kind \in {"address", "loose"}}
<1>1. /\ ToSet(leads.valid) = {Lowered(text[i]) : i \in passing} /\ NoRepeats(leads.valid)
      /\ leads.valid \in Seq(Tokens)
  BY DEF LeadsInv, ParsedOf, TypeOK
<1>2. leads.drop \in DOMAIN texts
  BY DEF TypeOK
<1>3. \A i \in passing : Lowered(text[i]).upper = FALSE
  <2>1. text \in Seq(Tokens)
    BY <1>2, TextsType
  <2>2. \A i \in 1 .. Len(text) : text[i] \in Tokens
    BY <2>1, ElementOfSeq
  <2> QED
    BY <2>2 DEF Lowered, Tokens
<1>4. \A i \in 1 .. Len(leads.valid) : leads.valid[i] \in ToSet(leads.valid)
  BY <1>1, LenProperties DEF ToSet
<1> HIDE DEF passing, text
<1> QED
  BY <1>1, <1>3, <1>4 DEF AreLeads

\* A request with rows was accepted, and they are its recipients without repetition; one
\* that got past its transaction has them, one that got past its enqueue a job of each.
\* What came from the form was leads, and a success is told of a created campaign.
CampaignOf(q, own, queued) ==
  /\ own # << >> => Accepts(q.recipients) /\ own = Dedupe(q.recipients)
  /\ q.stage \in {"committed", "enqueued", "created"} => own = Dedupe(q.recipients)
  /\ q.stage \in {"enqueued", "created"} => queued = Len(own)
  /\ q.drop # 0 => AreLeads(q.recipients)
  /\ q.told = "success" => q.stage = "created" /\ q.drop # 0

CampaignInv == \A r \in Requests : CampaignOf(request[r], rows[r], jobs[r])

LEMMA CampaignInit == Init => CampaignInv
BY DEF Init, CampaignInv, CampaignOf, NoRequest

LEMMA CampaignStep ==
  TypeOK /\ StageInv /\ LeadsInv /\ CampaignInv /\ [Next]_vars => CampaignInv'
<1> SUFFICES ASSUME TypeOK, StageInv, LeadsInv, CampaignInv, [Next]_vars PROVE CampaignInv'
  OBVIOUS
<1> USE DEF formVars
<1>1. \A r \in Requests : CampaignOf(request[r], rows[r], jobs[r])
  BY DEF CampaignInv
<1>2. CASE UNCHANGED <<request, rows, jobs>>
  BY <1>2 DEF CampaignInv
<1>3. ASSUME NEW r \in Requests, NEW d, NEW to, Post(r, d, to), UNCHANGED <<rows, jobs>>,
             d # 0 => AreLeads(to)
      PROVE  CampaignInv'
  <2>1. ASSUME NEW q \in Requests PROVE CampaignOf(request'[q], rows'[q], jobs'[q])
    <3>1. CASE q = r
      <4>1. request'[q] = [drop |-> d, recipients |-> to, stage |-> "posted",
                           told |-> "nothing"] /\ rows'[q] = << >>
        BY <1>3, <3>1, PostFields
      <4> QED
        BY <1>3, <4>1 DEF CampaignOf
    <3>2. CASE q # r
      <4>1. request'[q] = request[q]
        BY <1>3, <3>2, PostFields
      <4> QED
        BY <1>1, <1>3, <4>1
    <3> QED
      BY <3>1, <3>2
  <2> QED
    BY <2>1 DEF CampaignInv
<1>4. ASSUME NEW r \in Requests, Submit(r) PROVE CampaignInv'
  <2>1. leads.drop # 0
    BY <1>4 DEF Submit, StageInv
  <2> QED
    BY <1>3, <1>4, <2>1, LeadsPosted DEF Submit
<1>5. ASSUME NEW r \in Requests, FormSucceeds(r) \/ FormFails(r) \/ ConnectionBreaks(r)
      PROVE  CampaignInv'
  <2>1. UNCHANGED <<rows, jobs>>
    BY <1>5 DEF FormSucceeds, FormFails, ConnectionBreaks
  <2>2. \A q \in Requests : q # r => request'[q] = request[q]
    BY <1>5, AnswerFields
  <2>3. CampaignOf(request'[r], rows[r], jobs[r])
    <3>1. /\ request'[r].drop = request[r].drop
          /\ request'[r].recipients = request[r].recipients
          /\ pending = r
          /\ request'[r].told = IF FormSucceeds(r) THEN "success" ELSE "error"
          /\ FormSucceeds(r) => request[r].stage = "created"
          /\ \/ request'[r].stage = request[r].stage
             \/ request[r].stage = "posted" /\ request'[r].stage = "lost"
          /\ request[r].stage # "posted" => request'[r].stage = request[r].stage
      BY <1>5, AnswerFields
    <3>2. request[r].drop # 0
      BY <3>1 DEF StageInv
    <3>3. CampaignOf(request[r], rows[r], jobs[r])
      BY <1>1
    <3>4. request'[r].told = "success" => request'[r].stage = "created"
      BY <3>1
    <3> QED
      BY <3>1, <3>2, <3>3, <3>4 DEF CampaignOf
  <2> QED
    BY <1>1, <2>1, <2>2, <2>3 DEF CampaignInv
<1>6. ASSUME NEW r \in Requests, Campaigns(r) PROVE CampaignInv'
  <2> DEFINE to == request[r].recipients
  <2>1. CampaignOf(request[r], rows[r], jobs[r])
    BY <1>1
  <2>2. ASSUME NEW stage, Stage(r, stage), stage # "none", request[r].stage # "created",
               CampaignOf([request[r] EXCEPT !.stage = stage], rows'[r], jobs'[r]),
               \A q \in Requests : q # r => rows'[q] = rows[q] /\ jobs'[q] = jobs[q]
        PROVE  CampaignInv'
    <3>1. request' = [request EXCEPT ![r] = [request[r] EXCEPT !.stage = stage]]
      BY <2>2 DEF Stage
    <3>2. request'[r] = [request[r] EXCEPT !.stage = stage]
          /\ \A q \in Requests : q # r => request'[q] = request[q]
      BY <3>1 DEF TypeOK
    <3> QED
      BY <1>1, <2>2, <3>2 DEF CampaignInv
  <2>3. ASSUME NEW stage
        PROVE  LET q == [request[r] EXCEPT !.stage = stage]
               IN q.drop = request[r].drop /\ q.recipients = to /\ q.stage = stage
                  /\ q.told = request[r].told
    BY DEF TypeOK
  <2>4. request[r].stage \notin {"created"} => request[r].told # "success"
    BY <2>1 DEF CampaignOf
  <2>5. CASE Refuse(r)
    BY <2>1, <2>2, <2>3, <2>4, <2>5 DEF Refuse, CampaignOf
  <2>6. ASSUME rows' = [rows EXCEPT ![r] = Dedupe(to)]
        PROVE  rows'[r] = Dedupe(to) /\ \A q \in Requests : q # r => rows'[q] = rows[q]
    BY <2>6 DEF TypeOK
  <2>7. CASE CreateCampaign(r)
    BY <2>1, <2>2, <2>3, <2>4, <2>6, <2>7 DEF CreateCampaign, CampaignOf
  <2>8. CASE CreateCampaignFails(r)
    BY <2>1, <2>2, <2>3, <2>4, <2>6, <2>8 DEF CreateCampaignFails, CampaignOf
  <2>9. CASE EnqueueEmailSends(r)
    <3>1. jobs'[r] = Len(rows[r]) /\ \A q \in Requests : q # r => jobs'[q] = jobs[q]
      BY <2>9 DEF EnqueueEmailSends, TypeOK
    <3> QED
      BY <2>1, <2>2, <2>3, <2>4, <2>9, <3>1 DEF EnqueueEmailSends, CampaignOf
  <2>10. CASE EnqueueEmailSendsFails(r)
    <3>1. \A q \in Requests : q # r => jobs'[q] = jobs[q]
      BY <2>10 DEF EnqueueEmailSendsFails, TypeOK
    <3> QED
      BY <2>1, <2>2, <2>3, <2>4, <2>10, <3>1 DEF EnqueueEmailSendsFails, CampaignOf
  <2>11. CASE Respond(r)
    BY <2>1, <2>2, <2>3, <2>4, <2>11 DEF Respond, CampaignOf
  <2> QED
    BY <1>6, <2>5, <2>7, <2>8, <2>9, <2>10, <2>11 DEF Campaigns
<1>7. CASE ApiCrash
  <2>1. ASSUME NEW r \in Requests PROVE CampaignOf(request'[r], rows[r], jobs[r])
    <3>1. CampaignOf(request[r], rows[r], jobs[r])
      BY <1>1
    <3> QED
      BY <1>7, <3>1, CrashFields DEF CampaignOf
  <2> QED
    BY <1>7, <2>1 DEF ApiCrash, CampaignInv
<1>8. ASSUME NEW r \in Requests, NEW to \in ScriptBodies, ScriptPost(r, to)
      PROVE  CampaignInv'
  BY <1>3, <1>8 DEF ScriptPost
<1>9. CASE UNCHANGED vars
  BY <1>2, <1>9 DEF vars
<1>10. CASE Reload
  BY <1>2, <1>10 DEF Reload
<1>11. ASSUME NEW d \in Drops, FileRead(d) \/ \E text \in Contents : DropFile(d, text)
       PROVE  CampaignInv'
  BY <1>2, <1>11 DEF FileRead, DropFile
<1> QED
  BY <1>4, <1>5, <1>6, <1>7, <1>8, <1>9, <1>10, <1>11 DEF Next, Compose

\* No campaign has two rows of a recipient, whatever was posted, nor has one of the form
\* two rows of an address, whatever the file.
THEOREM RowsAreDistinct == Spec => []OneRowPerRecipient
<1>1. TypeOK /\ CampaignInv => OneRowPerRecipient
  <2> SUFFICES ASSUME TypeOK, CampaignInv, NEW r \in Requests,
                      NEW i \in 1 .. Len(rows[r]), NEW j \in 1 .. Len(rows[r]), i # j
               PROVE  /\ rows[r][i] # rows[r][j]
                      /\ request[r].drop # 0 => rows[r][i].box # rows[r][j].box
    BY DEF OneRowPerRecipient
  <2> DEFINE to == request[r].recipients
  <2>1. to \in Seq(Tokens)
    BY DEF TypeOK
  <2>2. rows[r] # << >>
    BY EmptySeq
  <2>3. Accepts(to) /\ rows[r] = Dedupe(to) /\ (request[r].drop # 0 => AreLeads(to))
    BY <2>2 DEF CampaignInv, CampaignOf
  <2>4. NoRepeats(Dedupe(to)) /\ (NoRepeats(to) => Dedupe(to) = to)
    BY <2>1, DedupeCorrect
  <2>5. rows[r][i] # rows[r][j]
    BY <2>3, <2>4 DEF NoRepeats
  <2>6. ASSUME request[r].drop # 0 PROVE rows[r][i].box # rows[r][j].box
    <3>1. rows[r] = to
      BY <2>3, <2>4, <2>6 DEF AreLeads
    <3>2. /\ to[i] \in Tokens /\ to[i].upper = FALSE /\ to[i].kind = "address"
          /\ to[j] \in Tokens /\ to[j].upper = FALSE /\ to[j].kind = "address"
      BY <2>1, <2>3, <2>6, <3>1, ElementOfSeq DEF AreLeads, Accepts
    <3>3. to[i].box # to[j].box
      BY <2>5, <3>1, <3>2 DEF Tokens
    <3> QED
      BY <3>1, <3>3
  <2> QED
    BY <2>5, <2>6
<1> QED
  BY <1>1, TypeInit, TypeStep, StageStep, LeadsInit, LeadsStep, CampaignInit, CampaignStep,
     PTL DEF Spec

\* Who is told of a success has exactly the rows of the leads submitted, each with a job.
THEOREM SuccessIsTrue == Spec => []SuccessMeansScheduled
<1>1. TypeOK /\ CampaignInv => SuccessMeansScheduled
  <2> SUFFICES ASSUME TypeOK, CampaignInv, NEW r \in Requests, request[r].told = "success"
               PROVE  rows[r] = request[r].recipients /\ jobs[r] = Len(rows[r])
    BY DEF SuccessMeansScheduled
  <2>1. /\ rows[r] = Dedupe(request[r].recipients) /\ jobs[r] = Len(rows[r])
        /\ NoRepeats(request[r].recipients)
    BY DEF CampaignInv, CampaignOf, AreLeads
  <2>2. request[r].recipients \in Seq(Tokens)
    BY DEF TypeOK
  <2> QED
    BY <2>1, <2>2, DedupeCorrect
<1> QED
  BY <1>1, TypeInit, TypeStep, StageStep, LeadsInit, LeadsStep, CampaignInit, CampaignStep,
     PTL DEF Spec

-----------------------------------------------------------------------------
(* Submitted again *)

\* The leads of an attempt the user has not been told the failure of are in the form only
\* while the form waits for that attempt, and cannot come back to it: its file is not
\* being read any more.
AttemptOf(r, q) ==
  /\ pending = r => q.told = "nothing"
  /\ q.drop # 0 => /\ q.drop \notin reading
                   /\ q.told = "error" \/ pending = r \/ leads.drop # q.drop

AttemptInv ==
  /\ \A r \in Requests : AttemptOf(r, request[r])
  /\ ResubmittedOnlyAfterError

LEMMA AttemptInit == Init => AttemptInv
BY DEF Init, AttemptInv, AttemptOf, ResubmittedOnlyAfterError, NoRequest, Requests

LEMMA AttemptStep ==
  TypeOK /\ StageInv /\ LeadsInv /\ AttemptInv /\ [Next]_vars => AttemptInv'
<1> SUFFICES ASSUME TypeOK, StageInv, LeadsInv, AttemptInv, [Next]_vars PROVE AttemptInv'
  OBVIOUS
<1> USE DEF formVars
<1>1. /\ \A r \in Requests :
           /\ pending = r => request[r].told = "nothing"
           /\ request[r].drop # 0 =>
                /\ request[r].drop \notin reading
                /\ request[r].told = "error" \/ pending = r \/ leads.drop # request[r].drop
      /\ \A q, r \in Requests :
           q < r /\ request[r].stage # "none" /\ request[r].drop # 0
                 /\ request[r].drop = request[q].drop => request[q].told = "error"
      /\ Requests \subseteq Nat \ {0}
  BY DEF AttemptInv, AttemptOf, ResubmittedOnlyAfterError, Requests
<1> DEFINE Kept(r) ==
             /\ pending' = r => request'[r].told = "nothing"
             /\ request'[r].drop # 0 =>
                  /\ request'[r].drop \notin reading'
                  /\ request'[r].told = "error" \/ pending' = r
                     \/ leads'.drop # request'[r].drop
           Again(q, r) ==
             q < r /\ request'[r].stage # "none" /\ request'[r].drop # 0
                   /\ request'[r].drop = request'[q].drop => request'[q].told = "error"
<1>2. ASSUME \A r \in Requests : Kept(r), \A q, r \in Requests : Again(q, r)
      PROVE  AttemptInv'
  BY <1>2 DEF AttemptInv, AttemptOf, ResubmittedOnlyAfterError
<1>3. ASSUME \A q \in Requests :
               /\ request'[q].drop = request[q].drop /\ request'[q].told = request[q].told
               /\ request'[q].stage # "none" => request[q].stage # "none",
             reading' = reading \/ reading' = {}, leads' = leads \/ leads' = NoLeads,
             pending' = pending \/ (pending' = 0 /\ leads' = NoLeads)
      PROVE  AttemptInv'
  <2>1. ASSUME NEW r \in Requests PROVE Kept(r)
    <3>1. r # 0
      BY <1>1
    <3>2. pending' = r => pending = r
      BY <1>3, <3>1
    <3>3. NoLeads.drop = 0
      BY DEF NoLeads
    <3>4. \A d : d # 0 /\ leads.drop # d => leads'.drop # d
      BY <1>3, <3>3
    <3>5. pending = r => pending' = r \/ leads'.drop = 0
      BY <1>3, <3>3
    <3>6. \A d : d \notin reading => d \notin reading'
      BY <1>3
    <3>7. request'[r].drop = request[r].drop /\ request'[r].told = request[r].told
      BY <1>3
    <3> QED
      <4>1. pending' = r => request'[r].told = "nothing"
        BY <1>1, <3>2, <3>7
      <4>2. request'[r].drop # 0 => request'[r].drop \notin reading'
        BY <1>1, <3>6, <3>7
      <4>3. request'[r].drop # 0 => request'[r].told = "error" \/ pending' = r
                                    \/ leads'.drop # request'[r].drop
        BY <1>1, <3>4, <3>5, <3>7
      <4> QED
        BY <4>1, <4>2, <4>3
  <2>2. ASSUME NEW q \in Requests, NEW r \in Requests PROVE Again(q, r)
    BY <1>1, <1>3
  <2> QED
    BY <1>2, <2>1, <2>2
<1>4. ASSUME NEW d \in Drops, NEW text \in Contents, DropFile(d, text) PROVE AttemptInv'
  <2>1. d \notin DOMAIN texts /\ \A r \in Requests : request[r].drop \in {0} \cup DOMAIN texts
    BY <1>4, DropType DEF TypeOK
  <2>2. d # 0 /\ reading' = reading \cup {d} /\ UNCHANGED <<leads, pending, request>>
    BY <1>4 DEF DropFile, Drops
  <2>3. ASSUME NEW r \in Requests PROVE Kept(r)
    BY <1>1, <2>1, <2>2
  <2>4. ASSUME NEW q \in Requests, NEW r \in Requests PROVE Again(q, r)
    BY <1>1, <2>2
  <2> QED
    BY <1>2, <2>3, <2>4
<1>5. ASSUME NEW d \in Drops, FileRead(d) PROVE AttemptInv'
  <2>1. d \in reading /\ reading' = reading \ {d} /\ UNCHANGED <<pending, request>>
    BY <1>5 DEF FileRead
  <2>2. leads'.drop = d
    <3>1. d \in Nat /\ texts[d] \in Seq(Tokens)
      BY <2>1, TextsType DEF TypeOK
    <3> QED
      BY <1>5, <3>1, ParseCorrect DEF FileRead, ParseLeads, ParsedOf
  <2>3. ASSUME NEW r \in Requests PROVE Kept(r)
    BY <1>1, <2>1, <2>2
  <2>4. ASSUME NEW q \in Requests, NEW r \in Requests PROVE Again(q, r)
    BY <1>1, <2>1
  <2> QED
    BY <1>2, <2>3, <2>4
<1>6. ASSUME NEW r \in Requests, Submit(r) PROVE AttemptInv'
  <2>1. leads.drop # 0 /\ leads.drop \notin reading
    BY <1>6 DEF Submit, StageInv, LeadsInv
  <2>2. /\ \A q \in Requests :
              /\ q # r => request'[q] = request[q]
              /\ q > r => request[q].stage = "none"
        /\ request'[r].drop = leads.drop /\ request'[r].told = "nothing"
        /\ pending = 0 /\ pending' = r /\ reading' = reading /\ leads' = leads
    <3>1. Post(r, leads.drop, leads.valid)
      BY <1>6 DEF Submit
    <3>2. /\ \A q \in Requests :
                request'[q] = IF q = r THEN [drop |-> leads.drop, recipients |-> leads.valid,
                                             stage |-> "posted", told |-> "nothing"]
                              ELSE request[q]
          /\ \A q \in Requests : q > r => request[q].stage = "none"
      BY <3>1, PostFields
    <3> QED
      BY <1>6, <3>2 DEF Submit
  <2>3. ASSUME NEW q \in Requests PROVE Kept(q)
    <3>1. CASE q = r
      BY <2>1, <2>2, <3>1
    <3>2. CASE q # r
      BY <1>1, <2>1, <2>2, <3>2
    <3> QED
      BY <3>1, <3>2
  <2>4. ASSUME NEW q \in Requests, NEW s \in Requests PROVE Again(q, s)
    <3>1. CASE s = r
      BY <1>1, <2>1, <2>2, <3>1
    <3>2. CASE s # r /\ q # r
      BY <1>1, <2>2, <3>2
    <3>3. CASE s # r /\ q = r
      BY <1>1, <2>2, <3>3
    <3> QED
      BY <3>1, <3>2, <3>3
  <2> QED
    BY <1>2, <2>3, <2>4
<1>7. ASSUME NEW r \in Requests, FormSucceeds(r) \/ FormFails(r) \/ ConnectionBreaks(r)
      PROVE  AttemptInv'
  <2>1. /\ \A q \in Requests : q # r => request'[q] = request[q]
        /\ request'[r].drop = request[r].drop /\ pending = r /\ pending' = 0
        /\ request'[r].told = IF FormSucceeds(r) THEN "success" ELSE "error"
    BY <1>7, AnswerFields
  <2>2. request[r].stage # "none" /\ request[r].told = "nothing"
    BY <1>1, <2>1 DEF StageInv, NoRequest
  <2>3. reading' = reading /\ (leads' = leads \/ leads' = NoLeads)
        /\ (FormSucceeds(r) => leads' = NoLeads)
    BY <1>7 DEF FormSucceeds, FormFails, ConnectionBreaks
  <2>4. ASSUME NEW q \in Requests PROVE Kept(q)
    <3>1. CASE q = r
      BY <1>1, <2>1, <2>3, <3>1 DEF NoLeads
    <3>2. CASE q # r
      BY <1>1, <2>1, <2>3, <3>2 DEF NoLeads
    <3> QED
      BY <3>1, <3>2
  <2>5. ASSUME NEW q \in Requests, NEW s \in Requests PROVE Again(q, s)
    <3>1. CASE s # r /\ q # r
      BY <1>1, <2>1, <3>1
    <3>2. CASE s = r /\ q # r
      BY <1>1, <2>1, <2>2, <3>2
    <3>3. CASE s # r /\ q = r
      BY <1>1, <2>1, <2>2, <3>3
    <3>4. CASE s = r /\ q = r
      BY <1>1, <3>4
    <3> QED
      BY <3>1, <3>2, <3>3, <3>4
  <2> QED
    BY <1>2, <2>4, <2>5
<1>8. ASSUME NEW r \in Requests, NEW to \in ScriptBodies, ScriptPost(r, to) PROVE AttemptInv'
  <2>1. /\ \A q \in Requests :
              /\ q # r => request'[q] = request[q]
              /\ q > r => request[q].stage = "none"
        /\ request'[r].drop = 0 /\ request'[r].told = "nothing"
        /\ UNCHANGED <<pending, reading, leads>>
    <3>1. Post(r, 0, to)
      BY <1>8 DEF ScriptPost
    <3>2. /\ \A q \in Requests :
                request'[q] = IF q = r THEN [drop |-> 0, recipients |-> to,
                                             stage |-> "posted", told |-> "nothing"]
                              ELSE request[q]
          /\ \A q \in Requests : q > r => request[q].stage = "none"
      BY <3>1, PostFields
    <3> QED
      BY <1>8, <3>2 DEF ScriptPost
  <2>2. ASSUME NEW q \in Requests PROVE Kept(q)
    BY <1>1, <2>1
  <2>3. ASSUME NEW q \in Requests, NEW s \in Requests PROVE Again(q, s)
    BY <1>1, <2>1
  <2> QED
    BY <1>2, <2>2, <2>3
<1>9. ASSUME NEW r \in Requests, Campaigns(r) PROVE AttemptInv'
  <2>1. PICK stage \in {"refused", "committed", "error", "enqueued", "created"} : Stage(r, stage)
    BY <1>9
       DEF Campaigns, Refuse, CreateCampaign, CreateCampaignFails, EnqueueEmailSends,
           EnqueueEmailSendsFails, Respond
  <2>2. request[r].stage # "none" /\ UNCHANGED <<leads, pending, reading>>
    BY <1>9
       DEF Campaigns, Refuse, CreateCampaign, CreateCampaignFails, EnqueueEmailSends,
           EnqueueEmailSendsFails, Respond
  <2> QED
    BY <1>3, <2>1, <2>2, StageFields
<1>10. CASE Reload
  BY <1>3, <1>10 DEF Reload
<1>11. CASE ApiCrash
  BY <1>3, <1>11, CrashFields DEF ApiCrash
<1>12. CASE UNCHANGED vars
  BY <1>3, <1>12 DEF vars
<1> QED
  BY <1>4, <1>5, <1>6, <1>7, <1>8, <1>9, <1>10, <1>11, <1>12 DEF Next, Compose

\* A file becomes a second campaign only when its user was told that the first attempt had
\* failed.
THEOREM SubmittedOnce == Spec => []ResubmittedOnlyAfterError
<1>1. AttemptInv => ResubmittedOnlyAfterError
  BY DEF AttemptInv
<1> QED
  BY <1>1, TypeInit, TypeStep, StageStep, LeadsInit, LeadsStep, AttemptInit, AttemptStep,
     PTL DEF Spec

===============================================================================
