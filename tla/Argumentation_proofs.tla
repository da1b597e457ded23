------------------------ MODULE Argumentation_proofs ------------------------
(***************************************************************************)
(* Theorems about Argumentation, for any number of rounds, any answers of  *)
(* the model and any limits of the configuration: what each validator      *)
(* accepts keeps the graph sound, fits the next stage, and leaves the      *)
(* beginning of the accumulated graph where it was.                        *)
(***************************************************************************)
EXTENDS Argumentation, FiniteSetTheorems, TLAPS

-----------------------------------------------------------------------------
(* Sequences without repetition, and sets in an order.                      *)

\* Comparing the sizes, as the validators do, finds every repetition.
LEMMA DistinctMeansInjective ==
  ASSUME NEW T, NEW s \in Seq(T)
  PROVE  Distinct(s) <=> \A i, j \in DOMAIN s : s[i] = s[j] => i = j
<1>1. s \in Surjection(1..Len(s), ToSet(s))
  BY DEF Surjection, ToSet
<1>2. IsFiniteSet(1..Len(s)) /\ Cardinality(1..Len(s)) = Len(s)
  <2>1. Len(s) \in Nat
    OBVIOUS
  <2>2. QED BY <2>1, FS_Interval, SMTT(30)
<1>3. Cardinality(ToSet(s)) = Len(s) <=> s \in Injection(1..Len(s), ToSet(s))
  BY <1>1, <1>2, FS_Surjection
<1>4. s \in Injection(1..Len(s), ToSet(s))
        <=> \A i, j \in 1..Len(s) : s[i] = s[j] => i = j
  BY <1>1 DEF Injection, Surjection, IsInjective
<1>5. QED BY <1>3, <1>4 DEF Distinct

IsOrder(S, R) ==
  /\ \A x \in S : <<x, x>> \notin R
  /\ \A x, y, z \in S : <<x, y>> \in R /\ <<y, z>> \in R => <<x, z>> \in R
  /\ \A x, y \in S : x = y \/ <<x, y>> \in R \/ <<y, x>> \in R

Before(S, R, x) == {y \in S : <<y, x>> \in R}
Rank(S, R, x) == Cardinality(Before(S, R, x))

\* The rank of a member is the number of those before it: ranks are different
\* and, counted from zero, take every value below the size of the set.
LEMMA RanksCount ==
  ASSUME NEW S, IsFiniteSet(S), NEW R, IsOrder(S, R)
  PROVE  /\ \A x \in S : Rank(S, R, x) \in 0..(Cardinality(S) - 1)
         /\ \A x, y \in S : <<x, y>> \in R => Rank(S, R, x) < Rank(S, R, y)
         /\ \A k \in 1..Cardinality(S) : \E x \in S : Rank(S, R, x) = k - 1
<1> DEFINE n == Cardinality(S)
           f == [x \in S |-> Rank(S, R, x) + 1]
<1>0. n \in Nat
  BY FS_CardinalityType
<1> HIDE DEF n
<1>1. ASSUME NEW x \in S
      PROVE  IsFiniteSet(Before(S, R, x)) /\ Rank(S, R, x) \in 0..(n - 1)
  <2> DEFINE others == S \ {x}
  <2>1. Before(S, R, x) \in SUBSET others
    BY DEF IsOrder, Before
  <2>2. IsFiniteSet(others) /\ Cardinality(others) = n - 1
    BY FS_RemoveElement DEF n
  <2> HIDE DEF others
  <2>3. IsFiniteSet(Before(S, R, x)) /\ Rank(S, R, x) <= n - 1
    BY <2>1, <2>2, FS_Subset DEF Rank
  <2>4. Rank(S, R, x) \in Nat
    BY <2>3, FS_CardinalityType DEF Rank
  <2>5. QED BY <1>0, <2>3, <2>4
<1>2. ASSUME NEW x \in S, NEW y \in S, <<x, y>> \in R
      PROVE  Rank(S, R, x) < Rank(S, R, y)
  <2>1. Before(S, R, x) \in SUBSET Before(S, R, y)
    BY <1>2 DEF IsOrder, Before
  <2>2. x \in Before(S, R, y) /\ x \notin Before(S, R, x)
    BY <1>2 DEF IsOrder, Before
  <2>3. Rank(S, R, x) <= Rank(S, R, y) /\ Rank(S, R, x) # Rank(S, R, y)
    BY <1>1, <2>1, <2>2, FS_Subset DEF Rank
  <2>4. QED BY <1>0, <1>1, <2>3
<1>3. \A x \in S : Rank(S, R, x) \in Int /\ Rank(S, R, x) + 1 \in 1..n
  BY <1>0, <1>1
<1>4. f \in [S -> 1..n]
  BY <1>3
<1>5. f \in Injection(S, 1..n)
  <2>1. ASSUME NEW x \in S, NEW y \in S, f[x] = f[y]
        PROVE  x = y
    <3>1. Rank(S, R, x) = Rank(S, R, y)
      BY <1>3, <2>1
    <3>2. ~(<<x, y>> \in R) /\ ~(<<y, x>> \in R)
      BY <1>2, <1>3, <3>1
    <3>3. QED BY <3>2 DEF IsOrder
  <2>2. QED BY <1>4, <2>1 DEF Injection, IsInjective
<1>6. f \in Surjection(S, 1..n)
  <2>1. IsFiniteSet(1..n) /\ Cardinality(1..n) = n
    BY <1>0, FS_Interval
  <2>2. Cardinality(S) = n
    BY DEF n
  <2>3. QED BY <1>5, <2>1, <2>2, FS_Injection
<1>7. ASSUME NEW k \in 1..n
      PROVE  \E x \in S : Rank(S, R, x) = k - 1
  <2>1. PICK x \in S : f[x] = k
    BY <1>6 DEF Surjection
  <2>2. Rank(S, R, x) + 1 = k /\ Rank(S, R, x) \in Int
    BY <1>3, <2>1
  <2>3. QED BY <2>2
<1>8. QED BY <1>1, <1>2, <1>7 DEF n

\* Sorted holds every member once, at the place after those before it.
LEMMA SortedHoldsEach ==
  ASSUME NEW S, IsFiniteSet(S), NEW R, IsOrder(S, R)
  PROVE  /\ Sorted(S, R) \in [1..Cardinality(S) -> S]
         /\ \A k \in 1..Cardinality(S) : Rank(S, R, Sorted(S, R)[k]) = k - 1
         /\ \A x \in S : /\ Rank(S, R, x) + 1 \in 1..Cardinality(S)
                         /\ Sorted(S, R)[Rank(S, R, x) + 1] = x
<1>0. Cardinality(S) \in Nat
  BY FS_CardinalityType
<1>1. ASSUME NEW k \in 1..Cardinality(S)
      PROVE  Sorted(S, R)[k] \in S /\ Rank(S, R, Sorted(S, R)[k]) = k - 1
  <2>1. \E x \in S : Cardinality({y \in S : <<y, x>> \in R}) = k - 1
    BY RanksCount, SMTT(30) DEF Rank, Before
  <2>2. Sorted(S, R)[k] = CHOOSE x \in S : Cardinality({y \in S : <<y, x>> \in R}) = k - 1
    BY DEF Sorted
  <2>3. QED BY <2>1, <2>2 DEF Rank, Before
<1>2. Sorted(S, R) \in [1..Cardinality(S) -> S]
  BY <1>1 DEF Sorted
<1>3. ASSUME NEW x \in S
      PROVE  /\ Rank(S, R, x) + 1 \in 1..Cardinality(S)
             /\ Sorted(S, R)[Rank(S, R, x) + 1] = x
  <2> DEFINE k == Rank(S, R, x) + 1
             y == Sorted(S, R)[k]
  <2>1. k \in 1..Cardinality(S) /\ k - 1 = Rank(S, R, x)
    BY <1>0, RanksCount
  <2>2. y \in S /\ Rank(S, R, y) = Rank(S, R, x)
    BY <1>1, <2>1
  <2>3. ~(<<x, y>> \in R) /\ ~(<<y, x>> \in R)
    BY <2>2, RanksCount
  <2>4. QED BY <2>1, <2>2, <2>3 DEF IsOrder
<1>4. QED BY <1>1, <1>2, <1>3

\* What comes after all that is there extends the sequence at its end.
LEMMA SortedGrowsAtTheEnd ==
  ASSUME NEW S, NEW T, IsFiniteSet(T), S \subseteq T, NEW R, NEW Q,
         IsOrder(S, R), IsOrder(T, Q),
         \A x, y \in S : <<x, y>> \in R <=> <<x, y>> \in Q,
         \A x \in S, y \in T \ S : <<y, x>> \notin Q
  PROVE  IsPrefix(Sorted(S, R), Sorted(T, Q))
<1>1. IsFiniteSet(S) /\ Cardinality(S) <= Cardinality(T)
  BY FS_Subset
<1>2. Cardinality(S) \in Nat /\ Cardinality(T) \in Nat
  BY <1>1, FS_CardinalityType
<1>3. ASSUME NEW k \in 1..Cardinality(S)
      PROVE  Sorted(S, R)[k] = Sorted(T, Q)[k]
  <2> DEFINE x == Sorted(S, R)[k]
  <2>1. /\ Sorted(S, R) \in [1..Cardinality(S) -> S]
        /\ \A j \in 1..Cardinality(S) : Rank(S, R, Sorted(S, R)[j]) = j - 1
    BY <1>1, SortedHoldsEach
  <2>2. x \in S /\ Rank(S, R, x) = k - 1
    BY <2>1
  <2> HIDE DEF x
  <2>3. Before(S, R, x) = Before(T, Q, x)
    BY <2>2 DEF Before
  <2>4. Rank(T, Q, x) + 1 = k
    BY <1>2, <2>2, <2>3 DEF Rank
  <2>5. Sorted(T, Q)[Rank(T, Q, x) + 1] = x
    BY <2>2, SortedHoldsEach
  <2>6. QED BY <2>4, <2>5 DEF x
<1> DEFINE s == Sorted(S, R)
           t == Sorted(T, Q)
           m == Cardinality(S)
           n == Cardinality(T)
<1>4. s \in [1..m -> S] /\ t \in [1..n -> T]
  BY <1>1, SortedHoldsEach
<1> HIDE DEF s, t, m, n
<1>5. m \in Nat /\ n \in Nat /\ m <= n
  BY <1>1, <1>2 DEF m, n
<1>6. s \in Seq(S) /\ Len(s) = m /\ t \in Seq(T) /\ Len(t) = n
  BY <1>4, <1>5
<1>7. \A k \in 1..m : s[k] = t[k]
  BY <1>3 DEF s, t, m
<1>8. SubSeq(s, 1, Len(s)) = SubSeq(t, 1, Len(s))
  BY <1>5, <1>6, <1>7
<1>9. QED BY <1>5, <1>6, <1>8 DEF IsPrefix, s, t
-----------------------------------------------------------------------------
(* One answer of the Analyzer: its shape, and the rows it becomes.          *)

Refs == [source : {"NEW", "EXISTING"}, key : Int]

\* The shape of an answer: its items, its references, and an id for each row.
LEMMA AnswerShape ==
  ASSUME NEW r \in 1..LastRound, NEW out \in AnalyzerAnswers[r]
  PROVE  LET n == Len(out.components)
             m == Len(out.relations)
         IN /\ n \in Nat /\ m \in Nat /\ n + m <= Len(Uuid[r])
            /\ DOMAIN out.components = 1..n /\ DOMAIN out.relations = 1..m
            /\ Uuid[r] \in Seq(Int) /\ DOMAIN Uuid[r] = 1..Len(Uuid[r]) /\ Len(Uuid[r]) \in Nat
            /\ Keys(out) \in Seq(Int) /\ DOMAIN Keys(out) = 1..n
            /\ \A i \in 1..n : /\ Keys(out)[i] = out.components[i].key
                              /\ out.components[i].major \in BOOLEAN
                              /\ out.components[i].check \in BOOLEAN
                              /\ out.components[i].turn \in [round : Nat, side : Sides]
            /\ \A i \in 1..m : /\ out.relations[i].kind \in {"ARGUMENTAL", "INTERACTIONAL"}
                              /\ out.relations[i].from \in Refs /\ out.relations[i].to \in Refs
            /\ \A i, j \in 1..m :
                 /\ out.relations[i].kind = out.relations[j].kind
                 /\ out.relations[i].type = out.relations[j].type
                 /\ out.relations[i].from = out.relations[j].from
                 /\ out.relations[i].to = out.relations[j].to
                 => out.relations[i] = out.relations[j]
<1> DEFINE C == [key : Int, turn : [round : Nat, side : Sides], statement : Texts,
                 major : BOOLEAN, check : BOOLEAN]
           T == UNION {Types[k] : k \in DOMAIN Types}
           R == [kind : {"ARGUMENTAL", "INTERACTIONAL"}, type : T, from : Refs, to : Refs]
<1>1. out \in Answers /\ Len(out.components) + Len(out.relations) <= Len(Uuid[r])
  BY AnswersAssumption
<1>2. DOMAIN Types = {"ARGUMENTAL", "INTERACTIONAL"}
  BY DEF Types
<1> HIDE DEF T
<1>3. out.components \in Seq(C) /\ out.relations \in Seq(R)
  <2>1. Answers = [components : Seq(C), relations : Seq(R)]
    BY <1>2 DEF Answers, Refs, T
  <2> HIDE DEF C, R
  <2>2. QED BY <1>1, <2>1
<1>4. /\ Len(out.components) \in Nat /\ DOMAIN out.components = 1..Len(out.components)
      /\ \A i \in 1..Len(out.components) : out.components[i] \in C
  <2> HIDE DEF C, R
  <2>1. QED BY <1>3
<1>5. /\ Len(out.relations) \in Nat /\ DOMAIN out.relations = 1..Len(out.relations)
      /\ \A i \in 1..Len(out.relations) : out.relations[i] \in R
  <2> HIDE DEF C, R
  <2>1. QED BY <1>3
<1>6. Uuid[r] \in Seq(Int) /\ DOMAIN Uuid[r] = 1..Len(Uuid[r]) /\ Len(Uuid[r]) \in Nat
  <2>1. Uuid[r] \in Seq(Int)
    BY AnswersAssumption
  <2>2. QED BY <2>1
<1>7. Keys(out) \in Seq(Int) /\ DOMAIN Keys(out) = 1..Len(out.components)
  BY <1>4 DEF Keys
<1>8. \A i \in 1..Len(out.components) :
        /\ Keys(out)[i] = out.components[i].key
        /\ out.components[i].major \in BOOLEAN
        /\ out.components[i].check \in BOOLEAN
        /\ out.components[i].turn \in [round : Nat, side : Sides]
  BY <1>4 DEF Keys
<1>9. \A i \in 1..Len(out.relations) :
        /\ out.relations[i].kind \in {"ARGUMENTAL", "INTERACTIONAL"}
        /\ out.relations[i].from \in Refs /\ out.relations[i].to \in Refs
  <2> HIDE DEF Refs
  <2>1. QED BY <1>5
<1>10. ASSUME NEW i \in 1..Len(out.relations), NEW j \in 1..Len(out.relations),
              out.relations[i].kind = out.relations[j].kind,
              out.relations[i].type = out.relations[j].type,
              out.relations[i].from = out.relations[j].from,
              out.relations[i].to = out.relations[j].to
       PROVE  out.relations[i] = out.relations[j]
  <2> DEFINE p == out.relations[i]
             q == out.relations[j]
  <2>1. p \in R /\ q \in R
    BY <1>5
  <2> HIDE DEF p, q
  <2>2. p.kind = q.kind /\ p.type = q.type /\ p.from = q.from /\ p.to = q.to
    BY <1>10 DEF p, q
  <2>3. p = q
    BY <2>1, <2>2
  <2>4. QED BY <2>3 DEF p, q
<1>11. QED BY <1>1, <1>4, <1>5, <1>6, <1>7, <1>8, <1>9, <1>10

\* A validator that counts at most one has seen at most one.
LEMMA AtMostOne ==
  ASSUME NEW S, IsFiniteSet(S)
  PROVE  Cardinality(S) <= 1 <=> \A x, y \in S : x = y
<1>1. Cardinality(S) \in Nat /\ (Cardinality(S) = 0 <=> S = {}) /\ (Cardinality(S) = 1 <=> \E x : S = {x})
  BY FS_CardinalityType, FS_EmptySet, FS_Singleton
<1>2. CASE Cardinality(S) = 0
  BY <1>1, <1>2
<1>3. CASE Cardinality(S) = 1
  BY <1>1, <1>3
<1>4. CASE Cardinality(S) > 1
  <2>0. Cardinality(S) # 0 /\ Cardinality(S) # 1
    BY <1>1, <1>4
  <2>1. S # {} /\ ~\E x : S = {x}
    BY <1>1, <2>0, Zenon
  <2>2. \E x, y \in S : x # y
    BY <2>1
  <2>3. QED BY <1>1, <1>4, <2>2
<1>5. QED BY <1>1, <1>2, <1>3, <1>4

\* Random ids differ, those of different rounds too.
LEMMA IdsDiffer ==
  ASSUME NEW r \in 1..LastRound, NEW s \in 1..LastRound,
         NEW i \in 1..Len(Uuid[r]), NEW j \in 1..Len(Uuid[s]), Uuid[r][i] = Uuid[s][j]
  PROVE  r = s /\ i = j
<1>1. Uuid[r] \in Seq(Int) /\ Uuid[s] \in Seq(Int)
  BY AnswersAssumption
<1>2. DOMAIN Uuid[r] = 1..Len(Uuid[r]) /\ DOMAIN Uuid[s] = 1..Len(Uuid[s])
  BY <1>1
<1>3. QED BY <1>2, ArgumentationAssumption

\* With different keys, a key names the row of its own component.
LEMMA KeysNameRows ==
  ASSUME NEW r \in 1..LastRound, NEW out \in AnalyzerAnswers[r], LocalKeys(out),
         NEW i \in 1..Len(out.components)
  PROVE  IdOfKey(out, Uuid[r], out.components[i].key) = Uuid[r][i]
<1> DEFINE key == out.components[i].key
<1>1. /\ Keys(out) \in Seq(Int) /\ DOMAIN Keys(out) = 1..Len(out.components)
      /\ Keys(out)[i] = key
  BY AnswerShape, ZenonT(30)
<1>2. \A j, k \in DOMAIN Keys(out) : Keys(out)[j] = Keys(out)[k] => j = k
  BY <1>1, DistinctMeansInjective DEF LocalKeys
<1> HIDE DEF key
<1>3. (CHOOSE j \in DOMAIN Keys(out) : Keys(out)[j] = key) = i
  BY <1>1, <1>2
<1>4. QED BY <1>3 DEF IdOfKey, key

\* The row that becomes of the i-th component.
ComponentRow(out, r, i) ==
  [id |-> Uuid[r][i], turn |-> out.components[i].turn,
   statement |-> Trim(out.components[i].statement),
   major |-> out.components[i].major, check |-> out.components[i].check, created |-> r]

LEMMA RowsByPlace ==
  ASSUME NEW r \in 1..LastRound, NEW out \in AnalyzerAnswers[r], LocalKeys(out)
  PROVE  /\ ComponentRows(out, Uuid[r], r) = {ComponentRow(out, r, i) : i \in 1..Len(out.components)}
         /\ IsFiniteSet(ComponentRows(out, Uuid[r], r))
<1> DEFINE n == Len(out.components)
           rows == {ComponentRow(out, r, i) : i \in 1..n}
<1>1. n \in Nat /\ DOMAIN out.components = 1..n
  BY AnswerShape
<1>2. \A i \in 1..n : IdOfKey(out, Uuid[r], out.components[i].key) = Uuid[r][i]
  BY KeysNameRows
<1>3. ToSet(out.components) = {out.components[i] : i \in 1..n}
  BY <1>1 DEF ToSet
<1>4. ComponentRows(out, Uuid[r], r)
        = {[id |-> IdOfKey(out, Uuid[r], out.components[i].key), turn |-> out.components[i].turn,
            statement |-> Trim(out.components[i].statement), major |-> out.components[i].major,
            check |-> out.components[i].check, created |-> r] : i \in 1..n}
  BY <1>3 DEF ComponentRows
<1>5. ComponentRows(out, Uuid[r], r) = rows
  BY <1>2, <1>4 DEF ComponentRow
<1>6. IsFiniteSet(rows)
  <2> DEFINE f == [i \in 1..n |-> ComponentRow(out, r, i)]
  <2>1. f \in Surjection(1..n, rows)
    BY DEF Surjection
  <2>2. IsFiniteSet(1..n)
    BY <1>1, FS_Interval
  <2>3. QED BY <2>1, <2>2, FS_Surjection
<1>7. QED BY <1>5, <1>6

\* What AcceptedOutput says of the components, as rows: they belong to the
\* turns of the round that have content, and a speaker has one major claim at
\* most, in the opening.
LEMMA ComponentsOfAnswer ==
  ASSUME NEW r \in 1..LastRound, NEW out \in AnalyzerAnswers[r], IsFiniteSet(components),
         AcceptedOutput(AnalyzerInput(r), out)
  PROVE  \A i \in 1..Len(out.components) :
           LET c == ComponentRow(out, r, i)
           IN /\ c.turn \in TurnsOf(r) /\ c.turn \notin silent
              /\ ~Blank(c.statement)
              /\ c.major => r = Opening
              /\ c.major => \A j \in 1..Len(out.components) :
                   LET d == ComponentRow(out, r, j)
                   IN d.major /\ d.turn.side = c.turn.side => i = j
<1> DEFINE n == Len(out.components)
           in == AnalyzerInput(r)
<1>1. n \in Nat /\ DOMAIN out.components = 1..n
  BY AnswerShape
<1>2. ToSet(out.components) = {out.components[i] : i \in 1..n}
  BY <1>1 DEF ToSet
<1>3. in.turns = TurnsOf(r) /\ in.empty = silent \cap TurnsOf(r)
      /\ in.existing = {c \in components : c.turn.round < r}
  BY DEF AnalyzerInput
<1> HIDE DEF n, in
<1>4. /\ ComponentTurnIds(in, out) /\ EmptyTurns(in, out) /\ Statements(out, Limits)
      /\ MajorClaims(in, out)
  BY DEF AcceptedOutput, ValidOutput, in
<1>5. ASSUME NEW i \in 1..n
      PROVE  /\ out.components[i].turn \in TurnsOf(r) /\ out.components[i].turn \notin silent
             /\ ~Blank(Trim(out.components[i].statement))
  <2>1. out.components[i] \in ToSet(out.components)
    BY <1>2
  <2>2. out.components[i].turn \in TurnsOf(r) /\ out.components[i].turn \notin silent
    BY <1>3, <1>4, <2>1 DEF ComponentTurnIds, EmptyTurns
  <2>3. ~Blank(out.components[i].statement)
    BY <1>4, <2>1 DEF Statements
  <2>4. QED BY <2>2, <2>3 DEF Blank, Trim, Text
<1>6. ASSUME NEW i \in 1..n, out.components[i].major
      PROVE  /\ r = Opening
             /\ \A j \in 1..n : out.components[j].major
                  /\ out.components[j].turn.side = out.components[i].turn.side => i = j
  <2> DEFINE t == out.components[i].turn
             S == OfTurn(out, t) \cap MajorOnes(out)
             E == {c \in in.existing : c.turn.side = t.side /\ c.major}
  <2>1. t \in TurnsOf(r) /\ t.round = r
    BY <1>5 DEF TurnsOf, Turn
  <2>2. S = {j \in 1..n : out.components[j].turn = t /\ out.components[j].major}
    BY <1>1 DEF OfTurn, MajorOnes, n
  <2>3. i \in S
    BY <1>6, <2>2
  <2>4. IsFiniteSet(S) /\ Cardinality(S) \in Nat /\ Cardinality(S) # 0
    <3>1. IsFiniteSet(1..n)
      BY <1>1, FS_Interval DEF n
    <3> HIDE DEF n, t
    <3>2. S \in SUBSET (1..n)
      BY <2>2
    <3> HIDE DEF S
    <3>4. IsFiniteSet(S)
      BY <3>1, <3>2, FS_Subset
    <3>3. QED BY <2>3, <3>4, FS_CardinalityType, FS_EmptySet
  <2>5. IsFiniteSet(E) /\ Cardinality(E) \in Nat
    <3>1. E \in SUBSET components
      BY <1>3
    <3> HIDE DEF E
    <3>2. QED BY <3>1, FS_Subset, FS_CardinalityType
  <2>6. (Cardinality(S) > 0 => t.round = Opening) /\ Cardinality(E) + Cardinality(S) <= 1
    BY <1>3, <1>4, <2>1 DEF MajorClaims, MajorOf
  <2> HIDE DEF S, E
  <2>7. r = Opening /\ Cardinality(S) <= 1
    BY <2>1, <2>4, <2>5, <2>6
  <2>8. \A x, y \in S : x = y
    BY <2>4, <2>7, AtMostOne
  <2>9. ASSUME NEW j \in 1..n, out.components[j].major, out.components[j].turn.side = t.side
        PROVE  i = j
    <3>1. out.components[j].turn = t
      <4>1. out.components[j].turn \in TurnsOf(r)
        BY <1>5
      <4>2. QED BY <2>1, <2>9, <4>1 DEF TurnsOf, Turn
    <3>2. j \in S
      BY <2>2, <2>9, <3>1
    <3>3. QED BY <2>3, <2>8, <3>2
  <2>10. QED BY <2>7, <2>9
<1>7. QED BY <1>5, <1>6 DEF ComponentRow, n

\* The places that Resolve finds: a NEW reference is the component with that
\* key, an EXISTING one a component of an earlier round.
Means(out, r, ref, id) ==
  \/ /\ ref.source = "NEW"
     /\ \E i \in 1..Len(out.components) : out.components[i].key = ref.key /\ id = Uuid[r][i]
  \/ /\ ref.source = "EXISTING" /\ id = ref.key
     /\ \E c \in components : c.turn.round < r /\ c.id = ref.key

LEMMA ReferencesAreResolved ==
  ASSUME NEW r \in 1..LastRound, NEW out \in AnalyzerAnswers[r],
         LocalKeys(out), References(AnalyzerInput(r), out),
         NEW k \in 1..Len(out.relations),
         NEW ref \in {out.relations[k].from, out.relations[k].to}
  PROVE  Means(out, r, ref, Resolve(out, Uuid[r], ref))
<1>1. out.relations[k] \in ToSet(out.relations)
  BY AnswerShape DEF ToSet
<1>2. IF ref.source = "NEW" THEN ref.key \in ToSet(Keys(out))
                            ELSE ref.key \in {c.id : c \in AnalyzerInput(r).existing}
  BY <1>1 DEF References
<1>3. ref \in Refs
  <2>1. out.relations[k].from \in Refs /\ out.relations[k].to \in Refs
    BY AnswerShape
  <2>2. QED BY <2>1
<1>4. CASE ref.source = "NEW"
  <2>0. /\ DOMAIN Keys(out) = 1..Len(out.components)
        /\ \A i \in 1..Len(out.components) : Keys(out)[i] = out.components[i].key
    BY AnswerShape, ZenonT(30)
  <2>1. PICK i \in 1..Len(out.components) : ref.key = out.components[i].key
    BY <1>2, <1>4, <2>0 DEF ToSet
  <2>2. IdOfKey(out, Uuid[r], ref.key) = Uuid[r][i]
    BY <2>1, KeysNameRows
  <2>3. QED BY <1>4, <2>1, <2>2 DEF Means, Resolve
<1>5. CASE ref.source = "EXISTING"
  BY <1>2, <1>5 DEF Means, Resolve, AnalyzerInput
<1>6. QED BY <1>3, <1>4, <1>5 DEF Refs

\* The row that becomes of the k-th relation.
RelationRow(out, r, k) ==
  [id |-> Uuid[r][Len(out.components) + k], created |-> r,
   kind |-> out.relations[k].kind, type |-> out.relations[k].type,
   from |-> Resolve(out, Uuid[r], out.relations[k].from),
   to |-> Resolve(out, Uuid[r], out.relations[k].to)]

\* The earlier components have ids of earlier rounds.
OldIds(r) ==
  \A c \in components : c.turn.round < r =>
    \E s \in 1..LastRound : s < r /\ \E i \in 1..Len(Uuid[s]) : c.id = Uuid[s][i]

\* References that differ mean components that differ, and conversely: their
\* ids are random, and those of the earlier rounds are other ids.
LEMMA DifferentReferences ==
  ASSUME NEW r \in 1..LastRound, NEW out \in AnalyzerAnswers[r], OldIds(r),
         NEW p \in Refs, NEW q \in Refs, NEW id,
         Means(out, r, p, id), Means(out, r, q, id)
  PROVE  p = q
<1>1. Len(out.components) \in Nat /\ Len(out.relations) \in Nat /\ Len(Uuid[r]) \in Nat
      /\ Len(out.components) + Len(out.relations) <= Len(Uuid[r])
  BY AnswerShape
<1>2. \A i \in 1..Len(out.components) : i \in 1..Len(Uuid[r])
  <2>1. ASSUME NEW a \in Nat, NEW b \in Nat, NEW c \in Nat, a + b <= c
        PROVE  \A i \in 1..a : i \in 1..c
    BY <2>1
  <2>2. QED BY <1>1, <2>1
<1>3. p = [source |-> p.source, key |-> p.key] /\ q = [source |-> q.source, key |-> q.key]
  BY DEF Refs
<1>4. \A i \in 1..Len(out.components), c \in components :
        c.turn.round < r => c.id # Uuid[r][i]
  <2> SUFFICES ASSUME NEW i \in 1..Len(out.components), NEW c \in components, c.turn.round < r,
                      c.id = Uuid[r][i]
               PROVE  FALSE
    OBVIOUS
  <2>1. PICK s \in 1..LastRound : s < r /\ \E j \in 1..Len(Uuid[s]) : c.id = Uuid[s][j]
    BY DEF OldIds
  <2>2. PICK j \in 1..Len(Uuid[s]) : Uuid[s][j] = Uuid[r][i]
    BY <2>1
  <2>3. s = r
    BY <1>2, <2>2, IdsDiffer
  <2>4. QED BY <2>1, <2>3, ArgumentationAssumption
<1>5. \A i, j \in 1..Len(out.components) : Uuid[r][i] = Uuid[r][j] => i = j
  BY <1>2, IdsDiffer
<1>6. p.source = q.source /\ p.key = q.key
  BY <1>4, <1>5 DEF Means
<1>7. QED BY <1>3, <1>6

\* What AcceptedOutput says of the relations, as rows: they lead from a new
\* component to another one that is new or there already, and two of a kind
\* between the same ends are one.
LEMMA RelationsOfAnswer ==
  ASSUME NEW r \in 1..LastRound, NEW out \in AnalyzerAnswers[r], OldIds(r),
         AcceptedOutput(AnalyzerInput(r), out)
  PROVE  /\ RelationRows(out, Uuid[r], r) = {RelationRow(out, r, k) : k \in 1..Len(out.relations)}
         /\ IsFiniteSet(RelationRows(out, Uuid[r], r))
         /\ \A k \in 1..Len(out.relations) :
              LET rel == RelationRow(out, r, k)
              IN /\ \E i \in 1..Len(out.components) : rel.from = Uuid[r][i]
                 /\ \/ \E i \in 1..Len(out.components) : rel.to = Uuid[r][i]
                    \/ \E c \in components : c.turn.round < r /\ rel.to = c.id
                 /\ rel.from # rel.to
         /\ \A j, k \in 1..Len(out.relations) :
              LET p == RelationRow(out, r, j)
                  q == RelationRow(out, r, k)
              IN p.kind = q.kind /\ p.from = q.from /\ p.to = q.to => j = k
<1> DEFINE m == Len(out.relations)
           in == AnalyzerInput(r)
           rel(k) == out.relations[k]
           from(k) == Resolve(out, Uuid[r], rel(k).from)
           to(k) == Resolve(out, Uuid[r], rel(k).to)
<1>1. m \in Nat /\ DOMAIN out.relations = 1..m
  BY AnswerShape
<1>2. \A k \in 1..m : rel(k).kind \in {"ARGUMENTAL", "INTERACTIONAL"}
                      /\ rel(k).from \in Refs /\ rel(k).to \in Refs
  BY AnswerShape
<1>3. ToSet(out.relations) = {rel(k) : k \in 1..m}
  BY <1>1 DEF ToSet
<1>4. /\ LocalKeys(out) /\ References(in, out) /\ RelationSources(out)
      /\ SelfReferences(out) /\ DuplicateRelations(out)
      /\ ConflictFree(out, "ARGUMENTAL") /\ ConflictFree(out, "INTERACTIONAL")
  BY DEF AcceptedOutput, ValidOutput
<1>5. \A k \in 1..m : Means(out, r, rel(k).from, from(k)) /\ Means(out, r, rel(k).to, to(k))
  BY <1>4, ReferencesAreResolved
<1>6. \A k \in 1..m : rel(k).from.source = "NEW" /\ rel(k).from # rel(k).to
  BY <1>3, <1>4 DEF RelationSources, SelfReferences
<1>7. RelationRows(out, Uuid[r], r) = {RelationRow(out, r, k) : k \in 1..m}
  BY <1>1 DEF RelationRows, RelationRow
<1>8. IsFiniteSet({RelationRow(out, r, k) : k \in 1..m})
  <2> DEFINE f == [k \in 1..m |-> RelationRow(out, r, k)]
             rows == {RelationRow(out, r, k) : k \in 1..m}
  <2>1. f \in Surjection(1..m, rows)
    BY DEF Surjection
  <2>2. IsFiniteSet(1..m)
    BY <1>1, FS_Interval
  <2>3. QED BY <2>1, <2>2, FS_Surjection
<1>9. ASSUME NEW k \in 1..m
      PROVE  /\ \E i \in 1..Len(out.components) : from(k) = Uuid[r][i]
             /\ \/ \E i \in 1..Len(out.components) : to(k) = Uuid[r][i]
                \/ \E c \in components : c.turn.round < r /\ to(k) = c.id
             /\ from(k) # to(k)
  <2>1. Means(out, r, rel(k).from, from(k)) /\ Means(out, r, rel(k).to, to(k))
    BY <1>5
  <2>2. rel(k).from.source = "NEW" /\ rel(k).from # rel(k).to /\ rel(k).from \in Refs /\ rel(k).to \in Refs
    BY <1>2, <1>6
  <2> HIDE DEF from, to, rel
  <2>3. from(k) # to(k)
    BY <2>1, <2>2, DifferentReferences
  <2>4. QED BY <2>1, <2>2, <2>3 DEF Means
<1>10. ASSUME NEW j \in 1..m, NEW k \in 1..m, rel(j).kind = rel(k).kind, from(j) = from(k), to(j) = to(k)
       PROVE  j = k
  <2>1. /\ Means(out, r, rel(j).from, from(j)) /\ Means(out, r, rel(j).to, to(j))
        /\ Means(out, r, rel(k).from, from(j)) /\ Means(out, r, rel(k).to, to(j))
    BY <1>5, <1>10
  <2>2. rel(j).from \in Refs /\ rel(j).to \in Refs /\ rel(k).from \in Refs /\ rel(k).to \in Refs
    BY <1>2
  <2>3. rel(j).from = rel(k).from /\ rel(j).to = rel(k).to
    <3> HIDE DEF from, to, rel
    <3>1. QED BY <2>1, <2>2, DifferentReferences
  <2>4. rel(j).type = rel(k).type
    <3>1. rel(j) \in ToSet(out.relations) /\ rel(k) \in ToSet(out.relations)
      BY <1>3
    <3>2. rel(j).kind \in {"ARGUMENTAL", "INTERACTIONAL"}
      BY <1>2
    <3> HIDE DEF rel, from, to
    <3>3. QED BY <1>4, <1>10, <2>3, <3>1, <3>2 DEF ConflictFree
  <2>5. rel(j) = rel(k)
    <3>1. /\ out.relations[j].kind = out.relations[k].kind /\ out.relations[j].type = out.relations[k].type
          /\ out.relations[j].from = out.relations[k].from /\ out.relations[j].to = out.relations[k].to
      BY <1>10, <2>3, <2>4
    <3>2. \A a, b \in 1..m :
            /\ out.relations[a].kind = out.relations[b].kind
            /\ out.relations[a].type = out.relations[b].type
            /\ out.relations[a].from = out.relations[b].from
            /\ out.relations[a].to = out.relations[b].to
            => out.relations[a] = out.relations[b]
      BY AnswerShape
    <3>3. QED BY <3>1, <3>2
  <2>6. \A a, b \in DOMAIN out.relations : out.relations[a] = out.relations[b] => a = b
    <3>1. \E R : out.relations \in Seq(R)
      BY AnswersAssumption DEF Answers
    <3>2. QED BY <1>4, <3>1, DistinctMeansInjective DEF DuplicateRelations
  <2>7. QED BY <1>1, <2>5, <2>6
<1>11. QED BY <1>7, <1>8, <1>9, <1>10 DEF RelationRow

-----------------------------------------------------------------------------
(* The graph.  Every row has an id of the round in which it was created, so *)
(* that two rows of different rounds cannot be taken for one another.       *)

Placed(x) ==
  x.created \in 1..analyzed /\ \E i \in 1..Len(Uuid[x.created]) : x.id = Uuid[x.created][i]

ComponentsKnown ==
  \A c \in components :
    /\ Placed(c)
    /\ c.turn.round = c.created /\ c.turn.side \in Sides /\ c.turn \notin silent
    /\ ~Blank(c.statement)

RelationsKnown == \A rel \in relations : Placed(rel)

RowsDiffer ==
  /\ UniqueIds(components) /\ UniqueIds(relations)
  /\ \A c \in components, rel \in relations : c.id # rel.id

GraphInv ==
  /\ analyzed \in 0..LastRound
  /\ IsFiniteSet(components) /\ IsFiniteSet(relations)
  /\ ComponentsKnown /\ RelationsKnown /\ RowsDiffer
  /\ EndsExist /\ NoContradiction /\ ClaimsAreSound

LEMMA GraphInit == Init => GraphInv
<1> SUFFICES ASSUME Init PROVE GraphInv
  OBVIOUS
<1>1. analyzed = 0 /\ components = {} /\ relations = {}
  BY DEF Init
<1>2. IsFiniteSet({})
  BY FS_EmptySet
<1>3. QED
  BY <1>1, <1>2, ArgumentationAssumption
     DEF GraphInv, ComponentsKnown, RelationsKnown, RowsDiffer, UniqueIds, EndsExist,
         NoContradiction, ClaimsAreSound

\* The id of an earlier row is none of the ids of the next round.
LEMMA OldIdsAreOld ==
  ASSUME GraphInv, NEW r \in 1..LastRound, r = analyzed + 1
  PROVE  /\ OldIds(r)
         /\ \A c \in components : c.turn.round < r
         /\ \A x \in components \cup relations, i \in 1..Len(Uuid[r]) : x.id # Uuid[r][i]
<1>1. \A x \in components \cup relations : Placed(x)
  BY DEF GraphInv, ComponentsKnown, RelationsKnown
<1>2. analyzed \in 0..LastRound /\ LastRound \in Nat /\ analyzed < r
  BY ArgumentationAssumption DEF GraphInv
<1>3. \A x \in components \cup relations : x.created \in 1..LastRound /\ x.created < r
  BY <1>1, <1>2 DEF Placed
<1>4. \A c \in components : c.turn.round < r
  BY <1>3 DEF GraphInv, ComponentsKnown
<1>5. OldIds(r)
  <2> SUFFICES ASSUME NEW c \in components
               PROVE  \E s \in 1..LastRound : s < r /\ \E i \in 1..Len(Uuid[s]) : c.id = Uuid[s][i]
    BY DEF OldIds
  <2>1. QED BY <1>1, <1>3 DEF Placed
<1>6. ASSUME NEW x \in components \cup relations, NEW i \in 1..Len(Uuid[r]), x.id = Uuid[r][i]
      PROVE  FALSE
  <2>1. x.created \in 1..LastRound /\ x.created < r
    BY <1>3
  <2>2. PICK j \in 1..Len(Uuid[x.created]) : x.id = Uuid[x.created][j]
    BY <1>1 DEF Placed
  <2>3. x.created = r
    BY <1>6, <2>1, <2>2, IdsDiffer, ZenonT(30)
  <2>4. QED BY <1>2, <2>1, <2>3
<1>7. QED BY <1>4, <1>5, <1>6

\* The rows that an accepted answer adds, said without the answer.
AddedComponents(r, N) ==
  /\ IsFiniteSet(N) /\ UniqueIds(N)
  /\ \A c \in N :
       /\ c.created = r /\ c.turn.round = r /\ c.turn.side \in Sides /\ c.turn \notin silent
       /\ ~Blank(c.statement) /\ (c.major => r = Opening)
       /\ \E i \in 1..Len(Uuid[r]) : c.id = Uuid[r][i]
  /\ \A c, d \in N : c.major /\ d.major /\ c.turn.side = d.turn.side => c = d

AddedRelations(r, N, M) ==
  /\ IsFiniteSet(M) /\ UniqueIds(M)
  /\ \A rel \in M :
       /\ rel.created = r
       /\ \E i \in 1..Len(Uuid[r]) : rel.id = Uuid[r][i]
       /\ \E p \in N : p.id = rel.from
       /\ \E q \in components \cup N : q.id = rel.to
       /\ rel.from # rel.to
       /\ \A c \in N : c.id # rel.id
  /\ \A p, q \in M : p.kind = q.kind /\ p.from = q.from /\ p.to = q.to => p = q

LEMMA AnswerAddsComponents ==
  ASSUME GraphInv, NEW r \in 1..LastRound, r = analyzed + 1,
         NEW out \in AnalyzerAnswers[r], AcceptedOutput(AnalyzerInput(r), out)
  PROVE  AddedComponents(r, ComponentRows(out, Uuid[r], r))
<1> DEFINE n == Len(out.components)
           N == ComponentRows(out, Uuid[r], r)
           row(i) == ComponentRow(out, r, i)
<1>1. LocalKeys(out)
  BY DEF AcceptedOutput, ValidOutput
<1>2. N = {row(i) : i \in 1..n} /\ IsFiniteSet(N)
  BY <1>1, RowsByPlace
<1>3. /\ \A i \in 1..n : i \in 1..Len(Uuid[r])
      /\ \A i \in 1..n : out.components[i].turn \in [round : Nat, side : Sides]
  <2>1. n \in Nat /\ Len(out.relations) \in Nat /\ n + Len(out.relations) <= Len(Uuid[r]) /\ Len(Uuid[r]) \in Nat
    BY AnswerShape
  <2>2. ASSUME NEW a \in Nat, NEW b \in Nat, NEW c \in Nat, a + b <= c
        PROVE  \A i \in 1..a : i \in 1..c
    BY <2>2
  <2>3. \A i \in 1..n : out.components[i].turn \in [round : Nat, side : Sides]
    BY AnswerShape
  <2>4. QED BY <2>1, <2>2, <2>3
<1>4. \A i \in 1..n : /\ row(i).turn \in TurnsOf(r) /\ row(i).turn \notin silent
                      /\ ~Blank(row(i).statement) /\ (row(i).major => r = Opening)
  BY ComponentsOfAnswer DEF GraphInv
<1>5. \A i \in 1..n : row(i).major => \A j \in 1..n :
        row(j).major /\ row(j).turn.side = row(i).turn.side => i = j
  BY ComponentsOfAnswer DEF GraphInv
<1>6. \A i \in 1..n : row(i).created = r /\ row(i).id = Uuid[r][i]
  BY DEF ComponentRow
<1>7. \A i \in 1..n : row(i).turn.round = r /\ row(i).turn.side \in Sides
  <2>1. \A t \in TurnsOf(r) : t.round = r /\ t.side \in Sides
    BY DEF TurnsOf, Turn
  <2> HIDE DEF row
  <2>2. QED BY <1>4, <2>1
<1> HIDE DEF N, n, row
<1>8. UniqueIds(N)
  <2> SUFFICES ASSUME NEW i \in 1..n, NEW j \in 1..n, row(i).id = row(j).id
               PROVE  i = j
    BY <1>2 DEF UniqueIds
  <2>1. QED BY <1>3, <1>6, IdsDiffer
<1>9. \A c \in N : /\ c.created = r /\ c.turn.round = r /\ c.turn.side \in Sides /\ c.turn \notin silent
                   /\ ~Blank(c.statement) /\ (c.major => r = Opening)
                   /\ \E i \in 1..Len(Uuid[r]) : c.id = Uuid[r][i]
  BY <1>2, <1>3, <1>4, <1>6, <1>7
<1>10. \A c, d \in N : c.major /\ d.major /\ c.turn.side = d.turn.side => c = d
  BY <1>2, <1>5
<1>11. QED BY <1>2, <1>8, <1>9, <1>10 DEF AddedComponents, N

LEMMA AnswerAddsRelations ==
  ASSUME GraphInv, NEW r \in 1..LastRound, r = analyzed + 1,
         NEW out \in AnalyzerAnswers[r], AcceptedOutput(AnalyzerInput(r), out)
  PROVE  AddedRelations(r, ComponentRows(out, Uuid[r], r), RelationRows(out, Uuid[r], r))
<1> DEFINE n == Len(out.components)
           m == Len(out.relations)
           N == ComponentRows(out, Uuid[r], r)
           M == RelationRows(out, Uuid[r], r)
           row(i) == ComponentRow(out, r, i)
           rel(k) == RelationRow(out, r, k)
<1>0. LocalKeys(out)
  BY DEF AcceptedOutput, ValidOutput
<1>1. N = {row(i) : i \in 1..n} /\ \A i \in 1..n : row(i).id = Uuid[r][i]
  BY <1>0, RowsByPlace DEF ComponentRow
<1>2. OldIds(r)
  BY OldIdsAreOld
<1>3. M = {rel(k) : k \in 1..m} /\ IsFiniteSet(M)
  BY <1>2, RelationsOfAnswer
<1>4. \A k \in 1..m :
        /\ \E i \in 1..n : rel(k).from = Uuid[r][i]
        /\ \/ \E i \in 1..n : rel(k).to = Uuid[r][i]
           \/ \E c \in components : c.turn.round < r /\ rel(k).to = c.id
        /\ rel(k).from # rel(k).to
  BY <1>2, RelationsOfAnswer
<1>5. \A j, k \in 1..m :
        rel(j).kind = rel(k).kind /\ rel(j).from = rel(k).from /\ rel(j).to = rel(k).to => j = k
  BY <1>2, RelationsOfAnswer
<1>6. \A k \in 1..m : rel(k).created = r /\ rel(k).id = Uuid[r][n + k]
  BY DEF RelationRow
<1>7. n \in Nat /\ m \in Nat /\ Len(Uuid[r]) \in Nat /\ n + m <= Len(Uuid[r])
  BY AnswerShape
<1> HIDE DEF n, m, N, M, row, rel
<1>8. /\ \A i \in 1..n : i \in 1..Len(Uuid[r])
      /\ \A k \in 1..m : n + k \in 1..Len(Uuid[r]) /\ n + k \notin 1..n
  <2>1. ASSUME NEW c \in Nat, n + m <= c
        PROVE  (\A i \in 1..n : i \in 1..c) /\ \A k \in 1..m : n + k \in 1..c /\ n + k \notin 1..n
    BY <1>7, <2>1
  <2>2. QED BY <1>7, <2>1
<1>9. UniqueIds(M)
  <2> SUFFICES ASSUME NEW j \in 1..m, NEW k \in 1..m, rel(j).id = rel(k).id
               PROVE  j = k
    BY <1>3 DEF UniqueIds
  <2>1. n + j = n + k
    BY <1>6, <1>8, IdsDiffer
  <2>2. QED BY <1>7, <2>1
<1>10. ASSUME NEW k \in 1..m
       PROVE  /\ \E i \in 1..Len(Uuid[r]) : rel(k).id = Uuid[r][i]
              /\ \E p \in N : p.id = rel(k).from
              /\ \E q \in components \cup N : q.id = rel(k).to
              /\ \A c \in N : c.id # rel(k).id
  <2>1. \E i \in 1..Len(Uuid[r]) : rel(k).id = Uuid[r][i]
    BY <1>6, <1>8
  <2>2. \E p \in N : p.id = rel(k).from
    BY <1>1, <1>4
  <2>3. \E q \in components \cup N : q.id = rel(k).to
    BY <1>1, <1>4
  <2>4. ASSUME NEW i \in 1..n, row(i).id = rel(k).id
        PROVE  FALSE
    <3>1. i = n + k
      BY <1>1, <1>6, <1>8, <2>4, IdsDiffer
    <3>2. QED BY <1>8, <3>1
  <2>5. \A c \in N : c.id # rel(k).id
    BY <1>1, <2>4
  <2>6. QED BY <2>1, <2>2, <2>3, <2>5
<1>11. \A p, q \in M : p.kind = q.kind /\ p.from = q.from /\ p.to = q.to => p = q
  BY <1>3, <1>5
<1>12. \A x \in M : /\ x.created = r /\ (\E i \in 1..Len(Uuid[r]) : x.id = Uuid[r][i])
                    /\ (\E p \in N : p.id = x.from) /\ (\E q \in components \cup N : q.id = x.to)
                    /\ x.from # x.to /\ \A c \in N : c.id # x.id
  BY <1>3, <1>4, <1>6, <1>10
<1>13. QED BY <1>3, <1>9, <1>11, <1>12 DEF AddedRelations, N, M

\* The graph stays sound when the rows of an accepted answer are added: what
\* concerns rows of one round is what the validator has checked, and rows of
\* different rounds never have an id, a source or an opening in common.
LEMMA AnalyzeKeepsGraph ==
  ASSUME GraphInv, AnalyzeNext
  PROVE  GraphInv'
<1> DEFINE r == analyzed + 1
<1>1. analyzed \in Nat /\ LastRound \in Nat /\ r \in 1..LastRound
  BY ArgumentationAssumption DEF GraphInv, AnalyzeNext
<1>2. PICK out \in AnalyzerAnswers[r] :
        /\ AcceptedOutput(AnalyzerInput(r), out)
        /\ components' = components \cup ComponentRows(out, Uuid[r], r)
        /\ relations' = relations \cup RelationRows(out, Uuid[r], r)
        /\ analyzed' = r /\ silent' = silent
  BY DEF AnalyzeNext, Analyze
<1> DEFINE N == ComponentRows(out, Uuid[r], r)
           M == RelationRows(out, Uuid[r], r)
<1>3. components' = components \cup N /\ relations' = relations \cup M /\ analyzed' = r /\ silent' = silent
  BY <1>2
<1>4. AddedComponents(r, N)
  BY <1>1, <1>2, AnswerAddsComponents
<1>5. AddedRelations(r, N, M)
  BY <1>1, <1>2, AnswerAddsRelations
<1>6. /\ \A c \in components : c.turn.round < r
      /\ \A x \in components \cup relations, i \in 1..Len(Uuid[r]) : x.id # Uuid[r][i]
  BY <1>1, OldIdsAreOld
<1> HIDE DEF N, M, r
<1>7. analyzed < r /\ r \in Nat /\ \A k \in 1..analyzed : k \in 1..r /\ k < r
  BY <1>1 DEF r
<1>8. analyzed' \in 0..LastRound
  BY <1>1, <1>3
<1>9. IsFiniteSet(components') /\ IsFiniteSet(relations')
  BY <1>3, <1>4, <1>5, FS_Union DEF GraphInv, AddedComponents, AddedRelations
<1>10. \A x \in components \cup relations : Placed(x) /\ Placed(x)'
  <2>1. \A x \in components \cup relations : Placed(x)
    BY DEF GraphInv, ComponentsKnown, RelationsKnown
  <2>2. QED BY <1>3, <1>7, <2>1 DEF Placed
<1>11. \A x \in N \cup M : x.created = r /\ \E i \in 1..Len(Uuid[r]) : x.id = Uuid[r][i]
  BY <1>4, <1>5 DEF AddedComponents, AddedRelations
<1>12. \A x \in N \cup M : Placed(x)'
  <2>1. r \in 1..r
    BY <1>1, <1>7
  <2>2. QED BY <1>3, <1>11, <2>1 DEF Placed
<1>13. \A x \in components \cup relations, y \in N \cup M : x.id # y.id
  BY <1>6, <1>11
<1>14. ComponentsKnown'
  <2>1. \A c \in N : c.turn.round = c.created /\ c.turn.side \in Sides /\ c.turn \notin silent /\ ~Blank(c.statement)
    BY <1>4 DEF AddedComponents
  <2>2. QED BY <1>3, <1>10, <1>12, <2>1 DEF GraphInv, ComponentsKnown
<1>15. RelationsKnown'
  BY <1>3, <1>10, <1>12 DEF RelationsKnown
<1>16. RowsDiffer'
  <2>1. UniqueIds(components') /\ UniqueIds(relations')
    BY <1>3, <1>4, <1>5, <1>13 DEF GraphInv, RowsDiffer, UniqueIds, AddedComponents, AddedRelations
  <2>2. \A c \in components', rel \in relations' : c.id # rel.id
    BY <1>3, <1>5, <1>13 DEF GraphInv, RowsDiffer, AddedRelations
  <2>3. QED BY <2>1, <2>2 DEF RowsDiffer
<1>17. EndsExist'
  <2>1. ASSUME NEW rel \in relations
        PROVE  \E p, q \in components' : /\ p.id = rel.from /\ q.id = rel.to /\ p # q
                                         /\ p.created = rel.created /\ q.turn.round <= p.turn.round
    BY <1>3 DEF GraphInv, EndsExist
  <2>2. ASSUME NEW rel \in M
        PROVE  \E p, q \in components' : /\ p.id = rel.from /\ q.id = rel.to /\ p # q
                                         /\ p.created = rel.created /\ q.turn.round <= p.turn.round
    <3>1. PICK p \in N : p.id = rel.from
      BY <1>5 DEF AddedRelations
    <3>2. PICK q \in components \cup N : q.id = rel.to
      BY <1>5 DEF AddedRelations
    <3>3. p # q /\ rel.created = r
      BY <1>5, <3>1, <3>2 DEF AddedRelations
    <3>4. p.created = r /\ p.turn.round = r
      BY <1>4 DEF AddedComponents
    <3>5. q.turn.round <= r
      <4>1. CASE q \in N
        BY <1>4, <1>7, <4>1 DEF AddedComponents
      <4>2. CASE q \in components
        <5>1. q.turn.round \in 1..analyzed
          BY <4>2 DEF GraphInv, ComponentsKnown, Placed
        <5>2. QED BY <1>1, <1>7, <5>1
      <4>3. QED BY <4>1, <4>2
    <3>6. QED BY <1>3, <3>1, <3>2, <3>3, <3>4, <3>5
  <2>3. QED BY <1>3, <2>1, <2>2 DEF EndsExist
<1>18. NoContradiction'
  <2>1. ASSUME NEW p \in relations, NEW q \in M
        PROVE  p.from # q.from
    <3>1. PICK c \in components : c.id = p.from
      BY DEF GraphInv, EndsExist
    <3>2. PICK d \in N : d.id = q.from
      BY <1>5 DEF AddedRelations
    <3>3. QED BY <1>13, <3>1, <3>2
  <2>2. \A p, q \in M : p.kind = q.kind /\ p.from = q.from /\ p.to = q.to => p = q
    BY <1>5 DEF AddedRelations
  <2>3. QED BY <1>3, <2>1, <2>2 DEF GraphInv, NoContradiction
<1>19. ClaimsAreSound'
  <2>1. ASSUME NEW c \in components
        PROVE  c.turn.round \in 1..analyzed
    BY DEF GraphInv, ComponentsKnown, Placed
  <2>2. \A c \in N : c.turn.round = r /\ (c.major => r = Opening)
    BY <1>4 DEF AddedComponents
  <2>3. ASSUME NEW c \in components, NEW d \in N, c.major, d.major
        PROVE  FALSE
    <3>1. c.turn.round = Opening /\ r = Opening
      BY <2>2, <2>3 DEF GraphInv, ClaimsAreSound
    <3>2. QED BY <1>7, <2>1, <3>1
  <2>4. \A c, d \in N : c.major /\ d.major /\ c.turn.side = d.turn.side => c = d
    BY <1>4 DEF AddedComponents
  <2>5. \A c \in components : c.major => c.turn.round = Opening
    BY DEF GraphInv, ClaimsAreSound
  <2>6. \A c, d \in components : c.major /\ d.major /\ c.turn.side = d.turn.side => c = d
    BY DEF GraphInv, ClaimsAreSound
  <2>7. QED BY <1>3, <2>2, <2>3, <2>4, <2>5, <2>6 DEF ClaimsAreSound
<1>20. QED
  BY <1>8, <1>9, <1>14, <1>15, <1>16, <1>17, <1>18, <1>19 DEF GraphInv

LEMMA GraphStep == GraphInv /\ [Next]_vars => GraphInv'
<1> SUFFICES ASSUME GraphInv, [Next]_vars PROVE GraphInv'
  OBVIOUS
<1>1. CASE AnalyzeNext
  BY <1>1, AnalyzeKeepsGraph
<1>2. ASSUME UNCHANGED <<silent, analyzed, components, relations>>
      PROVE  GraphInv'
  BY <1>2 DEF GraphInv, ComponentsKnown, RelationsKnown, Placed, RowsDiffer, EndsExist,
              NoContradiction, ClaimsAreSound
<1>3. ASSUME NEW r \in 1..LastRound, Ground(r) \/ Synthesize(r)
      PROVE  GraphInv'
  BY <1>2, <1>3 DEF Ground, Synthesize
<1>4. CASE Judge
  BY <1>2, <1>4 DEF Judge
<1>5. CASE UNCHANGED vars
  BY <1>2, <1>5 DEF vars
<1>6. QED BY <1>1, <1>3, <1>4, <1>5 DEF Next

LEMMA GraphInvariant == Spec => []GraphInv
BY GraphInit, GraphStep, PTL DEF Spec

\* What the Analyzer has saved is a sound graph, for any number of rounds and
\* whatever the model answers: ids are unique, ends exist and differ, no
\* relation points to a later round, none contradicts another, and a speaker
\* has one major claim at most.
THEOREM GraphStaysSound == Spec => []GraphIsSound
<1>1. GraphInv => GraphIsSound
  BY DEF GraphInv, GraphIsSound, ComponentsKnown, RowsDiffer
<1>2. QED BY <1>1, GraphInvariant, PTL

\* The mapper never throws after the validators have accepted an answer: the
\* keys it looks up are those of References, and a relation starts from a new
\* component.
THEOREM AcceptedAnswersAreMappable == Spec => []AcceptedIsMappable
<1>1. AcceptedIsMappable
  <2> SUFFICES ASSUME NEW out \in AnalyzerAnswers[analyzed + 1],
                      AcceptedOutput(AnalyzerInput(analyzed + 1), out)
               PROVE  Mappable(out)
    BY DEF AcceptedIsMappable
  <2>1. References(AnalyzerInput(analyzed + 1), out) /\ RelationSources(out)
    BY DEF AcceptedOutput, ValidOutput
  <2>2. QED BY <2>1 DEF References, RelationSources, Mappable
<1>2. QED BY <1>1, PTL

-----------------------------------------------------------------------------
(* The fact check of a round.                                               *)

\* The targets of an accepted answer are the checked components, each once,
\* and a bounded number, because each of the two turns respects its limit.
LEMMA TargetsOfAnswer ==
  ASSUME NEW r \in 1..LastRound, NEW out \in AnalyzerAnswers[r], IsFiniteSet(components),
         AcceptedOutput(AnalyzerInput(r), out)
  PROVE  LET targets == FactCheckTargets(out, Uuid[r])
         IN /\ targets \in Seq(Int) /\ Len(targets) <= TargetsPerRound
            /\ \A j, k \in DOMAIN targets : targets[j] = targets[k] => j = k
            /\ ToSet(targets) = {Uuid[r][i] : i \in CheckedOnes(out)}
<1> DEFINE n == Len(out.components)
           P == CheckedOnes(out)
           R == {p \in P \X P : p[1] < p[2]}
           places == Sorted(P, R)
           targets == FactCheckTargets(out, Uuid[r])
           uuid == Uuid[r]
           in == AnalyzerInput(r)
           A == OfTurn(out, Turn(r, "SIDE_A")) \cap P
           B == OfTurn(out, Turn(r, "SIDE_B")) \cap P
           max == Least(DefaultLimits.targets, Limits.targets)
<1>1. n \in Nat /\ DOMAIN out.components = 1..n
  BY AnswerShape
<1>2. /\ LocalKeys(out) /\ ComponentTurnIds(in, out)
      /\ OutputSize(out, DefaultLimits) /\ OutputSize(out, Limits)
  BY DEF AcceptedOutput, ValidOutput
<1>3. P \in SUBSET (1..n) /\ A \in SUBSET (1..n) /\ B \in SUBSET (1..n)
  BY <1>1 DEF CheckedOnes
<1>4. IsFiniteSet(P) /\ IsFiniteSet(A) /\ IsFiniteSet(B)
  <2>1. IsFiniteSet(1..n)
    BY <1>1, FS_Interval
  <2> HIDE DEF P, A, B
  <2>2. QED BY <1>3, <2>1, FS_Subset
<1>5. IsOrder(P, R)
  <2> SUFFICES ASSUME NEW S \in SUBSET (1..n) PROVE IsOrder(S, {p \in S \X S : p[1] < p[2]})
    BY <1>3
  <2>1. QED BY <1>1 DEF IsOrder
<1>6. Cardinality(P) <= TargetsPerRound
  <2>1. P = A \cup B
    <3>1. ASSUME NEW i \in P
          PROVE  i \in A \/ i \in B
      <4>1. i \in 1..n
        BY <1>3
      <4>2. out.components[i].turn \in in.turns
        BY <1>1, <1>2, <4>1 DEF ComponentTurnIds, ToSet
      <4>3. out.components[i].turn \in {Turn(r, "SIDE_A"), Turn(r, "SIDE_B")}
        BY <4>2 DEF AnalyzerInput, TurnsOf, Sides
      <4>4. QED BY <1>1, <4>1, <4>3 DEF OfTurn
    <3>2. QED BY <3>1
  <2>2. ASSUME NEW t
        PROVE  /\ Cardinality(OfTurn(out, t) \cap P) <= DefaultLimits.targets
               /\ Cardinality(OfTurn(out, t) \cap P) <= Limits.targets
    <3>1. DefaultLimits.targets \in Nat /\ Limits.targets \in Nat
      BY LimitsAssumption DEF LimitRecords
    <3>2. CASE t \in {c.turn : c \in ToSet(out.components)}
      BY <1>2, <3>2 DEF OutputSize
    <3>3. CASE t \notin {c.turn : c \in ToSet(out.components)}
      <4>1. OfTurn(out, t) \cap P = {}
        BY <1>1, <3>3 DEF OfTurn, ToSet
      <4>2. Cardinality({}) = 0
        BY FS_EmptySet
      <4>3. QED BY <3>1, <4>1, <4>2
    <3>4. QED BY <3>2, <3>3
  <2>3. Cardinality(A) \in Nat /\ Cardinality(B) \in Nat /\ Cardinality(A \cap B) \in Nat
    <3>1. IsFiniteSet(A \cap B)
      BY <1>4, FS_Intersection
    <3> HIDE DEF A, B
    <3>2. QED BY <1>4, <3>1, FS_CardinalityType
  <2>4. Cardinality(A) <= max /\ Cardinality(B) <= max
    BY <2>2 DEF Least
  <2>5. max \in Nat /\ TargetsPerRound = 2 * max
    BY LimitsAssumption DEF LimitRecords, Least, TargetsPerRound
  <2> HIDE DEF A, B, max, P
  <2>6. Cardinality(P) = Cardinality(A) + Cardinality(B) - Cardinality(A \cap B)
    BY <1>4, <2>1, FS_Union
  <2>7. QED BY <2>3, <2>4, <2>5, <2>6
<1>7. /\ places \in [1..Cardinality(P) -> P]
      /\ \A k \in 1..Cardinality(P) : Rank(P, R, places[k]) = k - 1
      /\ \A x \in P : Rank(P, R, x) + 1 \in 1..Cardinality(P) /\ places[Rank(P, R, x) + 1] = x
  <2> HIDE DEF P, R
  <2>1. QED BY <1>4, <1>5, SortedHoldsEach
<1>8. Cardinality(P) \in Nat
  BY <1>4, FS_CardinalityType
<1>9. \A i \in P : IdOfKey(out, uuid, out.components[i].key) = uuid[i]
  BY <1>2, <1>3, KeysNameRows
<1>10. targets = [k \in 1..Cardinality(P) |-> uuid[places[k]]]
  <2>1. targets = [k \in DOMAIN places |-> IdOfKey(out, uuid, out.components[places[k]].key)]
    BY DEF FactCheckTargets, InTurn
  <2> HIDE DEF places, targets, P, uuid
  <2>2. QED BY <1>7, <1>9, <2>1
<1>11. /\ \A i \in P : i \in 1..Len(uuid) /\ uuid[i] \in Int
       /\ \A i, j \in P : uuid[i] = uuid[j] => i = j
  <2>1. Len(out.relations) \in Nat /\ n + Len(out.relations) <= Len(uuid) /\ Len(uuid) \in Nat /\ uuid \in Seq(Int)
    BY AnswerShape
  <2>2. ASSUME NEW a \in Nat, NEW b \in Nat, NEW c \in Nat, a + b <= c
        PROVE  \A i \in 1..a : i \in 1..c
    BY <2>2
  <2>3. \A i \in 1..n : i \in 1..Len(uuid)
    BY <1>1, <2>1, <2>2
  <2>4. \A i \in P : i \in 1..Len(uuid)
    BY <1>3, <2>3
  <2> HIDE DEF P
  <2>5. \A i \in P : uuid[i] \in Int
    <3> HIDE DEF uuid
    <3>1. QED BY <2>1, <2>4
  <2>6. QED BY <2>4, <2>5, IdsDiffer
<1> HIDE DEF P, R, places, targets, uuid
<1>12. /\ targets \in Seq(Int) /\ Len(targets) = Cardinality(P)
       /\ DOMAIN targets = 1..Cardinality(P)
  <2>1. targets \in [1..Cardinality(P) -> Int]
    <3>1. \A k \in 1..Cardinality(P) : uuid[places[k]] \in Int
      BY <1>7, <1>11
    <3>2. QED BY <1>10, <3>1
  <2>2. QED BY <1>8, <2>1
<1>13. ASSUME NEW j \in 1..Cardinality(P), NEW k \in 1..Cardinality(P), targets[j] = targets[k]
       PROVE  j = k
  <2>1. places[j] = places[k]
    BY <1>7, <1>10, <1>11, <1>13
  <2>2. j - 1 = k - 1
    BY <1>7, <2>1
  <2>3. QED BY <1>8, <2>2
<1>14. ToSet(targets) = {uuid[i] : i \in P}
  <2>1. \A k \in 1..Cardinality(P) : \E i \in P : targets[k] = uuid[i]
    BY <1>7, <1>10
  <2>2. \A i \in P : \E k \in 1..Cardinality(P) : targets[k] = uuid[i]
    BY <1>7, <1>10
  <2>3. ToSet(targets) = {targets[k] : k \in 1..Cardinality(P)}
    BY <1>12 DEF ToSet
  <2>4. QED BY <2>1, <2>2, <2>3
<1>15. QED BY <1>6, <1>12, <1>13, <1>14 DEF P, targets, uuid

IsBatch(b) ==
  b = [status |-> b.status, targets |-> b.targets, chunks |-> b.chunks,
       sources |-> b.sources, results |-> b.results]

CheckedIds(r) == {c.id : c \in {x \in components : x.created = r /\ x.check}}

\* A batch has the checked components of its round as targets, each once.
TargetsAgree(r) ==
  /\ batch[r].targets \in Seq(Int) /\ Len(batch[r].targets) <= TargetsPerRound
  /\ \A i, j \in DOMAIN batch[r].targets : batch[r].targets[i] = batch[r].targets[j] => i = j
  /\ ToSet(batch[r].targets) = CheckedIds(r)
  /\ batch[r].status = "NONE" <=> batch[r].targets = <<>>

\* A completed batch has one result for each target.
ResultsAgree(r) ==
  /\ batch[r].status # "COMPLETED" => batch[r].results = {}
  /\ batch[r].status = "COMPLETED" => {x.id : x \in batch[r].results} = ToSet(batch[r].targets)
  /\ UniqueIds(batch[r].results)
  /\ \A x \in batch[r].results : ~Blank(x.reason)

BatchesAgree ==
  /\ batch = [r \in 1..LastRound |-> batch[r]]
  /\ \A r \in 1..LastRound : IsBatch(batch[r]) /\ TargetsAgree(r) /\ ResultsAgree(r)

MaterialInv == GraphInv /\ BatchesAgree

LEMMA MaterialInit == Init => MaterialInv
<1> SUFFICES ASSUME Init PROVE BatchesAgree
  BY GraphInit DEF MaterialInv
<1>1. batch = [r \in 1..LastRound |-> NoBatch] /\ components = {}
  BY DEF Init
<1>2. ASSUME NEW r \in 1..LastRound
      PROVE  IsBatch(batch[r]) /\ TargetsAgree(r) /\ ResultsAgree(r)
  <2>1. batch[r] = NoBatch
    BY <1>1
  <2>2. IsBatch(batch[r])
    BY <2>1 DEF IsBatch, NoBatch
  <2>3. /\ batch[r].targets = <<>> /\ batch[r].status = "NONE" /\ batch[r].results = {}
    BY <2>1 DEF NoBatch
  <2>4. <<>> \in Seq(Int) /\ Len(<<>>) = 0 /\ DOMAIN <<>> = {}
    OBVIOUS
  <2>5. ToSet(<<>>) = {} /\ CheckedIds(r) = {}
    BY <1>1, <2>4 DEF ToSet, CheckedIds
  <2>6. TargetsAgree(r)
    BY <2>3, <2>4, <2>5, LimitsAssumption DEF TargetsAgree, TargetsPerRound, Least, LimitRecords
  <2>7. ResultsAgree(r)
    BY <2>3 DEF ResultsAgree, UniqueIds
  <2>8. QED BY <2>2, <2>6, <2>7
<1>3. QED BY <1>1, <1>2 DEF BatchesAgree

LEMMA AnalyzeKeepsBatches ==
  ASSUME MaterialInv, AnalyzeNext, NEW r \in 1..LastRound, r = analyzed + 1
  PROVE  BatchesAgree'
<1>1. analyzed \in Nat /\ LastRound \in Nat /\ GraphInv /\ BatchesAgree
  BY ArgumentationAssumption DEF MaterialInv, GraphInv
<1>2. PICK out \in AnalyzerAnswers[r] :
        /\ AcceptedOutput(AnalyzerInput(r), out)
        /\ components' = components \cup ComponentRows(out, Uuid[r], r)
        /\ batch' = IF FactCheckTargets(out, Uuid[r]) = <<>> THEN batch
                    ELSE [batch EXCEPT ![r].status = "PENDING",
                                       ![r].targets = FactCheckTargets(out, Uuid[r])]
  BY DEF AnalyzeNext, Analyze
<1> DEFINE N == ComponentRows(out, Uuid[r], r)
           targets == FactCheckTargets(out, Uuid[r])
           P == CheckedOnes(out)
           row(i) == ComponentRow(out, r, i)
           n == Len(out.components)
<1>3. /\ components' = components \cup N
      /\ batch' = IF targets = <<>> THEN batch
                  ELSE [batch EXCEPT ![r].status = "PENDING", ![r].targets = targets]
  BY <1>2
<1>4. /\ targets \in Seq(Int) /\ Len(targets) <= TargetsPerRound
      /\ \A j, k \in DOMAIN targets : targets[j] = targets[k] => j = k
      /\ ToSet(targets) = {Uuid[r][i] : i \in P}
  BY <1>1, <1>2, TargetsOfAnswer DEF GraphInv
<1>5. N = {row(i) : i \in 1..n} /\ P = {i \in 1..n : row(i).check}
  <2>1. LocalKeys(out)
    BY <1>2 DEF AcceptedOutput, ValidOutput
  <2>2. N = {row(i) : i \in 1..n}
    BY <1>1, <2>1, RowsByPlace
  <2>3. P = {i \in 1..n : out.components[i].check}
    <3>1. DOMAIN out.components = 1..n
      BY <1>1, AnswerShape
    <3>2. QED BY <3>1 DEF CheckedOnes
  <2>4. QED BY <2>2, <2>3 DEF ComponentRow
<1>6. \A i \in 1..n : row(i).created = r /\ row(i).id = Uuid[r][i]
  BY DEF ComponentRow
<1>7. \A c \in components : c.created # r
  BY <1>1, ArgumentationAssumption DEF GraphInv, ComponentsKnown, Placed
<1> HIDE DEF N, targets, P, row, n
<1>8. CheckedIds(r)' = ToSet(targets) /\ CheckedIds(r) = {}
  <2>1. CheckedIds(r) = {}
    BY <1>7 DEF CheckedIds
  <2>2. \A x \in CheckedIds(r)' : x \in ToSet(targets)
    BY <1>3, <1>4, <1>5, <1>6, <1>7 DEF CheckedIds
  <2>3. \A i \in P : row(i) \in components' /\ row(i).created = r /\ row(i).check /\ row(i).id = Uuid[r][i]
    BY <1>3, <1>5, <1>6
  <2>4. \A x \in ToSet(targets) : x \in CheckedIds(r)'
    BY <1>4, <2>3 DEF CheckedIds
  <2>5. QED BY <2>1, <2>2, <2>4
<1>9. ASSUME NEW s \in 1..LastRound, s # r
      PROVE  CheckedIds(s)' = CheckedIds(s)
  BY <1>3, <1>5, <1>6, <1>9 DEF CheckedIds
<1>10. TargetsAgree(r) /\ ResultsAgree(r) /\ IsBatch(batch[r])
  BY <1>1 DEF BatchesAgree
<1>11. batch[r].targets = <<>> /\ batch[r].status = "NONE" /\ batch[r].results = {}
  <2>1. ToSet(batch[r].targets) = {} /\ batch[r].targets \in Seq(Int)
    BY <1>8, <1>10 DEF TargetsAgree
  <2>2. batch[r].targets = <<>>
    <3>1. DOMAIN batch[r].targets = {}
      BY <2>1 DEF ToSet
    <3>2. ASSUME NEW t \in Seq(Int), DOMAIN t = {}
          PROVE  t = <<>>
      <4>1. Len(t) \in Nat /\ DOMAIN t = 1..Len(t)
        OBVIOUS
      <4>2. Len(t) = 0
        BY <3>2, <4>1
      <4>3. QED BY <4>2
    <3>3. QED BY <2>1, <3>1, <3>2
  <2>3. batch[r].status = "NONE"
    BY <1>10, <2>2 DEF TargetsAgree
  <2>4. QED BY <1>10, <2>2, <2>3 DEF ResultsAgree
<1>12. CASE targets = <<>>
  <2>1. batch' = batch /\ ToSet(batch[r].targets) = ToSet(targets)
    BY <1>3, <1>11, <1>12
  <2>2. ASSUME NEW s \in 1..LastRound
        PROVE  CheckedIds(s)' = CheckedIds(s)
    BY <1>8, <1>9, <1>10, <2>1 DEF TargetsAgree
  <2>3. QED BY <1>1, <2>1, <2>2 DEF BatchesAgree, TargetsAgree, ResultsAgree
<1>13. CASE targets # <<>>
  <2>1. batch' = [batch EXCEPT ![r].status = "PENDING", ![r].targets = targets]
    BY <1>3, <1>13
  <2>2. batch = [s \in 1..LastRound |-> batch[s]]
    BY <1>1 DEF BatchesAgree
  <2>3. /\ batch' = [s \in 1..LastRound |-> batch'[s]]
        /\ \A s \in 1..LastRound : s # r => batch'[s] = batch[s]
        /\ batch'[r] = [batch[r] EXCEPT !.status = "PENDING", !.targets = targets]
    BY <1>1, <2>1, <2>2
  <2>4. batch'[r] = [status |-> "PENDING", targets |-> targets, chunks |-> batch[r].chunks,
                     sources |-> batch[r].sources, results |-> batch[r].results]
    BY <1>10, <2>3 DEF IsBatch
  <2>5. /\ batch'[r].status = "PENDING" /\ batch'[r].targets = targets /\ batch'[r].results = {}
        /\ IsBatch(batch'[r])
    BY <1>11, <2>4 DEF IsBatch
  <2>6. TargetsAgree(r)'
    BY <1>4, <1>8, <1>13, <2>5 DEF TargetsAgree
  <2>7. ResultsAgree(r)'
    BY <2>5 DEF ResultsAgree, UniqueIds
  <2>8. ASSUME NEW s \in 1..LastRound
        PROVE  IsBatch(batch'[s]) /\ TargetsAgree(s)' /\ ResultsAgree(s)'
    <3>1. CASE s = r
      BY <2>5, <2>6, <2>7, <3>1 DEF TargetsAgree, ResultsAgree, CheckedIds
    <3>2. CASE s # r
      <4>1. batch'[s] = batch[s] /\ CheckedIds(s)' = CheckedIds(s)
        BY <1>9, <2>3, <3>2
      <4>2. IsBatch(batch[s]) /\ TargetsAgree(s) /\ ResultsAgree(s)
        BY <1>1 DEF BatchesAgree
      <4>3. QED BY <4>1, <4>2 DEF TargetsAgree, ResultsAgree
    <3>3. QED BY <3>1, <3>2
  <2>9. QED BY <2>3, <2>8 DEF BatchesAgree
<1>14. QED BY <1>12, <1>13

\* What FactCheckInputAssembler makes of the targets: their own rows.
LEMMA TargetsAreRead ==
  ASSUME MaterialInv, NEW r \in 1..LastRound
  PROVE  /\ DOMAIN BatchTargets(r) = 1..Len(batch[r].targets)
         /\ Len(batch[r].targets) \in Nat /\ DOMAIN batch[r].targets = 1..Len(batch[r].targets)
         /\ \A i \in 1..Len(batch[r].targets) : /\ BatchTargets(r)[i].id = batch[r].targets[i]
                                                /\ ~Blank(BatchTargets(r)[i].statement)
<1> DEFINE targets == batch[r].targets
           chosen(i) == CHOOSE x \in components : x.id = targets[i]
<1>1. targets \in Seq(Int) /\ ToSet(targets) = CheckedIds(r)
  BY DEF MaterialInv, BatchesAgree, TargetsAgree
<1>2. Len(targets) \in Nat /\ DOMAIN targets = 1..Len(targets)
  BY <1>1
<1>3. BatchTargets(r) = [i \in DOMAIN targets |-> [id |-> chosen(i).id, statement |-> chosen(i).statement]]
  BY DEF BatchTargets
<1>4. ASSUME NEW i \in DOMAIN targets
      PROVE  chosen(i) \in components /\ chosen(i).id = targets[i]
  <2>1. targets[i] \in CheckedIds(r)
    BY <1>1 DEF ToSet
  <2>2. \E x \in components : x.id = targets[i]
    BY <2>1 DEF CheckedIds
  <2>3. QED BY <2>2
<1> HIDE DEF chosen, targets
<1>5. \A i \in DOMAIN targets : /\ BatchTargets(r)[i].id = targets[i]
                                /\ ~Blank(BatchTargets(r)[i].statement)
  BY <1>3, <1>4 DEF MaterialInv, GraphInv, ComponentsKnown
<1>6. DOMAIN BatchTargets(r) = DOMAIN targets
  BY <1>3
<1>7. QED BY <1>2, <1>5, <1>6 DEF targets

\* What the Analyzer has saved for a round, the fact check accepts, unless
\* the targets are too many for a batch.
LEMMA BatchInputIsValid ==
  ASSUME MaterialInv, NEW r \in 1..LastRound, batch[r].status # "NONE",
         Len(batch[r].targets) <= MaxTargetsPerBatch
  PROVE  ValidBatchInput(BatchTargets(r))
<1> DEFINE targets == batch[r].targets
           read == BatchTargets(r)
           n == Len(targets)
<1>1. /\ targets \in Seq(Int) /\ n <= MaxTargetsPerBatch /\ targets # <<>>
      /\ \A i, j \in DOMAIN targets : targets[i] = targets[j] => i = j
  BY DEF MaterialInv, BatchesAgree, TargetsAgree
<1>2. /\ DOMAIN read = 1..n /\ n \in Nat /\ DOMAIN targets = 1..n
      /\ \A i \in 1..n : read[i].id = targets[i] /\ ~Blank(read[i].statement)
  BY TargetsAreRead
<1>3. read = [i \in 1..n |-> read[i]]
  BY <1>2 DEF BatchTargets
<1> HIDE DEF targets, read, n
<1>4. Len(read) = n
  BY <1>2, <1>3
<1>5. n # 0
  BY <1>1 DEF n
<1>6. read # <<>>
  <2>1. 1 \in DOMAIN read
    BY <1>2, <1>5
  <2>2. QED BY <2>1
<1>7. NoRepeats([i \in DOMAIN read |-> read[i].id])
  <2>1. [i \in DOMAIN read |-> read[i].id] = targets
    <3>1. targets = [i \in 1..n |-> targets[i]]
      BY <1>1, <1>2
    <3>2. QED BY <1>2, <3>1
  <2>2. Distinct(targets)
    BY <1>1, DistinctMeansInjective
  <2>3. QED BY <2>1, <2>2 DEF Distinct, NoRepeats
<1>8. \A t \in ToSet(read) : ~Blank(t.statement)
  BY <1>2 DEF ToSet
<1>9. QED BY <1>1, <1>4, <1>6, <1>7, <1>8 DEF ValidBatchInput, read

\* The rows of a valid answer: one for each target, with a reason.
LEMMA ResultsOfAnswer ==
  ASSUME MaterialInv, NEW r \in 1..LastRound, NEW answer \in SynthesisAnswers,
         NEW sources,
         ValidBatchOutput(BatchTargets(r), TrimSources(Named(answer, BatchTargets(r))), sources)
  PROVE  LET rows == ResultRows(TrimSources(Named(answer, BatchTargets(r))), sources)
         IN /\ UniqueIds(rows) /\ \A x \in rows : ~Blank(x.reason)
            /\ {x.id : x \in rows} = ToSet(batch[r].targets)
<1> DEFINE read == BatchTargets(r)
           out == TrimSources(Named(answer, read))
           rows == ResultRows(out, sources)
           row(i) == [id |-> out[i].id, status |-> out[i].status, reason |-> Trim(out[i].reason),
                      urls |-> {sources[k + 1] : k \in ToSet(out[i].sources)}]
           n == Len(answer)
           ids == [i \in DOMAIN out |-> out[i].id]
           targets == batch[r].targets
<1>1. n \in Nat /\ DOMAIN answer = 1..n
  BY AnswersAssumption
<1>2. DOMAIN out = 1..n
  BY <1>1 DEF TrimSources, Named
<1>3. /\ NoRepeats(ids) /\ ToSet(ids) = {t.id : t \in ToSet(read)}
      /\ \A x \in ToSet(out) : ~Blank(x.reason)
  BY DEF ValidBatchOutput, ComponentIds, Results
<1>4. rows = {row(i) : i \in 1..n}
  <2>1. ToSet(out) = {out[i] : i \in 1..n}
    BY <1>2 DEF ToSet
  <2> HIDE DEF out
  <2>2. QED BY <2>1 DEF ResultRows
<1> HIDE DEF out, read, rows, n, targets
<1>5. ids = [i \in 1..n |-> out[i].id]
  BY <1>2
<1>6. ASSUME NEW i \in 1..n, NEW j \in 1..n, out[i].id = out[j].id
      PROVE  i = j
  <2> DEFINE T == {out[k].id : k \in 1..n}
  <2>1. ids \in Seq(T) /\ DOMAIN ids = 1..n
    BY <1>1, <1>5
  <2>2. Distinct(ids)
    BY <1>3 DEF Distinct, NoRepeats
  <2>3. \A a, b \in DOMAIN ids : ids[a] = ids[b] => a = b
    <3> HIDE DEF T, ids
    <3>1. QED BY <2>1, <2>2, DistinctMeansInjective
  <2>4. QED BY <1>5, <1>6, <2>1, <2>3
<1>7. \A i : row(i).id = out[i].id
  OBVIOUS
<1>8. \A x \in rows : ~Blank(x.reason)
  <2>1. \A i \in 1..n : ~Blank(out[i].reason)
    BY <1>2, <1>3 DEF ToSet
  <2>2. \A i \in 1..n : ~Blank(row(i).reason)
    BY <2>1 DEF Blank, Trim, Text
  <2> HIDE DEF row
  <2>3. QED BY <1>4, <2>2
<1> HIDE DEF row
<1>9. UniqueIds(rows)
  BY <1>4, <1>6, <1>7 DEF UniqueIds
<1>10. {x.id : x \in rows} = ToSet(targets)
  <2>1. {x.id : x \in rows} = {out[i].id : i \in 1..n}
    BY <1>4, <1>7
  <2>2. ToSet(ids) = {out[i].id : i \in 1..n}
    BY <1>5 DEF ToSet
  <2>3. {t.id : t \in ToSet(read)} = ToSet(targets)
    <3>1. /\ DOMAIN read = 1..Len(targets) /\ DOMAIN targets = 1..Len(targets)
          /\ \A i \in 1..Len(targets) : read[i].id = targets[i]
      BY TargetsAreRead DEF read, targets
    <3>2. QED BY <3>1 DEF ToSet
  <2>4. QED BY <1>3, <2>1, <2>2, <2>3
<1>11. QED BY <1>8, <1>9, <1>10 DEF rows, out, read, targets

\* What a worker writes into a batch leaves a batch.
LEMMA BatchGrounded ==
  ASSUME NEW b, IsBatch(b), NEW chunks, NEW sources
  PROVE  [b EXCEPT !.status = "GROUNDED", !.chunks = chunks, !.sources = sources]
           = [status |-> "GROUNDED", targets |-> b.targets, chunks |-> chunks,
               sources |-> sources, results |-> b.results]
<1> DEFINE d == [b EXCEPT !.status = "GROUNDED", !.chunks = chunks, !.sources = sources]
           Fields == {"status", "targets", "chunks", "sources", "results"}
<1>1. DOMAIN b = Fields
  BY DEF IsBatch
<1>2. d = [f \in Fields |-> d[f]]
  BY <1>1
<1>3. /\ d.status = "GROUNDED" /\ d.targets = b.targets /\ d.chunks = chunks
      /\ d.sources = sources /\ d.results = b.results
  BY <1>1
<1> HIDE DEF d
<1>4. d = [status |-> "GROUNDED", targets |-> b.targets, chunks |-> chunks,
           sources |-> sources, results |-> b.results]
  BY <1>2, <1>3
<1>5. QED BY <1>4 DEF d

LEMMA BatchCompleted ==
  ASSUME NEW b, IsBatch(b), NEW results
  PROVE  [b EXCEPT !.status = "COMPLETED", !.results = results]
           = [status |-> "COMPLETED", targets |-> b.targets, chunks |-> b.chunks,
               sources |-> b.sources, results |-> results]
<1> DEFINE d == [b EXCEPT !.status = "COMPLETED", !.results = results]
           Fields == {"status", "targets", "chunks", "sources", "results"}
<1>1. DOMAIN b = Fields
  BY DEF IsBatch
<1>2. d = [f \in Fields |-> d[f]]
  BY <1>1
<1>3. /\ d.status = "COMPLETED" /\ d.targets = b.targets /\ d.chunks = b.chunks
      /\ d.sources = b.sources /\ d.results = results
  BY <1>1
<1> HIDE DEF d
<1>4. d = [status |-> "COMPLETED", targets |-> b.targets, chunks |-> b.chunks,
           sources |-> b.sources, results |-> results]
  BY <1>2, <1>3
<1>5. QED BY <1>4 DEF d

LEMMA MaterialStep == MaterialInv /\ [Next]_vars => MaterialInv'
<1> SUFFICES ASSUME MaterialInv, [Next]_vars PROVE MaterialInv'
  OBVIOUS
<1>1. GraphInv'
  BY GraphStep DEF MaterialInv
<1>2. CASE AnalyzeNext
  <2>1. PICK r \in 1..LastRound : r = analyzed + 1
    BY <1>2, ArgumentationAssumption DEF MaterialInv, GraphInv, AnalyzeNext
  <2>2. QED BY <1>1, <1>2, <2>1, AnalyzeKeepsBatches DEF MaterialInv
<1>3. ASSUME NEW r \in 1..LastRound, NEW b, b = [b EXCEPT !.targets = batch[r].targets], IsBatch(b),
             batch' = [batch EXCEPT ![r] = b], components' = components,
             b.status # "NONE", batch[r].status # "NONE",
             b.status # "COMPLETED" => b.results = {},
             b.status = "COMPLETED" => {x.id : x \in b.results} = ToSet(batch[r].targets),
             UniqueIds(b.results), \A x \in b.results : ~Blank(x.reason)
      PROVE  BatchesAgree'
  <2>1. b.targets = batch[r].targets
    BY <1>3 DEF IsBatch
  <2>2. batch = [s \in 1..LastRound |-> batch[s]]
    BY DEF MaterialInv, BatchesAgree
  <2>3. /\ batch' = [s \in 1..LastRound |-> batch'[s]]
        /\ batch'[r] = b /\ \A s \in 1..LastRound : s # r => batch'[s] = batch[s]
    BY <1>3, <2>2
  <2>4. \A s \in 1..LastRound : CheckedIds(s)' = CheckedIds(s)
    BY <1>3 DEF CheckedIds
  <2>5. ASSUME NEW s \in 1..LastRound
        PROVE  IsBatch(batch'[s]) /\ TargetsAgree(s)' /\ ResultsAgree(s)'
    <3>1. IsBatch(batch[s]) /\ TargetsAgree(s) /\ ResultsAgree(s)
      BY DEF MaterialInv, BatchesAgree
    <3>2. CASE s = r
      <4>1. IsBatch(batch'[s])
        BY <1>3, <2>3, <3>2
      <4>2. TargetsAgree(s)'
        BY <1>3, <2>1, <2>3, <2>4, <3>1, <3>2 DEF TargetsAgree
      <4>3. ResultsAgree(s)'
        BY <1>3, <2>1, <2>3, <3>2 DEF ResultsAgree
      <4>4. QED BY <4>1, <4>2, <4>3
    <3>3. CASE s # r
      BY <2>3, <2>4, <3>1, <3>3 DEF TargetsAgree, ResultsAgree
    <3>4. QED BY <3>2, <3>3
  <2>6. QED BY <2>3, <2>5 DEF BatchesAgree
<1>4. ASSUME NEW r \in 1..LastRound, Ground(r)
      PROVE  MaterialInv'
  <2>1. IsBatch(batch[r]) /\ ResultsAgree(r)
    BY DEF MaterialInv, BatchesAgree
  <2>2. PICK chunks \in GroundingAnswers :
          batch' = [batch EXCEPT ![r].status = "GROUNDED", ![r].chunks = chunks,
                                 ![r].sources = Extracted(chunks)]
    BY <1>4 DEF Ground
  <2> DEFINE b == [status |-> "GROUNDED", targets |-> batch[r].targets, chunks |-> chunks,
                   sources |-> Extracted(chunks), results |-> batch[r].results]
  <2>3. [batch[r] EXCEPT !.status = "GROUNDED", !.chunks = chunks, !.sources = Extracted(chunks)] = b
    BY <2>1, BatchGrounded, Zenon
  <2>4. batch' = [batch EXCEPT ![r] = b]
    BY <2>2, <2>3
  <2>5. /\ b = [b EXCEPT !.targets = batch[r].targets] /\ IsBatch(b) /\ b.status = "GROUNDED"
        /\ b.results = batch[r].results
    BY DEF IsBatch
  <2>6. batch[r].status = "PENDING" /\ components' = components
    BY <1>4 DEF Ground
  <2>7. b.results = {}
    BY <2>1, <2>5, <2>6 DEF ResultsAgree
  <2> HIDE DEF b
  <2>8. BatchesAgree'
    BY <1>3, <2>4, <2>5, <2>6, <2>7 DEF UniqueIds
  <2>9. QED BY <1>1, <2>8 DEF MaterialInv
<1>5. ASSUME NEW r \in 1..LastRound, Synthesize(r)
      PROVE  MaterialInv'
  <2>1. IsBatch(batch[r])
    BY DEF MaterialInv, BatchesAgree
  <2> DEFINE rows(answer) == ResultRows(TrimSources(Named(answer, BatchTargets(r))), batch[r].sources)
  <2>2. PICK answer \in SynthesisAnswers :
          /\ ValidBatchOutput(BatchTargets(r), TrimSources(Named(answer, BatchTargets(r))), batch[r].sources)
          /\ batch' = [batch EXCEPT ![r].status = "COMPLETED", ![r].results = rows(answer)]
    BY <1>5 DEF Synthesize
  <2>3. /\ UniqueIds(rows(answer)) /\ \A x \in rows(answer) : ~Blank(x.reason)
        /\ {x.id : x \in rows(answer)} = ToSet(batch[r].targets)
    BY <2>2, ResultsOfAnswer
  <2> HIDE DEF rows
  <2> DEFINE b == [status |-> "COMPLETED", targets |-> batch[r].targets, chunks |-> batch[r].chunks,
                   sources |-> batch[r].sources, results |-> rows(answer)]
  <2>4. [batch[r] EXCEPT !.status = "COMPLETED", !.results = rows(answer)] = b
    BY <2>1, BatchCompleted, Zenon
  <2>5. batch' = [batch EXCEPT ![r] = b]
    BY <2>2, <2>4
  <2>6. /\ b = [b EXCEPT !.targets = batch[r].targets] /\ IsBatch(b) /\ b.status = "COMPLETED"
        /\ b.results = rows(answer)
    BY DEF IsBatch
  <2>7. batch[r].status = "GROUNDED" /\ components' = components
    BY <1>5 DEF Synthesize
  <2> HIDE DEF b
  <2>8. BatchesAgree'
    BY <1>3, <2>3, <2>5, <2>6, <2>7
  <2>9. QED BY <1>1, <2>8 DEF MaterialInv
<1>6. CASE UNCHANGED <<components, batch>>
  BY <1>1, <1>6 DEF MaterialInv, BatchesAgree, TargetsAgree, ResultsAgree, CheckedIds
<1>7. CASE Judge
  BY <1>6, <1>7 DEF Judge
<1>8. CASE UNCHANGED vars
  BY <1>6, <1>8 DEF vars
<1>9. QED BY <1>2, <1>4, <1>5, <1>7, <1>8 DEF Next

LEMMA MaterialInvariant == Spec => []MaterialInv
BY MaterialInit, MaterialStep, PTL DEF Spec

\* What the Analyzer saves for a round has at most TargetsPerRound targets,
\* and the fact check accepts it as its input if a batch may hold as many,
\* whatever the two settings are.
THEOREM FactCheckAcceptsTargets == Spec => []FactCheckInputAccepted
<1>1. MaterialInv => FactCheckInputAccepted
  BY BatchInputIsValid DEF FactCheckInputAccepted, MaterialInv, BatchesAgree, TargetsAgree
<1>2. QED BY <1>1, MaterialInvariant, PTL

\* When every round is analyzed and every batch completed, the Judge accepts
\* the material: no debate fails there for what the stages before have saved.
THEOREM JudgeAcceptsMaterial == Spec => []JudgeInputAccepted
<1>1. MaterialInv => JudgeInputAccepted
  <2> SUFFICES ASSUME MaterialInv, Ready PROVE ValidJudgeInput(JudgeInput)
    BY DEF JudgeInputAccepted
  <2> DEFINE in == JudgeInput
  <2>1. /\ in.components = components /\ in.relations = relations /\ in.speakers = Speakers
        /\ in.speakerIds = [turn \in {c.turn : c \in components} |-> SpeakerOf(turn)]
    BY DEF JudgeInput
  <2>2. in.results = {[id |-> x[2].id, reason |-> x[2].reason, batch |-> x[1]] :
                        x \in UNION {{r} \X batch[r].results : r \in 1..LastRound}}
    BY DEF JudgeInput
  <2>3. \A res \in in.results : \E r \in 1..LastRound : \E x \in batch[r].results :
          res = [id |-> x.id, reason |-> x.reason, batch |-> r]
    BY <2>2
  <2>4. \A r \in 1..LastRound : \A x \in batch[r].results :
          [id |-> x.id, reason |-> x.reason, batch |-> r] \in in.results
    <3> SUFFICES ASSUME NEW r \in 1..LastRound, NEW x \in batch[r].results
                 PROVE  [id |-> x.id, reason |-> x.reason, batch |-> r] \in in.results
      OBVIOUS
    <3>1. <<r, x>> \in UNION {{s} \X batch[s].results : s \in 1..LastRound}
      OBVIOUS
    <3>2. <<r, x>>[1] = r /\ <<r, x>>[2] = x
      OBVIOUS
    <3>3. QED BY <2>2, <3>1, <3>2
  <2> HIDE DEF in
  <2>5. GraphInv /\ \A r \in 1..LastRound : TargetsAgree(r) /\ ResultsAgree(r)
    BY DEF MaterialInv, BatchesAgree
  <2>6. ASSUME NEW r \in 1..LastRound, NEW x \in batch[r].results
        PROVE  /\ \E c \in components : c.id = x.id /\ c.created = r
               /\ ~Blank(x.reason)
    <3>1. x.id \in CheckedIds(r)
      <4>1. batch[r].status = "COMPLETED"
        BY <2>5 DEF ResultsAgree
      <4>2. x.id \in ToSet(batch[r].targets)
        BY <2>5, <4>1 DEF ResultsAgree
      <4>3. QED BY <2>5, <4>2 DEF TargetsAgree
    <3>2. QED BY <2>5, <3>1 DEF CheckedIds, ResultsAgree
  <2>7. ValidComponents(in)
    BY <2>1, <2>5 DEF ValidComponents, GraphInv, RowsDiffer, ComponentsKnown
  <2>8. ValidRelations(in)
    <3>1. \A rel \in relations : \E p, q \in components : p.id = rel.from /\ q.id = rel.to /\ p # q
      BY <2>5 DEF GraphInv, EndsExist
    <3>2. \A p, q \in components : p.id = q.id => p = q
      BY <2>5 DEF GraphInv, RowsDiffer, UniqueIds
    <3>3. QED BY <2>1, <3>1, <3>2 DEF ValidRelations
  <2>9. UniqueIds(in.results)
    <3> SUFFICES ASSUME NEW r \in 1..LastRound, NEW x \in batch[r].results,
                        NEW s \in 1..LastRound, NEW y \in batch[s].results, x.id = y.id
                 PROVE  r = s /\ x = y
      BY <2>3 DEF UniqueIds
    <3>1. r = s
      <4>1. PICK c \in components : c.id = x.id /\ c.created = r
        BY <2>6
      <4>2. PICK d \in components : d.id = y.id /\ d.created = s
        BY <2>6
      <4>3. QED BY <2>5, <4>1, <4>2 DEF GraphInv, RowsDiffer, UniqueIds
    <3>2. QED BY <2>5, <3>1 DEF ResultsAgree, UniqueIds
  <2>10. \A res \in in.results : res.id \in {c.id : c \in components} /\ ~Blank(res.reason)
    BY <2>3, <2>6
  <2>11. ASSUME NEW c \in components, c.check
         PROVE  \E res \in in.results : res.id = c.id
    <3> DEFINE r == c.created
    <3>1. r \in 1..LastRound
      BY <2>5 DEF GraphInv, ComponentsKnown, Placed, Ready
    <3>2. c.id \in ToSet(batch[r].targets)
      BY <2>5, <2>11, <3>1, ZenonT(30) DEF TargetsAgree, CheckedIds
    <3>3. batch[r].status = "COMPLETED"
      <4>1. batch[r].targets # <<>>
        BY <3>2 DEF ToSet
      <4>2. batch[r].status # "NONE"
        BY <2>5, <3>1, <4>1 DEF TargetsAgree
      <4>3. QED BY <3>1, <4>2 DEF Ready
    <3>4. PICK x \in batch[r].results : x.id = c.id
      BY <2>5, <3>1, <3>2, <3>3 DEF ResultsAgree
    <3>5. [id |-> x.id, reason |-> x.reason, batch |-> r] \in in.results
      BY <2>4, <3>1
    <3>6. QED BY <3>4, <3>5
  <2>12. ValidFactCheckResults(in)
    BY <2>1, <2>9, <2>10, <2>11 DEF ValidFactCheckResults
  <2>13. ValidMajorClaims(in)
    <3> SUFFICES ASSUME NEW side \in {"SIDE_A", "SIDE_B"}
                 PROVE  Cardinality({c \in components : c.turn.side = side /\ c.major}) <= 1
      BY <2>1 DEF ValidMajorClaims
    <3> DEFINE S == {c \in components : c.turn.side = side /\ c.major}
    <3>1. IsFiniteSet(S)
      <4>1. IsFiniteSet(components) /\ S \in SUBSET components
        BY <2>5 DEF GraphInv
      <4> HIDE DEF S
      <4>2. QED BY <4>1, FS_Subset
    <3>2. \A x, y \in S : x = y
      BY <2>5 DEF GraphInv, ClaimsAreSound
    <3> HIDE DEF S
    <3>3. Cardinality(S) <= 1
      BY <3>1, <3>2, AtMostOne
    <3>4. QED BY <3>3 DEF S
  <2>14. ValidParticipants(in)
    <3>1. \A c \in components : c.turn.side \in Sides
      BY <2>5 DEF GraphInv, ComponentsKnown
    <3>2. \A c \in components : in.speakerIds[c.turn] = in.speakers[c.turn.side].id
      BY <2>1 DEF SpeakerOf
    <3>3. \A side \in Sides : ~Blank(in.speakers[side].name)
      BY <2>1, ArgumentationAssumption
    <3>4. QED BY <2>1, <3>1, <3>2, <3>3 DEF ValidParticipants, Sides
  <2>15. QED BY <2>7, <2>8, <2>12, <2>13, <2>14 DEF ValidJudgeInput, in
<1>2. QED BY <1>1, MaterialInvariant, PTL

-----------------------------------------------------------------------------
(* The accumulated graph in the request of a round.                         *)

InOrder(items) == {p \in items \X items : Precedes(p[1], p[2])}

\* A row that a request holds is a row of an earlier round.
LEMMA RowsOfEarlierRounds ==
  ASSUME GraphInv, NEW r \in Nat, NEW row \in EarlierRows(r)
  PROVE  /\ row.id \in Int /\ row.created \in Nat /\ row.created < r
         /\ row = [id |-> row.id, created |-> row.created]
<1> DEFINE existing == {c \in components : c.turn.round < r}
           ids == {c.id : c \in existing}
           within == {rel \in relations : rel.from \in ids /\ rel.to \in ids}
<1>1. PICK x \in existing \cup within : row = [id |-> x.id, created |-> x.created]
  BY DEF EarlierRows
<1>2. Placed(x) /\ x.created < r
  <2>1. CASE x \in existing
    BY <2>1 DEF GraphInv, ComponentsKnown
  <2>2. CASE x \in within
    <3>1. PICK p \in components : p.id = x.from /\ p.created = x.created
      BY <2>2 DEF GraphInv, EndsExist
    <3>2. PICK c \in components : c.turn.round < r /\ c.id = x.from
      BY <2>2
    <3>3. c = p
      BY <3>1, <3>2 DEF GraphInv, RowsDiffer, UniqueIds
    <3>4. QED BY <2>2, <3>1, <3>2, <3>3 DEF GraphInv, ComponentsKnown, RelationsKnown
  <2>3. QED BY <1>1, <2>1, <2>2
<1>3. x.created \in 1..LastRound
  BY <1>2, ArgumentationAssumption DEF GraphInv, Placed
<1>4. x.id \in Int /\ x.created \in Nat
  <2>1. PICK i \in 1..Len(Uuid[x.created]) : x.id = Uuid[x.created][i]
    BY <1>2 DEF Placed
  <2>2. Uuid[x.created] \in Seq(Int)
    BY <1>3, AnswersAssumption
  <2>3. QED BY <1>3, <2>1, <2>2
<1>5. QED BY <1>1, <1>2, <1>4

\* A row of an earlier round is in the request, and stays in the next.
LEMMA EarlierRowsStay ==
  ASSUME GraphInv, NEW r \in Nat
  PROVE  /\ EarlierRows(r) \subseteq EarlierRows(r + 1)
         /\ \A row \in EarlierRows(r + 1) \ EarlierRows(r) : row.created >= r
<1> DEFINE existing(s) == {c \in components : c.turn.round < s}
           ids(s) == {c.id : c \in existing(s)}
           within(s) == {rel \in relations : rel.from \in ids(s) /\ rel.to \in ids(s)}
<1>1. \A s : EarlierRows(s) = {[id |-> x.id, created |-> x.created] : x \in existing(s) \cup within(s)}
  BY DEF EarlierRows
<1>2. \A c \in components : c.turn.round = c.created /\ c.created \in Nat
  BY DEF GraphInv, ComponentsKnown, Placed
<1>3. existing(r) \subseteq existing(r + 1)
  BY <1>2
<1>4. ids(r) \subseteq ids(r + 1)
  BY <1>3
<1>5. within(r) \subseteq within(r + 1)
  BY <1>4
<1>6. ASSUME NEW x \in existing(r + 1) \cup within(r + 1), x.created < r
      PROVE  x \in existing(r) \cup within(r)
  <2>1. CASE x \in existing(r + 1)
    BY <1>2, <1>6, <2>1
  <2>2. CASE x \in within(r + 1)
    <3>1. PICK p \in components, q \in components :
            /\ p.id = x.from /\ q.id = x.to
            /\ p.created = x.created /\ q.turn.round <= p.turn.round
      BY <2>2 DEF GraphInv, EndsExist
    <3>2. p \in existing(r) /\ q \in existing(r)
      BY <1>2, <1>6, <3>1
    <3>3. x.from \in ids(r) /\ x.to \in ids(r)
      BY <3>1, <3>2
    <3>4. QED BY <2>2, <3>3
  <2>3. QED BY <1>6, <2>1, <2>2
<1> HIDE DEF existing, within
<1>7. EarlierRows(r) \subseteq EarlierRows(r + 1)
  BY <1>1, <1>3, <1>5
<1>8. ASSUME NEW row \in EarlierRows(r + 1) \ EarlierRows(r)
      PROVE  row.created >= r
  <2>1. PICK x \in existing(r + 1) \cup within(r + 1) : row = [id |-> x.id, created |-> x.created]
    BY <1>1, <1>8
  <2>2. x \notin existing(r) \cup within(r)
    BY <1>1, <1>8, <2>1
  <2>3. ~(row.created < r)
    BY <1>6, <2>1, <2>2
  <2>4. row.created \in Nat
    BY <1>8, RowsOfEarlierRounds
  <2>5. QED BY <2>3, <2>4
<1>9. QED BY <1>7, <1>8

\* Time and id order the rows of a request, of which there are finitely many.
LEMMA RowsAreOrdered ==
  ASSUME GraphInv, NEW r \in Nat
  PROVE  IsFiniteSet(EarlierRows(r)) /\ IsOrder(EarlierRows(r), InOrder(EarlierRows(r)))
<1> DEFINE S == EarlierRows(r)
           all == components \cup relations
           f == [x \in all |-> [id |-> x.id, created |-> x.created]]
<1>1. \A x \in S : x.id \in Int /\ x.created \in Int /\ x = [id |-> x.id, created |-> x.created]
  BY RowsOfEarlierRounds
<1>2. S \in SUBSET {f[x] : x \in all}
  BY DEF EarlierRows
<1>3. IsFiniteSet(all)
  BY FS_Union DEF GraphInv
<1>4. IsFiniteSet({f[x] : x \in all})
  <2>1. f \in Surjection(all, {f[x] : x \in all})
    BY DEF Surjection
  <2> HIDE DEF f
  <2>2. QED BY <1>3, <2>1, FS_Surjection
<1>5. IsFiniteSet(S)
  BY <1>2, <1>4, FS_Subset
<1> HIDE DEF S, all, f
<1>6. \A x, y : <<x, y>> \in InOrder(S) <=> x \in S /\ y \in S /\ Precedes(x, y)
  BY DEF InOrder
<1>7. \A x, y \in S : x.id = y.id /\ x.created = y.created => x = y
  BY <1>1
<1>8. IsOrder(S, InOrder(S))
  BY <1>1, <1>6, <1>7 DEF IsOrder, Precedes
<1>9. QED BY <1>5, <1>8 DEF S

\* The request of a round begins with what the request of the round before
\* held of the graph, whatever the ids of the rows added since.
THEOREM RequestsShareTheirPrefix == Spec => []PromptIsPrefix
<1>1. ASSUME GraphInv, NEW r \in 1..analyzed
      PROVE  IsPrefix(GraphItems(r), GraphItems(r + 1))
  <2> DEFINE S == EarlierRows(r)
             T == EarlierRows(r + 1)
  <2>1. r \in Nat /\ r + 1 \in Nat
    BY <1>1, ArgumentationAssumption DEF GraphInv
  <2>2. /\ IsFiniteSet(T) /\ IsOrder(S, InOrder(S)) /\ IsOrder(T, InOrder(T))
        /\ S \subseteq T /\ \A row \in T \ S : row.created >= r
    BY <1>1, <2>1, RowsAreOrdered, EarlierRowsStay
  <2>3. /\ \A x \in S : x.created \in Nat /\ x.created < r
        /\ \A x \in T : x.created \in Nat
    BY <1>1, <2>1, RowsOfEarlierRounds
  <2> HIDE DEF S, T
  <2>4. \A x, y \in S : <<x, y>> \in InOrder(S) <=> <<x, y>> \in InOrder(T)
    BY <2>2 DEF InOrder
  <2>5. \A x \in S, y \in T \ S : <<y, x>> \notin InOrder(T)
    BY <2>1, <2>2, <2>3 DEF InOrder, Precedes
  <2>6. IsPrefix(Sorted(S, InOrder(S)), Sorted(T, InOrder(T)))
    BY <2>2, <2>4, <2>5, SortedGrowsAtTheEnd
  <2>7. QED BY <2>6 DEF GraphItems, InOrder, S, T
<1>2. GraphInv => PromptIsPrefix
  BY <1>1 DEF PromptIsPrefix
<1>3. QED BY <1>2, GraphInvariant, PTL

-----------------------------------------------------------------------------
(* Places of a sequence.                                                    *)

\* InTurn goes through the places from the first to the last.
LEMMA InTurnIncreases ==
  ASSUME NEW n \in Nat, NEW places \in SUBSET (1..n)
  PROVE  LET at == InTurn(places)
             m == Cardinality(places)
         IN /\ m \in Nat /\ at \in [1..m -> places]
            /\ \A j, k \in 1..m : j < k <=> at[j] < at[k]
            /\ \A i \in places : \E k \in 1..m : at[k] = i
<1> DEFINE R == {p \in places \X places : p[1] < p[2]}
           at == InTurn(places)
           m == Cardinality(places)
<1>1. IsFiniteSet(places) /\ m \in Nat
  <2>1. IsFiniteSet(1..n)
    BY FS_Interval
  <2>2. IsFiniteSet(places)
    BY <2>1, FS_Subset
  <2>3. QED BY <2>2, FS_CardinalityType
<1>2. IsOrder(places, R)
  BY DEF IsOrder
<1>3. at = Sorted(places, R)
  BY DEF InTurn
<1>4. \A i, j \in places : <<i, j>> \in R <=> i < j
  OBVIOUS
<1> HIDE DEF R, at
<1>5. /\ at \in [1..m -> places]
      /\ \A k \in 1..m : Rank(places, R, at[k]) = k - 1
      /\ \A i \in places : Rank(places, R, i) + 1 \in 1..m /\ at[Rank(places, R, i) + 1] = i
  BY <1>1, <1>2, <1>3, SortedHoldsEach
<1>6. ASSUME NEW j \in 1..m, NEW k \in 1..m
      PROVE  j < k <=> at[j] < at[k]
  <2>1. at[j] \in places /\ at[k] \in places /\ at[j] \in Int /\ at[k] \in Int
    <3>1. at[j] \in places /\ at[k] \in places
      BY <1>5
    <3>2. \A i \in places : i \in Int
      OBVIOUS
    <3>3. QED BY <3>1, <3>2
  <2>2. /\ at[j] < at[k] => Rank(places, R, at[j]) < Rank(places, R, at[k])
        /\ at[k] < at[j] => Rank(places, R, at[k]) < Rank(places, R, at[j])
    BY <1>1, <1>2, <1>4, <2>1, RanksCount
  <2>3. Rank(places, R, at[j]) = j - 1 /\ Rank(places, R, at[k]) = k - 1
    BY <1>5
  <2>4. at[j] = at[k] => j = k
    BY <1>1, <2>3
  <2>5. QED BY <1>1, <2>1, <2>2, <2>3, <2>4
<1>7. QED BY <1>1, <1>5, <1>6 DEF at

\* What occurs in a sequence has a first occurrence, and only one.
LEMMA FirstOccurrence ==
  ASSUME NEW T, NEW s \in Seq(T), NEW u \in ToSet(s)
  PROVE  /\ \E i \in DOMAIN s : s[i] = u /\ \A j \in 1..(i - 1) : s[j] # u
         /\ \A i, k \in DOMAIN s :
              /\ s[i] = u /\ \A j \in 1..(i - 1) : s[j] # u
              /\ s[k] = u /\ \A j \in 1..(k - 1) : s[j] # u
              => i = k
<1> DEFINE n == Len(s)
           places == {i \in 1..n : s[i] = u}
           m == Cardinality(places)
           at == InTurn(places)
<1>1. n \in Nat /\ DOMAIN s = 1..n
  OBVIOUS
<1>2. /\ m \in Nat /\ at \in [1..m -> places]
      /\ \A j, k \in 1..m : j < k <=> at[j] < at[k]
      /\ \A i \in places : \E k \in 1..m : at[k] = i
  <2>1. places \in SUBSET (1..n)
    OBVIOUS
  <2> HIDE DEF places, n
  <2>2. QED BY <1>1, <2>1, InTurnIncreases
<1>3. PICK i \in places : TRUE
  BY <1>1 DEF ToSet
<1>4. 1 \in 1..m
  BY <1>2, <1>3
<1> HIDE DEF m, at
<1>5. at[1] \in 1..n /\ s[at[1]] = u
  BY <1>2, <1>4
<1>6. ASSUME NEW j \in 1..(at[1] - 1), s[j] = u
      PROVE  FALSE
  <2>1. j \in places
    BY <1>1, <1>5, <1>6
  <2>2. PICK k \in 1..m : at[k] = j
    BY <1>2, <2>1
  <2>3. at[k] < at[1]
    BY <1>1, <1>5, <2>2
  <2>4. k < 1
    BY <1>2, <1>4, <2>3
  <2>5. QED BY <1>2, <2>4
<1>7. \A a, b \in 1..n :
        s[a] = u /\ s[b] = u /\ (\A j \in 1..(a - 1) : s[j] # u) /\ (\A j \in 1..(b - 1) : s[j] # u)
        => a = b
  <2> SUFFICES ASSUME NEW a \in 1..n, NEW b \in 1..n, s[a] = u, s[b] = u,
                      \A j \in 1..(a - 1) : s[j] # u, \A j \in 1..(b - 1) : s[j] # u
               PROVE  a = b
    OBVIOUS
  <2>1. ~(a < b) /\ ~(b < a)
    BY <1>1
  <2>2. QED BY <1>1, <2>1
<1>8. QED BY <1>1, <1>5, <1>6, <1>7

\* What a sequence has at some places, as a sequence.
LEMMA PlacesPicked ==
  ASSUME NEW T, NEW s \in Seq(T), NEW places \in SUBSET DOMAIN s
  PROVE  LET at == InTurn(places)
             m == Cardinality(places)
         IN /\ m \in Nat /\ at \in [1..m -> places]
            /\ \A j, k \in 1..m : j < k <=> at[j] < at[k]
            /\ \A i \in places : \E k \in 1..m : at[k] = i
            /\ AtPlaces(s, places) = [k \in 1..m |-> s[at[k]]]
            /\ AtPlaces(s, places) \in Seq(T) /\ Len(AtPlaces(s, places)) = m
<1> DEFINE at == InTurn(places)
           m == Cardinality(places)
<1>1. Len(s) \in Nat /\ DOMAIN s = 1..Len(s)
  OBVIOUS
<1>2. /\ m \in Nat /\ at \in [1..m -> places]
      /\ \A j, k \in 1..m : j < k <=> at[j] < at[k]
      /\ \A i \in places : \E k \in 1..m : at[k] = i
  BY <1>1, InTurnIncreases
<1> HIDE DEF m
<1>3. AtPlaces(s, places) = [k \in 1..m |-> s[at[k]]]
  BY <1>2 DEF AtPlaces
<1> HIDE DEF at
<1>4. AtPlaces(s, places) \in [1..m -> T]
  BY <1>1, <1>2, <1>3
<1>5. AtPlaces(s, places) \in Seq(T) /\ Len(AtPlaces(s, places)) = m
  BY <1>2, <1>4
<1>6. QED BY <1>2, <1>3, <1>5 DEF at, m

\* The usable sources of the grounding, each once, stand in the order of their
\* first occurrence among all chunks, and none is missing.
LEMMA UsableEachOnce ==
  ASSUME NEW chunks \in Seq(STRING)
  PROVE  LET unique == Deduplicated(Usable(chunks))
             m == Len(unique)
         IN /\ unique \in Seq(STRING)
            /\ \A u \in ToSet(chunks) \cap WebUrls : \E k \in 1..m : unique[k] = u
            /\ \A k \in 1..m : unique[k] \in ToSet(chunks) \cap WebUrls
            /\ \A j, k \in 1..m : FirstAt(chunks, unique[j]) < FirstAt(chunks, unique[k]) <=> j < k
<1> DEFINE P == {i \in DOMAIN chunks : chunks[i] \in WebUrls}
           a == InTurn(P)
           n == Cardinality(P)
           w == Usable(chunks)
           F == {i \in DOMAIN w : \A j \in 1..(i - 1) : w[j] # w[i]}
           b == InTurn(F)
           m == Cardinality(F)
           unique == Deduplicated(w)
           place(k) == a[b[k]]
<1>1. Len(chunks) \in Nat /\ DOMAIN chunks = 1..Len(chunks)
  OBVIOUS
<1>2. w = AtPlaces(chunks, P)
  BY DEF Usable
<1>3. /\ n \in Nat /\ a \in [1..n -> P]
      /\ \A j, k \in 1..n : j < k <=> a[j] < a[k]
      /\ \A i \in P : \E k \in 1..n : a[k] = i
      /\ w = [k \in 1..n |-> chunks[a[k]]]
      /\ w \in Seq(STRING) /\ Len(w) = n
  <2>1. P \in SUBSET DOMAIN chunks
    OBVIOUS
  <2> HIDE DEF P, w
  <2>2. QED BY <1>2, <2>1, PlacesPicked
<1>4. \A i \in P : i \in 1..Len(chunks) /\ chunks[i] \in WebUrls
  BY <1>1
<1>5. \A i \in 1..Len(chunks) : chunks[i] \in WebUrls => i \in P
  BY <1>1
<1> HIDE DEF P, a, n, w
<1>6. DOMAIN w = 1..n
  BY <1>3
<1>7. \A i \in F : i \in 1..n /\ \A j \in 1..(i - 1) : w[j] # w[i]
  BY <1>6
<1>8. \A i \in 1..n : (\A j \in 1..(i - 1) : w[j] # w[i]) => i \in F
  BY <1>6
<1>9. unique = AtPlaces(w, F)
  BY DEF Deduplicated, FirstOfEach
<1>10. /\ m \in Nat /\ b \in [1..m -> F]
       /\ \A j, k \in 1..m : j < k <=> b[j] < b[k]
       /\ \A i \in F : \E k \in 1..m : b[k] = i
       /\ unique = [k \in 1..m |-> w[b[k]]]
       /\ unique \in Seq(STRING) /\ Len(unique) = m
  <2>1. F \in SUBSET DOMAIN w
    OBVIOUS
  <2> HIDE DEF F, unique
  <2>2. w \in Seq(STRING)
    BY <1>3
  <2>3. QED BY <1>9, <2>1, <2>2, PlacesPicked
<1> HIDE DEF F, b, m, unique
<1>11. \A k \in 1..n : a[k] \in 1..Len(chunks) /\ w[k] = chunks[a[k]] /\ w[k] \in WebUrls
  BY <1>3, <1>4
<1>12. \A k \in 1..m : b[k] \in 1..n /\ unique[k] = w[b[k]] /\ \A j \in 1..(b[k] - 1) : w[j] # w[b[k]]
  BY <1>7, <1>10
<1>13. ASSUME NEW u \in ToSet(chunks) \cap WebUrls
       PROVE  \E k \in 1..m : unique[k] = u
  <2>1. PICK i \in 1..Len(chunks) : chunks[i] = u
    BY <1>1 DEF ToSet
  <2>2. PICK k \in 1..n : a[k] = i
    BY <1>3, <1>5, <2>1
  <2>3. u \in ToSet(w)
    BY <1>6, <1>11, <2>1, <2>2 DEF ToSet
  <2>4. PICK f \in DOMAIN w : w[f] = u /\ \A j \in 1..(f - 1) : w[j] # u
    <3>1. w \in Seq(STRING)
      BY <1>3
    <3>2. QED BY <2>3, <3>1, FirstOccurrence
  <2>5. f \in F
    BY <1>6, <1>8, <2>4
  <2>6. PICK x \in 1..m : b[x] = f
    BY <1>10, <2>5
  <2>7. QED BY <1>12, <2>4, <2>6
<1>14. ASSUME NEW k \in 1..m
       PROVE  /\ unique[k] \in ToSet(chunks) \cap WebUrls
              /\ FirstAt(chunks, unique[k]) = place(k)
  <2>1. b[k] \in 1..n /\ place(k) \in 1..Len(chunks) /\ chunks[place(k)] = unique[k]
    BY <1>11, <1>12
  <2>2. unique[k] \in ToSet(chunks) /\ unique[k] \in WebUrls
    BY <1>1, <1>11, <1>12, <2>1 DEF ToSet
  <2>3. ASSUME NEW j \in 1..(place(k) - 1), chunks[j] = unique[k]
        PROVE  FALSE
    <3>1. j \in 1..Len(chunks) /\ j < place(k)
      BY <1>1, <2>1
    <3>2. PICK i \in 1..n : a[i] = j
      BY <1>3, <1>5, <2>2, <2>3, <3>1
    <3>3. i < b[k]
      BY <1>3, <2>1, <3>1, <3>2
    <3>4. w[i] = w[b[k]]
      BY <1>11, <1>12, <2>3, <3>2
    <3>5. i \in 1..(b[k] - 1)
      BY <1>3, <2>1, <3>3
    <3>6. QED BY <1>12, <3>4, <3>5
  <2> DEFINE first(i) == chunks[i] = unique[k] /\ \A j \in 1..(i - 1) : chunks[j] # unique[k]
  <2>4. place(k) \in DOMAIN chunks /\ first(place(k))
    BY <1>1, <2>1, <2>3
  <2>5. \A i, j \in DOMAIN chunks : first(i) /\ first(j) => i = j
    BY <2>2, FirstOccurrence
  <2>6. FirstAt(chunks, unique[k]) \in DOMAIN chunks /\ first(FirstAt(chunks, unique[k]))
    <3>1. FirstAt(chunks, unique[k]) = CHOOSE i \in DOMAIN chunks : first(i)
      BY DEF FirstAt
    <3> HIDE DEF first, place
    <3>2. QED BY <2>4, <3>1
  <2> HIDE DEF first, place
  <2>7. QED BY <2>2, <2>4, <2>5, <2>6
<1>15. ASSUME NEW j \in 1..m, NEW k \in 1..m
       PROVE  FirstAt(chunks, unique[j]) < FirstAt(chunks, unique[k]) <=> j < k
  <2>1. b[j] \in 1..n /\ b[k] \in 1..n
    BY <1>12
  <2>2. place(j) < place(k) <=> j < k
    BY <1>3, <1>10, <2>1
  <2>3. QED BY <1>14, <2>2
<1>16. QED BY <1>10, <1>13, <1>14, <1>15 DEF unique, w

LEMMA MinOfTwo ==
  ASSUME NEW a \in Nat, NEW b \in Nat
  PROVE  LET m == Min({a, b}) IN m \in Nat /\ m <= a /\ m <= b /\ (m = a \/ m = b)
<1> DEFINE IsLeast(x) == \A y \in {a, b} : x <= y
<1>1. \E x \in {a, b} : IsLeast(x)
  <2>1. CASE a <= b
    BY <2>1
  <2>2. CASE b <= a
    BY <2>2
  <2>3. QED BY <2>1, <2>2
<1>2. Min({a, b}) = CHOOSE x \in {a, b} : IsLeast(x)
  BY DEF Min
<1> HIDE DEF IsLeast
<1>3. Min({a, b}) \in {a, b} /\ IsLeast(Min({a, b}))
  BY <1>1, <1>2
<1>4. QED BY <1>3 DEF IsLeast

LEMMA ExtractedIsEvidence ==
  ASSUME NEW chunks \in Seq(STRING)
  PROVE  Extracted(chunks) \in Seq(STRING) /\ IsEvidenceOf(Extracted(chunks), chunks)
<1> DEFINE unique == Deduplicated(Usable(chunks))
           m == Len(unique)
           usable == ToSet(chunks) \cap WebUrls
           sources == Extracted(chunks)
           n == Min({m, MaxGroundingSources})
<1>1. /\ unique \in Seq(STRING)
      /\ \A u \in usable : \E k \in 1..m : unique[k] = u
      /\ \A k \in 1..m : unique[k] \in usable
      /\ \A j, k \in 1..m : FirstAt(chunks, unique[j]) < FirstAt(chunks, unique[k]) <=> j < k
  BY UsableEachOnce
<1>2. MaxGroundingSources \in Nat
  BY EvidenceAssumption
<1>3. sources = SubSeq(unique, 1, n)
  BY DEF Extracted
<1> HIDE DEF unique, usable
<1>4. m \in Nat
  BY <1>1
<1> HIDE DEF m
<1>5. n \in Nat /\ n <= m /\ n <= MaxGroundingSources /\ (n = m \/ n = MaxGroundingSources)
  BY <1>2, <1>4, MinOfTwo
<1> HIDE DEF n, sources
<1>6. /\ sources \in Seq(STRING) /\ Len(sources) = n /\ DOMAIN sources = 1..n
      /\ \A k \in 1..n : sources[k] = unique[k]
  BY <1>1, <1>3, <1>5 DEF m
<1>7. ToSet(sources) \subseteq usable
  <2>1. \A k \in 1..n : unique[k] \in usable
    BY <1>1, <1>4, <1>5
  <2>2. QED BY <1>6, <2>1 DEF ToSet
<1>8. ASSUME NEW k \in 1..n, NEW u \in usable
      PROVE  FirstAt(chunks, u) < FirstAt(chunks, sources[k]) <=> u \in {sources[j] : j \in 1..(k - 1)}
  <2>1. PICK x \in 1..m : unique[x] = u
    BY <1>1
  <2>2. k \in 1..m /\ sources[k] = unique[k]
    BY <1>4, <1>5, <1>6
  <2>3. FirstAt(chunks, u) < FirstAt(chunks, sources[k]) <=> x < k
    BY <1>1, <2>1, <2>2
  <2>4. x < k => u \in {sources[j] : j \in 1..(k - 1)}
    <3>1. x < k => x \in 1..(k - 1) /\ x \in 1..n
      BY <1>4, <1>5
    <3>2. QED BY <1>6, <2>1, <3>1
  <2>5. ASSUME NEW j \in 1..(k - 1), u = sources[j]
        PROVE  FirstAt(chunks, u) < FirstAt(chunks, sources[k])
    <3>1. j \in 1..n /\ j \in 1..m /\ j < k
      BY <1>4, <1>5
    <3>2. QED BY <1>1, <1>6, <2>2, <2>5, <3>1
  <2>6. QED BY <2>3, <2>4, <2>5
<1>9. ASSUME n < MaxGroundingSources, NEW u \in usable
      PROVE  u \in ToSet(sources)
  <2>1. n = m
    BY <1>2, <1>4, <1>5, <1>9
  <2>2. PICK k \in 1..m : unique[k] = u
    BY <1>1
  <2>3. QED BY <1>6, <2>1, <2>2 DEF ToSet
<1>10. IsEvidenceOf(sources, chunks)
  BY <1>5, <1>6, <1>7, <1>8, <1>9 DEF IsEvidenceOf, usable
<1>11. QED BY <1>6, <1>10 DEF sources

\* An accepted result cites sources of its own batch, and not too many.
LEMMA ResultsCiteTheirSources ==
  ASSUME NEW answer \in SynthesisAnswers, NEW targets, NEW sources \in Seq(STRING),
         ValidBatchOutput(targets, TrimSources(Named(answer, targets)), sources),
         NEW res \in ResultRows(TrimSources(Named(answer, targets)), sources)
  PROVE  res.urls \subseteq ToSet(sources) /\ Cardinality(res.urls) <= MaxSourcesPerResult
<1> DEFINE named == Named(answer, targets)
           out == TrimSources(named)
<1>1. PICK x \in ToSet(out) : res.urls = {sources[i + 1] : i \in ToSet(x.sources)}
  BY DEF ResultRows
<1>2. PICK k \in DOMAIN out : x = out[k]
  BY DEF ToSet
<1>3. k \in DOMAIN answer /\ answer[k].sources \in Seq(Int)
  <2>1. DOMAIN out = DOMAIN answer
    BY DEF TrimSources, Named
  <2>2. answer \in Seq([place : Nat, status : STRING, reason : Texts, sources : Seq(Int)])
    BY AnswersAssumption
  <2> HIDE DEF out
  <2>3. k \in DOMAIN answer
    BY <2>1
  <2> DEFINE A == [place : Nat, status : STRING, reason : Texts, sources : Seq(Int)]
  <2>4. answer[k] \in A
    <3>1. answer \in Seq(A)
      BY <2>2
    <3> HIDE DEF A
    <3>2. QED BY <2>3, <3>1
  <2>5. QED BY <2>3, <2>4
<1> DEFINE once == FirstOfEach(answer[k].sources)
           cut == SubSeq(once, 1, Min({Len(once), MaxSourcesPerResult}))
<1>4. x.sources = cut
  <2>1. DOMAIN named = DOMAIN answer /\ DOMAIN named[k] = {"id", "status", "reason", "sources"}
        /\ named[k].sources = answer[k].sources
    BY <1>3 DEF Named
  <2>2. out[k] = [named[k] EXCEPT !.sources =
                    SubSeq(FirstOfEach(named[k].sources), 1,
                           Min({Len(FirstOfEach(named[k].sources)), MaxSourcesPerResult}))]
    BY <1>3, <2>1 DEF TrimSources
  <2> HIDE DEF named, out
  <2>3. QED BY <1>2, <2>1, <2>2
<1>5. cut \in Seq(Int)
  <2>1. once \in Seq(Int)
    BY <1>3, PlacesPicked DEF FirstOfEach
  <2> HIDE DEF once
  <2>2. Len(once) \in Nat /\ MaxSourcesPerResult \in Nat
    BY <2>1, EvidenceAssumption
  <2>3. Min({Len(once), MaxSourcesPerResult}) \in 0..Len(once)
    BY <2>2, MinOfTwo
  <2> DEFINE n == Min({Len(once), MaxSourcesPerResult})
  <2>4. cut = SubSeq(once, 1, n) /\ n \in 0..Len(once)
    BY <2>3
  <2> HIDE DEF cut, n
  <2>5. QED BY <2>1, <2>4
<1> HIDE DEF cut, out
<1>6. Len(cut) <= MaxSourcesPerResult /\ \A i \in ToSet(cut) : i \in 0..(Len(sources) - 1)
  BY <1>4 DEF ValidBatchOutput, Results, SourceIndexes, out, named
<1> DEFINE f == [j \in 1..Len(cut) |-> sources[cut[j] + 1]]
<1>7. Len(cut) \in Nat /\ ToSet(cut) = {cut[j] : j \in 1..Len(cut)}
  BY <1>5 DEF ToSet
<1>8. f \in Surjection(1..Len(cut), res.urls)
  <2>1. res.urls = {f[j] : j \in 1..Len(cut)}
    BY <1>1, <1>4, <1>7
  <2> HIDE DEF f
  <2>2. f = [j \in 1..Len(cut) |-> f[j]]
    BY DEF f
  <2>3. QED BY <2>1, <2>2 DEF Surjection
<1>9. Cardinality(res.urls) <= Len(cut)
  <2>1. IsFiniteSet(1..Len(cut)) /\ Cardinality(1..Len(cut)) = Len(cut)
    <3> DEFINE n == Len(cut)
    <3>1. n \in Nat
      BY <1>7
    <3> HIDE DEF n
    <3>2. IsFiniteSet(1..n) /\ Cardinality(1..n) = n
      BY <3>1, FS_Interval
    <3>3. QED BY <3>2 DEF n
  <2> HIDE DEF f
  <2>2. QED BY <1>8, <2>1, FS_Surjection
<1>10. Cardinality(res.urls) <= MaxSourcesPerResult
  <2>1. Cardinality(res.urls) \in Nat
    <3>1. IsFiniteSet(1..Len(cut))
      <4> DEFINE n == Len(cut)
      <4>1. n \in Nat
        BY <1>7
      <4> HIDE DEF n
      <4>2. IsFiniteSet(1..n)
        BY <4>1, FS_Interval
      <4>3. QED BY <4>2 DEF n
    <3> HIDE DEF f
    <3>2. IsFiniteSet(res.urls)
      BY <1>8, <3>1, FS_Surjection
    <3>3. QED BY <3>2, FS_CardinalityType
  <2>2. MaxSourcesPerResult \in Nat
    BY EvidenceAssumption
  <2>3. QED BY <1>6, <1>7, <1>9, <2>1, <2>2
<1>11. res.urls \subseteq ToSet(sources)
  <2>1. \A i \in ToSet(cut) : i + 1 \in 1..Len(sources)
    BY <1>6
  <2>2. \A j \in 1..Len(sources) : sources[j] \in ToSet(sources)
    BY DEF ToSet
  <2>3. QED BY <1>1, <1>4, <2>1, <2>2
<1>12. QED BY <1>10, <1>11

-----------------------------------------------------------------------------
(* The evidence of the batches.                                             *)

\* A batch has the sources of its grounding from then on, and its results cite
\* these only.
EvidenceAgrees(r) ==
  /\ batch[r].status \in {"GROUNDED", "COMPLETED"}
       => batch[r].chunks \in GroundingAnswers /\ batch[r].sources = Extracted(batch[r].chunks)
  /\ \A res \in batch[r].results :
       /\ batch[r].status = "COMPLETED"
       /\ res.urls \subseteq ToSet(batch[r].sources)
       /\ Cardinality(res.urls) <= MaxSourcesPerResult

EvidenceInv == MaterialInv /\ \A r \in 1..LastRound : EvidenceAgrees(r)

LEMMA EvidenceStep == EvidenceInv /\ [Next]_vars => EvidenceInv'
<1> SUFFICES ASSUME EvidenceInv, [Next]_vars PROVE EvidenceInv'
  OBVIOUS
<1>1. MaterialInv /\ MaterialInv'
  BY MaterialStep DEF EvidenceInv
<1>2. /\ batch = [r \in 1..LastRound |-> batch[r]] /\ batch' = [r \in 1..LastRound |-> batch'[r]]
      /\ \A r \in 1..LastRound : IsBatch(batch[r]) /\ ResultsAgree(r)
      /\ \A r \in 1..LastRound : EvidenceAgrees(r)
  BY <1>1 DEF EvidenceInv, MaterialInv, BatchesAgree
<1>3. ASSUME NEW r \in 1..LastRound, NEW b, batch' = [batch EXCEPT ![r] = b],
             b.status \in {"GROUNDED", "COMPLETED"}
               => b.chunks \in GroundingAnswers /\ b.sources = Extracted(b.chunks),
             \A res \in b.results : /\ b.status = "COMPLETED"
                                    /\ res.urls \subseteq ToSet(b.sources)
                                    /\ Cardinality(res.urls) <= MaxSourcesPerResult
      PROVE  \A s \in 1..LastRound : EvidenceAgrees(s)'
  <2>1. batch'[r] = b /\ \A s \in 1..LastRound : s # r => batch'[s] = batch[s]
    BY <1>2, <1>3
  <2>2. EvidenceAgrees(r)'
    BY <1>3, <2>1 DEF EvidenceAgrees
  <2>3. \A s \in 1..LastRound : s # r => EvidenceAgrees(s)'
    BY <1>2, <2>1 DEF EvidenceAgrees
  <2>4. QED BY <2>2, <2>3
<1>4. CASE AnalyzeNext
  <2>1. PICK r \in 1..LastRound : r = analyzed + 1
    BY <1>1, <1>4, ArgumentationAssumption DEF MaterialInv, GraphInv, AnalyzeNext
  <2>2. PICK out \in AnalyzerAnswers[r] :
          batch' = IF FactCheckTargets(out, Uuid[r]) = <<>> THEN batch
                   ELSE [batch EXCEPT ![r].status = "PENDING",
                                      ![r].targets = FactCheckTargets(out, Uuid[r])]
    BY <1>4, <2>1 DEF AnalyzeNext, Analyze
  <2>3. CASE batch' = batch
    BY <1>1, <1>2, <2>3 DEF EvidenceInv, EvidenceAgrees
  <2>4. CASE batch' = [batch EXCEPT ![r].status = "PENDING",
                                    ![r].targets = FactCheckTargets(out, Uuid[r])]
    <3> DEFINE b == [batch[r] EXCEPT !.status = "PENDING",
                                     !.targets = FactCheckTargets(out, Uuid[r])]
    <3>1. batch' = [batch EXCEPT ![r] = b]
      BY <2>4
    <3>2. DOMAIN batch[r] = {"status", "targets", "chunks", "sources", "results"}
      BY <1>2 DEF IsBatch
    <3>3. b.status = "PENDING" /\ b.results = batch[r].results
      BY <3>2
    <3>4. batch[r].results = {}
      <4>1. batch[r].status # "COMPLETED"
        <5>1. CheckedIds(r) = {}
          <6>1. \A c \in components : c.created \in 1..analyzed /\ analyzed \in Nat
            BY <1>1 DEF MaterialInv, GraphInv, ComponentsKnown, Placed
          <6>2. \A c \in components : c.created # r
            BY <2>1, <6>1
          <6>3. QED BY <6>2 DEF CheckedIds
        <5>2. TargetsAgree(r)
          BY <1>1 DEF MaterialInv, BatchesAgree
        <5>3. batch[r].targets \in Seq(Int) /\ ToSet(batch[r].targets) = {}
          BY <5>1, <5>2 DEF TargetsAgree
        <5>4. batch[r].targets = <<>>
          <6> SUFFICES ASSUME NEW t \in Seq(Int), ToSet(t) = {} PROVE t = <<>>
            BY <5>3
          <6>1. \A i \in 1..Len(t) : t[i] \in ToSet(t)
            BY DEF ToSet
          <6>2. Len(t) = 0
            BY <6>1
          <6>3. QED BY <6>2
        <5>5. QED BY <5>2, <5>4 DEF TargetsAgree
      <4>2. QED BY <1>2, <4>1 DEF ResultsAgree
    <3> HIDE DEF b
    <3>5. \A s \in 1..LastRound : EvidenceAgrees(s)'
      BY <1>3, <3>1, <3>3, <3>4
    <3>6. QED BY <1>1, <3>5 DEF EvidenceInv
  <2>5. QED BY <1>1, <2>2, <2>3, <2>4 DEF EvidenceInv
<1>5. ASSUME NEW r \in 1..LastRound, Ground(r)
      PROVE  EvidenceInv'
  <2>1. PICK chunks \in GroundingAnswers :
          batch' = [batch EXCEPT ![r].status = "GROUNDED", ![r].chunks = chunks,
                                 ![r].sources = Extracted(chunks)]
    BY <1>5 DEF Ground
  <2> DEFINE b == [status |-> "GROUNDED", targets |-> batch[r].targets, chunks |-> chunks,
                   sources |-> Extracted(chunks), results |-> batch[r].results]
  <2>2. [batch[r] EXCEPT !.status = "GROUNDED", !.chunks = chunks, !.sources = Extracted(chunks)] = b
    BY <1>2, BatchGrounded, Zenon
  <2>3. batch' = [batch EXCEPT ![r] = b]
    BY <2>1, <2>2
  <2>4. batch[r].results = {}
    BY <1>2, <1>5 DEF Ground, ResultsAgree
  <2>5. b.chunks = chunks /\ b.sources = Extracted(b.chunks) /\ b.results = {}
    BY <2>4
  <2> HIDE DEF b
  <2>6. \A s \in 1..LastRound : EvidenceAgrees(s)'
    BY <1>3, <2>3, <2>5
  <2>7. QED BY <1>1, <2>6 DEF EvidenceInv
<1>6. ASSUME NEW r \in 1..LastRound, Synthesize(r)
      PROVE  EvidenceInv'
  <2> DEFINE sources == batch[r].sources
             rows(answer) == ResultRows(TrimSources(Named(answer, BatchTargets(r))), sources)
  <2>1. PICK answer \in SynthesisAnswers :
          /\ ValidBatchOutput(BatchTargets(r), TrimSources(Named(answer, BatchTargets(r))), sources)
          /\ batch' = [batch EXCEPT ![r].status = "COMPLETED", ![r].results = rows(answer)]
    BY <1>6 DEF Synthesize
  <2>2. batch[r].chunks \in GroundingAnswers /\ sources = Extracted(batch[r].chunks)
    BY <1>2, <1>6 DEF Synthesize, EvidenceAgrees
  <2>3. sources \in Seq(STRING)
    BY <2>2, AnswersAssumption, ExtractedIsEvidence
  <2>4. \A res \in rows(answer) :
          res.urls \subseteq ToSet(sources) /\ Cardinality(res.urls) <= MaxSourcesPerResult
    BY <2>1, <2>3, ResultsCiteTheirSources
  <2> HIDE DEF rows
  <2> DEFINE b == [status |-> "COMPLETED", targets |-> batch[r].targets, chunks |-> batch[r].chunks,
                   sources |-> batch[r].sources, results |-> rows(answer)]
  <2>5. [batch[r] EXCEPT !.status = "COMPLETED", !.results = rows(answer)] = b
    BY <1>2, BatchCompleted, Zenon
  <2>6. batch' = [batch EXCEPT ![r] = b]
    BY <2>1, <2>5
  <2>7. /\ b.status = "COMPLETED" /\ b.chunks = batch[r].chunks /\ b.sources = sources
        /\ b.results = rows(answer)
    OBVIOUS
  <2> HIDE DEF b, sources
  <2>8. \A s \in 1..LastRound : EvidenceAgrees(s)'
    BY <1>3, <2>2, <2>4, <2>6, <2>7
  <2>9. QED BY <1>1, <2>8 DEF EvidenceInv
<1>7. CASE UNCHANGED batch
  BY <1>1, <1>2, <1>7 DEF EvidenceInv, EvidenceAgrees
<1>8. CASE Judge
  BY <1>7, <1>8 DEF Judge
<1>9. CASE UNCHANGED vars
  BY <1>7, <1>9 DEF vars
<1>10. QED BY <1>4, <1>5, <1>6, <1>8, <1>9 DEF Next

\* The evidence of a batch is what its grounding offered first, and a result
\* cites only evidence of its own batch.
THEOREM EvidenceStaysFaithful == Spec => []EvidenceIsFaithful
<1>1. Init => EvidenceInv
  <2> SUFFICES ASSUME Init PROVE EvidenceInv
    OBVIOUS
  <2>1. \A r \in 1..LastRound : batch[r] = NoBatch
    BY DEF Init
  <2>2. NoBatch.status = "NONE" /\ NoBatch.results = {}
    BY DEF NoBatch
  <2>3. QED BY <2>1, <2>2, MaterialInit DEF EvidenceInv, EvidenceAgrees
<1>2. EvidenceInv => EvidenceIsFaithful
  <2> SUFFICES ASSUME EvidenceInv, NEW r \in 1..LastRound
               PROVE  /\ batch[r].status \in {"GROUNDED", "COMPLETED"}
                           => IsEvidenceOf(batch[r].sources, batch[r].chunks)
                      /\ \A res \in batch[r].results :
                           /\ res.urls \subseteq WebUrls \cap ToSet(batch[r].chunks)
                           /\ Cardinality(res.urls) <= MaxSourcesPerResult
    BY DEF EvidenceIsFaithful
  <2>1. EvidenceAgrees(r)
    BY DEF EvidenceInv
  <2>2. batch[r].status \in {"GROUNDED", "COMPLETED"}
          => IsEvidenceOf(batch[r].sources, batch[r].chunks)
    BY <2>1, AnswersAssumption, ExtractedIsEvidence DEF EvidenceAgrees
  <2>3. batch[r].status \in {"GROUNDED", "COMPLETED"}
          => ToSet(batch[r].sources) \subseteq WebUrls \cap ToSet(batch[r].chunks)
    BY <2>2 DEF IsEvidenceOf
  <2>4. QED BY <2>1, <2>2, <2>3 DEF EvidenceAgrees
<1>3. QED BY <1>1, <1>2, EvidenceStep, PTL DEF Spec
=============================================================================
