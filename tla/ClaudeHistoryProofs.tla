-------------------------- MODULE ClaudeHistoryProofs --------------------------
(***************************************************************************)
(* The history of a Claude thread, for any number of sessions and runs and *)
(* transcripts of any length.  The history is one turn per prompt and      *)
(* shows what was written, its pages join, a deleted thread stays deleted, *)
(* a report by which the server drops threads is complete, a turn that     *)
(* asks to log in says so, and a turn shows what was sent while it ran.    *)
(* What the folds of the model return is proved by induction on the        *)
(* sequence, from the well-foundedness of the naturals and the definition  *)
(* of a fold as a recursive function on sets.                              *)
(***************************************************************************)
EXTENDS ClaudeHistory, TLAPS, WellFoundedInduction, FiniteSetTheorems

------------------------------------------------------------------------------
(* Induction, and what a fold is                                           *)

\* Induction, from the well-foundedness of the naturals.
LEMMA LessWF == IsWellFoundedOn({x \in Nat \X Nat : x[1] < x[2]}, Nat)
  BY NatLessThanWellFounded DEF OpToRel

LEMMA LeastNat ==
  ASSUME NEW T, T \subseteq Nat, T # {}
  PROVE  \E n \in T : \A k \in T : ~(k < n)
<1> DEFINE R == {x \in Nat \X Nat : x[1] < x[2]}
<1>1. IsWellFoundedOn(R, Nat)
  BY LessWF
<1>2. \A k, n \in Nat : k < n => <<k, n>> \in R
  OBVIOUS
<1> HIDE DEF R
<1>3. \E n \in T : \A k \in T : ~(<<k, n>> \in R)
  BY <1>1, WFMin, Zenon
<1>4. QED
  BY <1>2, <1>3

LEMMA Induction ==
  ASSUME NEW T, 0 \in T, \A n \in Nat : n \in T => n + 1 \in T
  PROVE  Nat \subseteq T
<1> SUFFICES ASSUME Nat \ T # {} PROVE FALSE
  OBVIOUS
<1>1. PICK n \in Nat \ T : \A k \in Nat \ T : ~(k < n)
  BY LeastNat
<1>2. n # 0 /\ n - 1 \in Nat
  BY <1>1
<1>3. n - 1 \in T
  BY <1>1, <1>2
<1>4. (n - 1) + 1 = n
  BY <1>2
<1>5. QED
  BY <1>1, <1>2, <1>3, <1>4

\* What a fold by a function is about.
Folding(V, E, d, base, s) == d \in [V \X E -> V] /\ base \in V /\ s \in Seq(E)

\* A fold by a function.
FoldEq(it, V, E, d, base, s, n) ==
  it = [t \in SUBSET (1..n) |-> IF t = {} THEN base ELSE d[<<it[t \ {Max(t)}], s[Max(t)]>>]]

LEMMA FoldExists ==
  ASSUME NEW V, NEW E, NEW d \in [V \X E -> V], NEW base \in V, NEW s \in Seq(E)
  PROVE  \A n \in 0..Len(s) : \E it \in [SUBSET (1..n) -> V] : FoldEq(it, V, E, d, base, s, n)
<1> DEFINE P(n) == n <= Len(s) => \E it \in [SUBSET (1..n) -> V] : FoldEq(it, V, E, d, base, s, n)
           T == {n \in Nat : P(n)}
<1>1. P(0)
  <2> DEFINE f == [t \in SUBSET (1..0) |-> base]
  <2>1. \A t \in SUBSET (1..0) : t = {}
    OBVIOUS
  <2>2. f \in [SUBSET (1..0) -> V]
    OBVIOUS
  <2>3. f = [t \in SUBSET (1..0) |-> IF t = {} THEN base ELSE d[<<f[t \ {Max(t)}], s[Max(t)]>>]]
    BY <2>1
  <2>4. FoldEq(f, V, E, d, base, s, 0)
    BY <2>3 DEF FoldEq
  <2> HIDE DEF f
  <2>5. \E it \in [SUBSET (1..0) -> V] : FoldEq(it, V, E, d, base, s, 0)
    BY <2>2, <2>4
  <2>6. QED
    BY <2>5
<1>2. ASSUME NEW n \in Nat, P(n) PROVE P(n + 1)
  <2> SUFFICES ASSUME n + 1 <= Len(s)
               PROVE  \E it \in [SUBSET (1..(n + 1)) -> V] : FoldEq(it, V, E, d, base, s, n + 1)
    OBVIOUS
  <2>0. n <= Len(s)
    OBVIOUS
  <2>1. PICK f \in [SUBSET (1..n) -> V] : FoldEq(f, V, E, d, base, s, n)
    BY <1>2, <2>0, Zenon
  <2>2. s[n + 1] \in E
    OBVIOUS
  <2> DEFINE g == [t \in SUBSET (1..(n + 1)) |->
                     IF n + 1 \in t THEN d[<<f[t \ {n + 1}], s[n + 1]>>] ELSE f[t]]
  <2>3. \A t \in SUBSET (1..(n + 1)) : t \ {n + 1} \in SUBSET (1..n)
    OBVIOUS
  <2>4. g \in [SUBSET (1..(n + 1)) -> V]
    <3>1. ASSUME NEW t \in SUBSET (1..(n + 1)), n + 1 \notin t PROVE t \in SUBSET (1..n)
      BY <2>3, <3>1
    <3>2. QED
      BY <2>2, <2>3, <3>1
  <2>5. ASSUME NEW t \in SUBSET (1..(n + 1)), n + 1 \in t
        PROVE  g[t] = d[<<g[t \ {Max(t)}], s[Max(t)]>>] /\ t # {}
    <3>1. n + 1 \in t /\ \A y \in t : n + 1 >= y
      BY <2>5
    <3>2. \A x \in t : (\A y \in t : x >= y) => x = n + 1
      BY <3>1
    <3>3. Max(t) = n + 1
      BY <3>1, <3>2 DEF Max
    <3>4. t \ {n + 1} \in SUBSET (1..(n + 1)) /\ n + 1 \notin t \ {n + 1}
      BY <2>3
    <3>5. g[t \ {n + 1}] = f[t \ {n + 1}]
      BY <3>4
    <3>6. QED
      BY <2>5, <3>3, <3>5
  <2>6. ASSUME NEW t \in SUBSET (1..(n + 1)), n + 1 \notin t
        PROVE  g[t] = IF t = {} THEN base ELSE d[<<g[t \ {Max(t)}], s[Max(t)]>>]
    <3>1. t \in SUBSET (1..n)
      BY <2>3, <2>6
    <3>2. f[t] = IF t = {} THEN base ELSE d[<<f[t \ {Max(t)}], s[Max(t)]>>]
      BY <2>1, <3>1 DEF FoldEq
    <3>3. g[t] = f[t] /\ g[t \ {Max(t)}] = f[t \ {Max(t)}]
      BY <2>6
    <3>4. QED
      BY <3>2, <3>3
  <2>7. FoldEq(g, V, E, d, base, s, n + 1)
    <3> HIDE DEF g
    <3>1. DOMAIN g = SUBSET (1..(n + 1)) /\ g \in [SUBSET (1..(n + 1)) -> V]
      BY <2>4
    <3>2. \A t \in SUBSET (1..(n + 1)) : g[t] = IF t = {} THEN base ELSE d[<<g[t \ {Max(t)}], s[Max(t)]>>]
      BY <2>5, <2>6
    <3>3. QED
      BY <3>1, <3>2 DEF FoldEq
  <2>8. QED
    BY <2>4, <2>7
<1>3. \A n \in Nat : P(n)
  <2> HIDE DEF P
  <2>1. 0 \in T /\ \A n \in Nat : n \in T => n + 1 \in T
    BY <1>1, <1>2
  <2>2. Nat \subseteq T
    <3> HIDE DEF T
    <3>1. QED
      BY <2>1, Induction
  <2>3. QED
    BY <2>2
<1>4. \A n \in 0..Len(s) : n \in Nat /\ n <= Len(s)
  OBVIOUS
<1>5. QED
  BY <1>3, <1>4, Zenon

\* The value of a fold.
Fold(V, E, d, base, s) == (CHOOSE it : FoldEq(it, V, E, d, base, s, Len(s)))[1..Len(s)]

\* A set of positions has a greatest.
LEMMA MaxIn ==
  ASSUME NEW n \in Nat, NEW t \in SUBSET (1..n), t # {}
  PROVE  Max(t) \in t /\ \A k \in t : k <= Max(t)
<1> DEFINE U == {j \in Nat : \A k \in t : k <= j}
<1>1. n \in U
  OBVIOUS
<1>2. U \subseteq Nat
  OBVIOUS
<1>3. PICK j \in U : \A k \in U : ~(k < j)
  <2> HIDE DEF U
  <2>1. QED
    BY <1>1, <1>2, LeastNat
<1>4. j \in t
  <2>1. SUFFICES ASSUME j \notin t PROVE FALSE
    OBVIOUS
  <2>2. \A k \in t : k < j
    BY <1>3, <2>1
  <2>3. j - 1 \in Nat /\ \A k \in t : k <= j - 1
    <3>1. PICK k \in t : k \in 1..n /\ k < j
      BY <2>2
    <3>2. j \in Nat /\ \A i \in t : i \in Nat
      BY <1>3
    <3>3. QED
      BY <2>2, <3>1, <3>2
  <2>4. j - 1 \in U
    BY <2>3
  <2>5. QED
    BY <1>3, <2>3, <2>4
<1>5. j \in t /\ \A y \in t : j >= y
  BY <1>3, <1>4
<1>6. \A x \in t : (\A y \in t : x >= y) => x = j
  BY <1>5
<1>7. Max(t) = j
  BY <1>5, <1>6 DEF Max
<1>8. QED
  BY <1>5, <1>7

\* it[t] is the fold over the positions t of s.
Whole(it, V, E, d, base, s) ==
  /\ it[{}] = base
  /\ \A t \in SUBSET (1..Len(s)) : t # {} =>
       /\ it[t \ {Max(t)}] \in V /\ s[Max(t)] \in E
       /\ it[t] = d[<<it[t \ {Max(t)}], s[Max(t)]>>]
  /\ DOMAIN it = SUBSET (1..Len(s)) /\ it = [t \in SUBSET (1..Len(s)) |-> it[t]]

LEMMA FoldWhole ==
  ASSUME NEW V, NEW E, NEW d, NEW base, NEW s, Folding(V, E, d, base, s)
  PROVE  \E it : Whole(it, V, E, d, base, s)
<1>0. d \in [V \X E -> V] /\ base \in V /\ s \in Seq(E)
  BY DEF Folding
<1> USE <1>0
<1>1. Len(s) \in 0..Len(s) /\ Len(s) \in Nat
  OBVIOUS
<1>2. PICK it \in [SUBSET (1..Len(s)) -> V] : FoldEq(it, V, E, d, base, s, Len(s))
  BY <1>1, FoldExists, Zenon
<1>3. ASSUME NEW t \in SUBSET (1..Len(s)), t # {}
      PROVE  /\ it[t \ {Max(t)}] \in V /\ s[Max(t)] \in E
             /\ it[t] = d[<<it[t \ {Max(t)}], s[Max(t)]>>]
  <2>1. Max(t) \in 1..Len(s)
    BY <1>1, <1>3, MaxIn
  <2>2. t \ {Max(t)} \in SUBSET (1..Len(s))
    OBVIOUS
  <2>3. it[t \ {Max(t)}] \in V /\ s[Max(t)] \in E
    BY <2>1, <2>2
  <2>4. it[t] = d[<<it[t \ {Max(t)}], s[Max(t)]>>]
    BY <1>2, <1>3 DEF FoldEq
  <2>5. QED
    BY <2>3, <2>4
<1>4. it[{}] = base
  BY <1>2 DEF FoldEq
<1>5. DOMAIN it = SUBSET (1..Len(s)) /\ it = [t \in SUBSET (1..Len(s)) |-> it[t]]
  OBVIOUS
<1>6. QED
  BY <1>3, <1>4, <1>5 DEF Whole

LEMMA Interval ==
  ASSUME NEW k \in Nat \ {0}
  PROVE  Max(1..k) = k /\ (1..k) \ {k} = 1..(k - 1) /\ 1..k # {}
<1>1. k \in 1..k /\ \A y \in 1..k : k >= y
  OBVIOUS
<1>2. \A x \in 1..k : (\A y \in 1..k : x >= y) => x = k
  BY <1>1
<1>3. Max(1..k) = k
  BY <1>1, <1>2 DEF Max
<1>4. QED
  BY <1>1, <1>3

\* g goes by the steps of a fold.
Steps(g, V, E, d, base, s) ==
  /\ g[0] = base /\ g[Len(s)] = Fold(V, E, d, base, s)
  /\ \A k \in 1..Len(s) : g[k] = d[<<g[k - 1], s[k]>>]
  /\ \A k \in 0..Len(s) : g[k] \in V

LEMMA FoldSteps ==
  ASSUME NEW V, NEW E, NEW d, NEW base, NEW s, Folding(V, E, d, base, s)
  PROVE  \E g : Steps(g, V, E, d, base, s)
<1>0. d \in [V \X E -> V] /\ base \in V /\ s \in Seq(E)
  BY DEF Folding
<1> USE <1>0
<1> DEFINE it == CHOOSE f : FoldEq(f, V, E, d, base, s, Len(s))
           g == [k \in 0..Len(s) |-> it[1..k]]
<1>1. Len(s) \in 0..Len(s)
  OBVIOUS
<1>2. FoldEq(it, V, E, d, base, s, Len(s))
  BY <1>1, FoldExists, Zenon
<1>3. Fold(V, E, d, base, s) = it[1..Len(s)]
  BY DEF Fold
<1> HIDE DEF it
<1>4. \A t \in SUBSET (1..Len(s)) : it[t] = IF t = {} THEN base ELSE d[<<it[t \ {Max(t)}], s[Max(t)]>>]
  BY <1>2 DEF FoldEq
<1>5. g[0] = base
  <2>1. 1..0 = {} /\ 1..0 \in SUBSET (1..Len(s))
    OBVIOUS
  <2>2. it[1..0] = base
    BY <1>4, <2>1
  <2>3. QED
    BY <2>2
<1>6. ASSUME NEW k \in 1..Len(s) PROVE g[k] = d[<<g[k - 1], s[k]>>]
  <2>1. 1..k \in SUBSET (1..Len(s)) /\ k - 1 \in 0..Len(s) /\ k \in Nat \ {0}
    OBVIOUS
  <2>2. it[1..k] = d[<<it[1..(k - 1)], s[k]>>]
    BY <1>4, <2>1, Interval
  <2>3. QED
    BY <2>1, <2>2
<1>7. g[Len(s)] = Fold(V, E, d, base, s)
  BY <1>1, <1>3
<1> HIDE DEF g
<1>8. \A k \in 0..Len(s) : g[k] \in V
  <2> DEFINE P(k) == k <= Len(s) => g[k] \in V
             T == {k \in Nat : P(k)}
  <2>1. P(0)
    BY <1>5
  <2>2. ASSUME NEW k \in Nat, P(k) PROVE P(k + 1)
    <3> SUFFICES ASSUME k + 1 <= Len(s) PROVE g[k + 1] \in V
      OBVIOUS
    <3>1. k + 1 \in 1..Len(s) /\ (k + 1) - 1 = k /\ g[k] \in V /\ s[k + 1] \in E
      BY <2>2
    <3>2. g[k + 1] = d[<<g[k], s[k + 1]>>]
      BY <1>6, <3>1
    <3>3. QED
      BY <3>1, <3>2
  <2>3. \A k \in Nat : P(k)
    <3> HIDE DEF P
    <3>1. 0 \in T /\ \A k \in Nat : k \in T => k + 1 \in T
      BY <2>1, <2>2
    <3>2. Nat \subseteq T
      <4> HIDE DEF T
      <4>1. QED
        BY <3>1, Induction
    <3>3. QED
      BY <3>2
  <2>4. QED
    BY <2>3
<1>9. QED
  BY <1>5, <1>6, <1>7, <1>8 DEF Steps

\* What goes by the same steps comes to the same value.
Goes(f, V, d, base, s) ==
  f[0] = base /\ \A k \in 1..Len(s) : f[k - 1] \in V => f[k] = d[<<f[k - 1], s[k]>>]

LEMMA FoldMatches ==
  ASSUME NEW V, NEW E, NEW d, NEW base, NEW s, Folding(V, E, d, base, s),
         NEW f, Goes(f, V, d, base, s)
  PROVE  f[Len(s)] = Fold(V, E, d, base, s)
<1>0. d \in [V \X E -> V] /\ base \in V /\ s \in Seq(E)
  BY DEF Folding
<1> USE <1>0
<1>9. PICK g : Steps(g, V, E, d, base, s)
  BY FoldSteps
<1>1. /\ g[0] = base /\ g[Len(s)] = Fold(V, E, d, base, s)
      /\ \A k \in 1..Len(s) : g[k] = d[<<g[k - 1], s[k]>>]
      /\ \A k \in 0..Len(s) : g[k] \in V
  BY <1>9 DEF Steps
<1> DEFINE P(k) == k <= Len(s) => f[k] = g[k]
           T == {k \in Nat : P(k)}
<1>2. P(0)
  BY <1>1 DEF Goes
<1>3. ASSUME NEW k \in Nat, P(k) PROVE P(k + 1)
  <2> SUFFICES ASSUME k + 1 <= Len(s) PROVE f[k + 1] = g[k + 1]
    OBVIOUS
  <2>1. /\ k + 1 \in 1..Len(s) /\ (k + 1) - 1 = k /\ f[k] = g[k] /\ k \in 0..Len(s)
    BY <1>3
  <2>2. f[k + 1] = d[<<f[k], s[k + 1]>>]
    BY <1>1, <2>1 DEF Goes
  <2>3. QED
    BY <1>1, <2>1, <2>2
<1>4. \A k \in Nat : P(k)
  <2> HIDE DEF P
  <2>1. 0 \in T /\ \A k \in Nat : k \in T => k + 1 \in T
    BY <1>2, <1>3
  <2>2. Nat \subseteq T
    <3> HIDE DEF T
    <3>1. QED
      BY <2>1, Induction
  <2>3. QED
    BY <2>2
<1>5. QED
  BY <1>1, <1>4

LEMMA FoldTyped ==
  ASSUME NEW V, NEW E, NEW d, NEW base, NEW s, Folding(V, E, d, base, s)
  PROVE  Fold(V, E, d, base, s) \in V
<1>1. PICK g : Steps(g, V, E, d, base, s)
  BY FoldSteps
<1>2. Len(s) \in 0..Len(s)
  BY DEF Folding
<1>3. QED
  BY <1>1, <1>2 DEF Steps

LEMMA FoldNothing ==
  ASSUME NEW V, NEW E, NEW d, NEW base, Folding(V, E, d, base, <<>>)
  PROVE  Fold(V, E, d, base, <<>>) = base
<1>1. PICK g : Steps(g, V, E, d, base, <<>>)
  BY FoldSteps
<1>2. Len(<<>>) = 0
  OBVIOUS
<1>3. QED
  BY <1>1, <1>2 DEF Steps

LEMMA FoldAppend ==
  ASSUME NEW V, NEW E, NEW d, NEW base, NEW s, NEW e, Folding(V, E, d, base, s), e \in E
  PROVE  Fold(V, E, d, base, Append(s, e)) = d[<<Fold(V, E, d, base, s), e>>]
<1> DEFINE a == Append(s, e)
<1>1. s \in Seq(E)
  BY DEF Folding
<1>2. /\ a \in Seq(E) /\ Len(a) = Len(s) + 1 /\ (\A k \in 1..Len(s) : s[k] = a[k]) /\ a[Len(a)] = e
      /\ Len(s) \in Nat
  BY <1>1
<1> HIDE DEF a
<1>3. Folding(V, E, d, base, a)
  BY <1>2 DEF Folding
<1>4. PICK g : Steps(g, V, E, d, base, a)
  BY <1>3, FoldSteps
<1>5. /\ g[0] = base /\ g[Len(a)] = Fold(V, E, d, base, a)
      /\ \A k \in 1..Len(a) : g[k] = d[<<g[k - 1], a[k]>>]
  BY <1>4 DEF Steps
<1>6. g[Len(s)] = Fold(V, E, d, base, s)
  <2>1. Goes(g, V, d, base, s)
    BY <1>2, <1>5 DEF Goes
  <2>2. QED
    BY <2>1, FoldMatches
<1>7. g[Len(a)] = d[<<g[Len(s)], e>>]
  BY <1>2, <1>5
<1>8. QED
  BY <1>5, <1>6, <1>7 DEF a

\* The function that FoldLeft chooses.
Chosen(it, V, d, base, s) ==
  /\ it[{}] = base
  /\ \A t \in SUBSET (1..Len(s)) : t # {} /\ it[t \ {Max(t)}] \in V =>
       it[t] = d[<<it[t \ {Max(t)}], s[Max(t)]>>]

LEMMA FoldChosen ==
  ASSUME NEW V, NEW E, NEW d, NEW base, NEW s, Folding(V, E, d, base, s),
         NEW it, Chosen(it, V, d, base, s)
  PROVE  it[1..Len(s)] = Fold(V, E, d, base, s)
<1>1. Len(s) \in Nat
  BY DEF Folding
<1> DEFINE f == [k \in 0..Len(s) |-> it[1..k]]
<1>2. f[0] = base
  <2>1. 1..0 = {} /\ 0 \in 0..Len(s)
    BY <1>1
  <2>2. QED
    BY <2>1 DEF Chosen
<1>3. ASSUME NEW k \in 1..Len(s) PROVE f[k] = it[1..k] /\ f[k - 1] = it[1..(k - 1)]
  BY <1>1
<1>4. f[Len(s)] = it[1..Len(s)]
  BY <1>1
<1> HIDE DEF f
<1>5. Goes(f, V, d, base, s)
  <2>1. ASSUME NEW k \in 1..Len(s), f[k - 1] \in V PROVE f[k] = d[<<f[k - 1], s[k]>>]
    <3>1. 1..k \in SUBSET (1..Len(s)) /\ k \in Nat \ {0}
      BY <1>1
    <3>2. 1..k # {} /\ Max(1..k) = k /\ (1..k) \ {Max(1..k)} = 1..(k - 1)
      BY <3>1, Interval
    <3>3. it[(1..k) \ {Max(1..k)}] \in V
      BY <1>3, <2>1, <3>2
    <3>4. it[1..k] = d[<<it[(1..k) \ {Max(1..k)}], s[Max(1..k)]>>]
      BY <3>1, <3>2, <3>3 DEF Chosen
    <3>5. QED
      BY <1>3, <3>2, <3>4
  <2>2. QED
    BY <1>2, <2>1 DEF Goes
<1>6. f[Len(s)] = Fold(V, E, d, base, s)
  BY <1>5, FoldMatches
<1>7. QED
  BY <1>4, <1>6

------------------------------------------------------------------------------
(* The folds of the model                                                  *)

ItemSet   == [kind : {"message", "reasoning", "command", "file"}, id : Nat,
              status : {"running", "completed", "failed"}]
RecordSet == [id : Nat, role : {"user", "assistant"}, text : BOOLEAN, use : Nat, error : BOOLEAN,
              blocks : Seq(Blocks)]
TurnSet   == [prompt : Nat, items : Seq(ItemSet)]
Histories == Seq(TurnSet)

\* The items that a record shows are of its id, completed, and of the kinds of its blocks.
ItemsOf(rec) ==
  LET has == ToSet(rec.blocks)
  IN {Item("message", rec.id, "completed") : b \in has \cap {"text", "auth"}}
     \cup {Item("reasoning", rec.id, "completed") : b \in has \cap {"thinking"}}
     \cup {Item("command", rec.id, "completed") : b \in has \cap {"bash"}}

\* What a block adds to them.
NextItems(items, b, rec) ==
  CASE b = "bash"     -> Append(items, Item("command", rec.id, "completed"))
    [] b = "thinking" -> Append(items, Item("reasoning", rec.id, "completed"))
    [] OTHER          -> items
FirstItems(rec) ==
  IF ToSet(rec.blocks) \cap {"text", "auth"} = {} THEN <<>> ELSE <<Item("message", rec.id, "completed")>>
Showing(rec) == [x \in Seq(ItemsOf(rec)) \X ToSet(rec.blocks) |-> NextItems(x[1], x[2], rec)]

LEMMA ItemsOfTypes == ASSUME NEW rec \in RecordSet PROVE ItemsOf(rec) \subseteq ItemSet
  BY DEF ItemsOf, Item, ItemSet, RecordSet

LEMMA ShowingTypes ==
  ASSUME NEW rec \in RecordSet
  PROVE  Folding(Seq(ItemsOf(rec)), ToSet(rec.blocks), Showing(rec), FirstItems(rec), rec.blocks)
<1>1. \A items \in Seq(ItemsOf(rec)), b \in ToSet(rec.blocks) : NextItems(items, b, rec) \in Seq(ItemsOf(rec))
  <2> TAKE items \in Seq(ItemsOf(rec)), b \in ToSet(rec.blocks)
  <2>1. CASE b = "bash"
    <3>1. Item("command", rec.id, "completed") \in ItemsOf(rec)
      BY <2>1 DEF ItemsOf
    <3> HIDE DEF Item
    <3>2. QED
      BY <2>1, <3>1 DEF NextItems
  <2>2. CASE b = "thinking"
    <3>1. Item("reasoning", rec.id, "completed") \in ItemsOf(rec)
      BY <2>2 DEF ItemsOf
    <3> HIDE DEF Item
    <3>2. QED
      BY <2>2, <3>1 DEF NextItems
  <2>3. CASE b \notin {"bash", "thinking"}
    BY <2>3 DEF NextItems
  <2>4. QED
    BY <2>1, <2>2, <2>3
<1>2. \A x \in Seq(ItemsOf(rec)) \X ToSet(rec.blocks) : NextItems(x[1], x[2], rec) \in Seq(ItemsOf(rec))
  BY <1>1
<1>3. FirstItems(rec) \in Seq(ItemsOf(rec))
  <2>1. CASE ToSet(rec.blocks) \cap {"text", "auth"} = {}
    BY <2>1 DEF FirstItems
  <2>2. CASE ToSet(rec.blocks) \cap {"text", "auth"} # {}
    <3>1. Item("message", rec.id, "completed") \in ItemsOf(rec)
      BY <2>2 DEF ItemsOf
    <3> HIDE DEF Item
    <3>2. QED
      BY <2>2, <3>1 DEF FirstItems
  <2>3. QED
    BY <2>1, <2>2
<1>4. rec.blocks \in Seq(ToSet(rec.blocks))
  <2>1. rec.blocks \in Seq(Blocks)
    BY DEF RecordSet
  <2>2. \A i \in 1..Len(rec.blocks) : rec.blocks[i] \in ToSet(rec.blocks)
    BY <2>1 DEF ToSet
  <2>3. QED
    BY <2>1, <2>2
<1>5. QED
  BY <1>2, <1>3, <1>4 DEF Folding, Showing

LEMMA AssistantFold ==
  ASSUME NEW rec \in RecordSet
  PROVE  /\ AssistantItems(rec) = Fold(Seq(ItemsOf(rec)), ToSet(rec.blocks), Showing(rec), FirstItems(rec), rec.blocks)
         /\ AssistantItems(rec) \in Seq(ItemsOf(rec)) /\ AssistantItems(rec) \in Seq(ItemSet)
<1> DEFINE V == Seq(ItemsOf(rec))
           s == rec.blocks
           base == FirstItems(rec)
           Eq(it) == it = [t \in SUBSET DOMAIN s |->
                             IF t = {} THEN base ELSE NextItems(it[t \ {Max(t)}], s[Max(t)], rec)]
           it == CHOOSE f : Eq(f)
<1>1. AssistantItems(rec) = it[DOMAIN s]
  BY DEF AssistantItems, FoldLeft, MapThenFoldSet, NextItems, FirstItems
<1> HIDE DEF base, V
<1>2. Folding(V, ToSet(s), Showing(rec), base, s)
  BY ShowingTypes DEF V, base
<1>3. DOMAIN s = 1..Len(s) /\ V = Seq(ItemsOf(rec))
  BY DEF RecordSet, V
<1>4. PICK g : Whole(g, V, ToSet(s), Showing(rec), base, s)
  BY <1>2, FoldWhole
<1> HIDE DEF s
<1>5. \A items \in V, b \in ToSet(s) : Showing(rec)[<<items, b>>] = NextItems(items, b, rec)
  BY <1>3 DEF Showing, s
<1>6. Eq(g)
  <2>1. ASSUME NEW t \in SUBSET (1..Len(s)), t # {}
        PROVE  g[t] = NextItems(g[t \ {Max(t)}], s[Max(t)], rec)
    BY <1>4, <1>5, <2>1 DEF Whole
  <2>2. QED
    BY <1>3, <1>4, <2>1 DEF Whole
<1>7. Eq(it)
  BY <1>6
<1> HIDE DEF it
<1>8. Chosen(it, V, Showing(rec), base, s)
  <2>1. ASSUME NEW t \in SUBSET (1..Len(s)), t # {}, it[t \ {Max(t)}] \in V
        PROVE  it[t] = Showing(rec)[<<it[t \ {Max(t)}], s[Max(t)]>>]
    BY <1>3, <1>4, <1>5, <1>7, <2>1 DEF Whole
  <2>2. QED
    BY <1>3, <1>7, <2>1 DEF Chosen
<1> HIDE DEF Eq
<1>9. it[1..Len(s)] = Fold(V, ToSet(s), Showing(rec), base, s)
  BY <1>2, <1>8, FoldChosen
<1>10. Fold(V, ToSet(s), Showing(rec), base, s) \in V
  BY <1>2, FoldTyped
<1>11. AssistantItems(rec) \in V /\ V \subseteq Seq(ItemSet)
  BY <1>1, <1>3, <1>9, <1>10, ItemsOfTypes
<1>12. QED
  BY <1>1, <1>3, <1>9, <1>11 DEF V, s, base

\* AddRecord as a function.
Added == [x \in Histories \X RecordSet |-> AddRecord(x[1], x[2])]

LEMMA ResultTypes ==
  ASSUME NEW turns \in Histories, NEW rec \in RecordSet
  PROVE  /\ ApplyToolResults(turns, rec) \in Histories
         /\ Len(ApplyToolResults(turns, rec)) = Len(turns)
         /\ \A k \in 1..Len(turns) :
              LET was == turns[k]
                  is  == ApplyToolResults(turns, rec)[k]
              IN /\ is.prompt = was.prompt /\ Len(is.items) = Len(was.items)
                 /\ \A i \in 1..Len(was.items) :
                      is.items[i] = IF was.items[i].kind = "command" /\ was.items[i].id = rec.use
                                    THEN [was.items[i] EXCEPT !.status = Status(rec.error)]
                                    ELSE was.items[i]
<1> DEFINE Ended(item) == IF item.kind = "command" /\ item.id = rec.use
                          THEN [item EXCEPT !.status = Status(rec.error)] ELSE item
           new(turn) == [k \in 1..Len(turn.items) |-> Ended(turn.items[k])]
           out == [i \in 1..Len(turns) |-> [turns[i] EXCEPT !.items = new(turns[i])]]
<1>1. ApplyToolResults(turns, rec) = out
  BY DEF ApplyToolResults
<1>2. \A item \in ItemSet : Ended(item) \in ItemSet
  BY DEF ItemSet, Status
<1>3. turns \in Seq(TurnSet)
  BY DEF Histories
<1>4. \A turn \in TurnSet : turn.items \in Seq(ItemSet)
  BY DEF TurnSet
<1> HIDE DEF Ended
<1>5. \A turn \in TurnSet : new(turn) \in Seq(ItemSet) /\ Len(new(turn)) = Len(turn.items)
  <2> TAKE turn \in TurnSet
  <2>1. \A k \in 1..Len(turn.items) : turn.items[k] \in ItemSet
    BY <1>4
  <2>2. Len(turn.items) \in Nat
    BY <1>4
  <2>3. QED
    BY <1>2, <2>1, <2>2
<1>6. \A i \in 1..Len(turns) : turns[i] \in TurnSet
  BY <1>3
<1>7. Len(turns) \in Nat
  BY <1>3
<1>8. \A turn \in TurnSet : \A i \in 1..Len(turn.items) : new(turn)[i] = Ended(turn.items[i])
  OBVIOUS
<1> HIDE DEF new
<1>9. \A turn \in TurnSet : /\ [turn EXCEPT !.items = new(turn)] \in TurnSet
                            /\ [turn EXCEPT !.items = new(turn)].items = new(turn)
                            /\ [turn EXCEPT !.items = new(turn)].prompt = turn.prompt
  BY <1>5 DEF TurnSet
<1>10. out \in Seq(TurnSet) /\ Len(out) = Len(turns)
  BY <1>6, <1>7, <1>9
<1>11. \A k \in 1..Len(turns) : out[k] = [turns[k] EXCEPT !.items = new(turns[k])]
  OBVIOUS
<1> HIDE DEF out
<1>12. \A k \in 1..Len(turns) : out[k].prompt = turns[k].prompt /\ out[k].items = new(turns[k])
  BY <1>6, <1>9, <1>11
<1>13. QED
  BY <1>1, <1>5, <1>6, <1>8, <1>10, <1>12 DEF Histories, Ended

LEMMA StartTypes ==
  ASSUME NEW turns \in Histories, NEW rec \in RecordSet
  PROVE  StartTurn(turns, rec) \in Histories
<1>1. turns \in Seq(TurnSet) /\ [prompt |-> IF rec.text THEN rec.id ELSE 0, items |-> <<>>] \in TurnSet
  BY DEF Histories, TurnSet, RecordSet
<1>2. QED
  BY <1>1 DEF StartTurn, Histories

\* What Claude says goes to the last turn.
LEMMA SaidTypes ==
  ASSUME NEW turns \in Histories, turns # <<>>, NEW new \in Seq(ItemSet)
  PROVE  LET out == [turns EXCEPT ![Len(turns)].items = @ \o new]
         IN /\ out \in Histories /\ Len(out) = Len(turns)
            /\ \A k \in 1..Len(turns) : out[k].prompt = turns[k].prompt
            /\ \A k \in 1..Len(turns) : k # Len(turns) => out[k] = turns[k]
            /\ out[Len(turns)].items = turns[Len(turns)].items \o new
<1>1. turns \in Seq(TurnSet) /\ Len(turns) \in 1..Len(turns)
  BY DEF Histories
<1>2. turns[Len(turns)] \in TurnSet
  BY <1>1
<1> DEFINE last == turns[Len(turns)]
           next == [last EXCEPT !.items = @ \o new]
           out == [turns EXCEPT ![Len(turns)] = next]
<1>3. last.items \o new \in Seq(ItemSet)
  BY <1>2 DEF TurnSet
<1>4. next \in TurnSet /\ next.items = last.items \o new /\ next.prompt = last.prompt
  BY <1>2, <1>3 DEF TurnSet
<1>5. out = [turns EXCEPT ![Len(turns)].items = @ \o new]
  OBVIOUS
<1> HIDE DEF next
<1>6. out \in Seq(TurnSet) /\ Len(out) = Len(turns)
  BY <1>1, <1>4
<1>7. \A k \in 1..Len(turns) : out[k] = IF k = Len(turns) THEN next ELSE turns[k]
  BY <1>1
<1> HIDE DEF out
<1>8. QED
  BY <1>1, <1>4, <1>5, <1>6, <1>7 DEF Histories

LEMMA AddTypes == Added \in [Histories \X RecordSet -> Histories]
<1>1. ASSUME NEW turns \in Histories, NEW rec \in RecordSet PROVE AddRecord(turns, rec) \in Histories
  <2>1. CASE rec.role = "user"
    BY <2>1, ResultTypes, StartTypes DEF AddRecord
  <2>2. CASE rec.role = "assistant"
    <3> DEFINE begun == IF turns = <<>> THEN StartTurn(turns, rec) ELSE turns
    <3>1. begun \in Histories
      BY StartTypes
    <3>2. begun # <<>>
      <4>1. turns \in Seq(TurnSet)
        BY DEF Histories
      <4>2. StartTurn(turns, rec) # <<>>
        BY <4>1 DEF StartTurn
      <4>3. QED
        BY <4>2
    <3>3. AssistantItems(rec) \in Seq(ItemSet)
      BY AssistantFold
    <3>4. AddRecord(turns, rec) = [begun EXCEPT ![Len(begun)].items = @ \o AssistantItems(rec)]
      BY <2>2 DEF AddRecord
    <3> HIDE DEF begun
    <3>5. QED
      BY <3>1, <3>2, <3>3, <3>4, SaidTypes
  <2>3. QED
    BY <2>1, <2>2 DEF RecordSet
<1>2. \A x \in Histories \X RecordSet : AddRecord(x[1], x[2]) \in Histories
  BY <1>1
<1>3. QED
  BY <1>2 DEF Added

\* The turns of a history before those without a prompt are left out.
Raw(s) == FoldLeft(AddRecord, <<>>, s)

LEMMA RecordsFoldTypes == Added \in [Histories \X RecordSet -> Histories] /\ <<>> \in Histories
  BY AddTypes DEF Histories

LEMMA RecordsFold ==
  ASSUME NEW s \in Seq(RecordSet)
  PROVE  Raw(s) = Fold(Histories, RecordSet, Added, <<>>, s)
<1> DEFINE Eq(it) == it = [t \in SUBSET DOMAIN s |->
                             IF t = {} THEN <<>> ELSE AddRecord(it[t \ {Max(t)}], s[Max(t)])]
           it == CHOOSE f : Eq(f)
<1>1. Raw(s) = it[DOMAIN s]
  BY DEF Raw, FoldLeft, MapThenFoldSet
<1>2. DOMAIN s = 1..Len(s)
  OBVIOUS
<1>3. Folding(Histories, RecordSet, Added, <<>>, s)
  BY RecordsFoldTypes DEF Folding
<1>4. PICK g : Whole(g, Histories, RecordSet, Added, <<>>, s)
  BY <1>3, FoldWhole
<1>5. Eq(g)
  <2>1. ASSUME NEW t \in SUBSET (1..Len(s)), t # {}
        PROVE  g[t] = AddRecord(g[t \ {Max(t)}], s[Max(t)])
    BY <1>4, <2>1 DEF Added, Whole
  <2>2. QED
    BY <1>2, <1>4, <2>1 DEF Whole
<1>6. Eq(it)
  BY <1>5
<1> HIDE DEF it
<1>7. Chosen(it, Histories, Added, <<>>, s)
  <2>1. ASSUME NEW t \in SUBSET (1..Len(s)), t # {}, it[t \ {Max(t)}] \in Histories
        PROVE  it[t] = Added[<<it[t \ {Max(t)}], s[Max(t)]>>]
    BY <1>2, <1>4, <1>6, <2>1 DEF Whole, Added
  <2>2. QED
    BY <1>2, <1>6, <2>1 DEF Chosen
<1> HIDE DEF Eq
<1>8. it[1..Len(s)] = Fold(Histories, RecordSet, Added, <<>>, s)
  BY <1>3, <1>7, FoldChosen
<1>9. QED
  BY <1>1, <1>2, <1>8

LEMMA RecordsFoldLaw ==
  ASSUME NEW s \in Seq(RecordSet)
  PROVE  /\ Raw(<<>>) = <<>>
         /\ Raw(s) \in Histories
         /\ \A e \in RecordSet : Raw(Append(s, e)) = AddRecord(Raw(s), e)
<1>1. \A r \in Seq(RecordSet) : Folding(Histories, RecordSet, Added, <<>>, r)
  BY RecordsFoldTypes DEF Folding
<1>2. \A r \in Seq(RecordSet) : Raw(r) = Fold(Histories, RecordSet, Added, <<>>, r)
  BY RecordsFold
<1>3. <<>> \in Seq(RecordSet) /\ \A e \in RecordSet : Append(s, e) \in Seq(RecordSet)
  OBVIOUS
<1>4. Raw(<<>>) = <<>>
  BY <1>1, <1>2, <1>3, FoldNothing
<1>5. Raw(s) \in Histories
  BY <1>1, <1>2, FoldTyped
<1>6. ASSUME NEW e \in RecordSet PROVE Raw(Append(s, e)) = AddRecord(Raw(s), e)
  <2>1. Fold(Histories, RecordSet, Added, <<>>, Append(s, e)) = Added[<<Fold(Histories, RecordSet, Added, <<>>, s), e>>]
    BY <1>1, FoldAppend
  <2>2. Raw(Append(s, e)) = Added[<<Raw(s), e>>]
    BY <1>2, <1>3, <2>1
  <2>3. QED
    BY <1>5, <2>2 DEF Added
<1>7. QED
  BY <1>4, <1>5, <1>6

\* They are left out one by one.
Keep(shown, h) == IF h.prompt = 0 THEN shown ELSE Append(shown, h)
Kept(s) == FoldLeft(Keep, <<>>, s)
Keeping == [x \in Histories \X TurnSet |-> Keep(x[1], x[2])]

LEMMA KeptFoldTypes == Keeping \in [Histories \X TurnSet -> Histories] /\ <<>> \in Histories
<1>1. \A shown \in Histories, h \in TurnSet : Keep(shown, h) \in Histories
  BY DEF Keep, Histories
<1>2. \A x \in Histories \X TurnSet : Keep(x[1], x[2]) \in Histories
  BY <1>1
<1>3. QED
  BY <1>2 DEF Keeping, Histories

LEMMA KeptFold ==
  ASSUME NEW s \in Seq(TurnSet)
  PROVE  Kept(s) = Fold(Histories, TurnSet, Keeping, <<>>, s)
<1> DEFINE Eq(it) == it = [t \in SUBSET DOMAIN s |->
                             IF t = {} THEN <<>> ELSE Keep(it[t \ {Max(t)}], s[Max(t)])]
           it == CHOOSE f : Eq(f)
<1>1. Kept(s) = it[DOMAIN s]
  BY DEF Kept, FoldLeft, MapThenFoldSet
<1>2. DOMAIN s = 1..Len(s)
  OBVIOUS
<1>3. Folding(Histories, TurnSet, Keeping, <<>>, s)
  BY KeptFoldTypes DEF Folding
<1>4. PICK g : Whole(g, Histories, TurnSet, Keeping, <<>>, s)
  BY <1>3, FoldWhole
<1>5. Eq(g)
  <2>1. ASSUME NEW t \in SUBSET (1..Len(s)), t # {}
        PROVE  g[t] = Keep(g[t \ {Max(t)}], s[Max(t)])
    BY <1>4, <2>1 DEF Keeping, Whole
  <2>2. QED
    BY <1>2, <1>4, <2>1 DEF Whole
<1>6. Eq(it)
  BY <1>5
<1> HIDE DEF it
<1>7. Chosen(it, Histories, Keeping, <<>>, s)
  <2>1. ASSUME NEW t \in SUBSET (1..Len(s)), t # {}, it[t \ {Max(t)}] \in Histories
        PROVE  it[t] = Keeping[<<it[t \ {Max(t)}], s[Max(t)]>>]
    BY <1>2, <1>4, <1>6, <2>1 DEF Whole, Keeping
  <2>2. QED
    BY <1>2, <1>6, <2>1 DEF Chosen
<1> HIDE DEF Eq
<1>8. it[1..Len(s)] = Fold(Histories, TurnSet, Keeping, <<>>, s)
  BY <1>3, <1>7, FoldChosen
<1>9. QED
  BY <1>1, <1>2, <1>8

LEMMA KeptFoldLaw ==
  ASSUME NEW s \in Seq(TurnSet)
  PROVE  /\ Kept(<<>>) = <<>>
         /\ Kept(s) \in Histories
         /\ \A e \in TurnSet : Kept(Append(s, e)) = Keep(Kept(s), e)
<1>1. \A r \in Seq(TurnSet) : Folding(Histories, TurnSet, Keeping, <<>>, r)
  BY KeptFoldTypes DEF Folding
<1>2. \A r \in Seq(TurnSet) : Kept(r) = Fold(Histories, TurnSet, Keeping, <<>>, r)
  BY KeptFold
<1>3. <<>> \in Seq(TurnSet) /\ \A e \in TurnSet : Append(s, e) \in Seq(TurnSet)
  OBVIOUS
<1>4. Kept(<<>>) = <<>>
  BY <1>1, <1>2, <1>3, FoldNothing
<1>5. Kept(s) \in Histories
  BY <1>1, <1>2, FoldTyped
<1>6. ASSUME NEW e \in TurnSet PROVE Kept(Append(s, e)) = Keep(Kept(s), e)
  <2>1. Fold(Histories, TurnSet, Keeping, <<>>, Append(s, e)) = Keeping[<<Fold(Histories, TurnSet, Keeping, <<>>, s), e>>]
    BY <1>1, FoldAppend
  <2>2. Kept(Append(s, e)) = Keeping[<<Kept(s), e>>]
    BY <1>2, <1>3, <2>1
  <2>3. QED
    BY <1>5, <2>2 DEF Keeping
<1>7. QED
  BY <1>4, <1>5, <1>6

\* What Claude said in a part of a transcript, as the records have it.
Say(items, x) == IF x.role = "assistant" THEN items \o AssistantItems(x) ELSE items
SaidIn(s) == FoldLeft(Say, <<>>, s)
Saying == [x \in Seq(ItemSet) \X RecordSet |-> Say(x[1], x[2])]

LEMMA SaidFoldTypes == Saying \in [Seq(ItemSet) \X RecordSet -> Seq(ItemSet)] /\ <<>> \in Seq(ItemSet)
<1>1. \A items \in Seq(ItemSet), x \in RecordSet : Say(items, x) \in Seq(ItemSet)
  BY AssistantFold DEF Say
<1>2. \A x \in Seq(ItemSet) \X RecordSet : Say(x[1], x[2]) \in Seq(ItemSet)
  BY <1>1
<1>3. QED
  BY <1>2 DEF Saying

LEMMA SaidFold ==
  ASSUME NEW s \in Seq(RecordSet)
  PROVE  SaidIn(s) = Fold(Seq(ItemSet), RecordSet, Saying, <<>>, s)
<1> DEFINE Eq(it) == it = [t \in SUBSET DOMAIN s |->
                             IF t = {} THEN <<>> ELSE Say(it[t \ {Max(t)}], s[Max(t)])]
           it == CHOOSE f : Eq(f)
<1>1. SaidIn(s) = it[DOMAIN s]
  BY DEF SaidIn, FoldLeft, MapThenFoldSet
<1>2. DOMAIN s = 1..Len(s)
  OBVIOUS
<1>3. Folding(Seq(ItemSet), RecordSet, Saying, <<>>, s)
  BY SaidFoldTypes DEF Folding
<1>4. PICK g : Whole(g, Seq(ItemSet), RecordSet, Saying, <<>>, s)
  BY <1>3, FoldWhole
<1>5. Eq(g)
  <2>1. ASSUME NEW t \in SUBSET (1..Len(s)), t # {}
        PROVE  g[t] = Say(g[t \ {Max(t)}], s[Max(t)])
    BY <1>4, <2>1 DEF Saying, Whole
  <2>2. QED
    BY <1>2, <1>4, <2>1 DEF Whole
<1>6. Eq(it)
  BY <1>5
<1> HIDE DEF it
<1>7. Chosen(it, Seq(ItemSet), Saying, <<>>, s)
  <2>1. ASSUME NEW t \in SUBSET (1..Len(s)), t # {}, it[t \ {Max(t)}] \in Seq(ItemSet)
        PROVE  it[t] = Saying[<<it[t \ {Max(t)}], s[Max(t)]>>]
    BY <1>2, <1>4, <1>6, <2>1 DEF Whole, Saying
  <2>2. QED
    BY <1>2, <1>6, <2>1 DEF Chosen
<1> HIDE DEF Eq
<1>8. it[1..Len(s)] = Fold(Seq(ItemSet), RecordSet, Saying, <<>>, s)
  BY <1>3, <1>7, FoldChosen
<1>9. QED
  BY <1>1, <1>2, <1>8

LEMMA SaidFoldLaw ==
  ASSUME NEW s \in Seq(RecordSet)
  PROVE  /\ SaidIn(<<>>) = <<>>
         /\ SaidIn(s) \in Seq(ItemSet)
         /\ \A e \in RecordSet : SaidIn(Append(s, e)) = Say(SaidIn(s), e)
<1>1. \A r \in Seq(RecordSet) : Folding(Seq(ItemSet), RecordSet, Saying, <<>>, r)
  BY SaidFoldTypes DEF Folding
<1>2. \A r \in Seq(RecordSet) : SaidIn(r) = Fold(Seq(ItemSet), RecordSet, Saying, <<>>, r)
  BY SaidFold
<1>3. <<>> \in Seq(RecordSet) /\ \A e \in RecordSet : Append(s, e) \in Seq(RecordSet)
  OBVIOUS
<1>4. SaidIn(<<>>) = <<>>
  BY <1>1, <1>2, <1>3, FoldNothing
<1>5. SaidIn(s) \in Seq(ItemSet)
  BY <1>1, <1>2, FoldTyped
<1>6. ASSUME NEW e \in RecordSet PROVE SaidIn(Append(s, e)) = Say(SaidIn(s), e)
  <2>1. Fold(Seq(ItemSet), RecordSet, Saying, <<>>, Append(s, e)) = Saying[<<Fold(Seq(ItemSet), RecordSet, Saying, <<>>, s), e>>]
    BY <1>1, FoldAppend
  <2>2. SaidIn(Append(s, e)) = Saying[<<SaidIn(s), e>>]
    BY <1>2, <1>3, <2>1
  <2>3. QED
    BY <1>5, <2>2 DEF Saying
<1>7. QED
  BY <1>4, <1>5, <1>6
------------------------------------------------------------------------------
(* What the state consists of                                              *)

Stages == {"idle", "running", "completed", "failed", "auth", "aborted"}
RunSet == [session : Sessions \cup {None}, turn : Turns \cup {None}, prompt : Nat, stage : Stages,
           open : BOOLEAN, mapped : SUBSET Nat]

Typed ==
  /\ records \in Nat
  /\ file \in [Sessions -> Seq(RecordSet)]
  /\ stream \in [Runs -> Seq(RecordSet)]
  /\ run \in [Runs -> RunSet]
  /\ \A r \in Runs : run[r].stage # "idle" => run[r].session \in Sessions /\ run[r].turn \in Turns
  /\ asked \subseteq Runs

LEMMA RecordTypes ==
  ASSUME NEW id \in Nat
  PROVE  /\ Prompt(id) \in RecordSet /\ LocalCommand(id) \in RecordSet
         /\ \A u \in Nat, failed \in BOOLEAN : ToolResult(id, u, failed) \in RecordSet
         /\ \A c \in Contents : Said(id, c) \in RecordSet
<1>1. \A c \in Contents : c \in Seq(Blocks)
  BY HistoryConstants
<1>2. <<>> \in Seq(Blocks)
  OBVIOUS
<1> HIDE DEF Blocks
<1>3. QED
  BY <1>1, <1>2 DEF Prompt, LocalCommand, ToolResult, Said, RecordSet

\* The record that a step writes.
LEMMA Appended ==
  ASSUME Typed, NEW s \in Sessions, NEW rec \in RecordSet, Write(s, rec)
  PROVE  /\ records' \in Nat /\ file' \in [Sessions -> Seq(RecordSet)]
         /\ file'[s] = Append(file[s], rec) /\ \A x \in Sessions \ {s} : file'[x] = file[x]
<1>1. file[s] \in Seq(RecordSet)
  BY DEF Typed
<1>2. Append(file[s], rec) \in Seq(RecordSet)
  BY <1>1
<1>3. file' = [file EXCEPT ![s] = Append(file[s], rec)]
  BY DEF Write
<1>4. QED
  BY <1>2, <1>3 DEF Typed, Write

LEMMA OpenUsesTypes ==
  ASSUME Typed, NEW r \in Runs, Running(r)
  PROVE  OpenUses(r) \subseteq Nat
<1>1. file[run[r].session] \in Seq(RecordSet)
  BY DEF Typed, Running
<1> DEFINE recs == file[run[r].session]
<1>2. \A i \in 1..Len(recs) : recs[i].id \in Nat
  <2> HIDE DEF recs
  <2>1. recs \in Seq(RecordSet)
    BY <1>1 DEF recs
  <2>2. \A i \in 1..Len(recs) : recs[i] \in RecordSet
    BY <2>1
  <2>3. QED
    BY <2>2 DEF RecordSet
<1>3. QED
  BY <1>2 DEF OpenUses

\* What an answer of Claude writes: the next record, to the session and to the stream.
LEMMA Answered ==
  ASSUME Typed, NEW r \in Runs, Answer(r)
  PROVE  /\ Running(r) /\ UNCHANGED <<run, live, toolUses, authTurns, deletes, ghosts>>
         /\ \E rec \in RecordSet :
              /\ rec.id = records + 1 /\ ~rec.text
              /\ \/ \E c \in Contents : rec = Said(records + 1, c)
                 \/ \E u \in OpenUses(r), failed \in BOOLEAN : rec = ToolResult(records + 1, u, failed)
              /\ Write(run[r].session, rec) /\ stream' = [stream EXCEPT ![r] = Append(@, rec)]
<1>1. records + 1 \in Nat /\ Running(r)
  BY DEF Typed, Answer
<1>2. CASE \E c \in Contents : Streams(r, Said(records + 1, c))
  <2>1. PICK c \in Contents : Streams(r, Said(records + 1, c))
    BY <1>2
  <2>2. Said(records + 1, c) \in RecordSet
    BY <1>1, RecordTypes
  <2>3. Said(records + 1, c).id = records + 1 /\ ~Said(records + 1, c).text
    BY DEF Said, LocalCommand, Prompt
  <2> HIDE DEF Said
  <2>4. QED
    BY <1>1, <2>1, <2>2, <2>3 DEF Answer, Streams
<1>3. CASE \E u \in OpenUses(r), failed \in BOOLEAN : Streams(r, ToolResult(records + 1, u, failed))
  <2>1. PICK u \in OpenUses(r), failed \in BOOLEAN : Streams(r, ToolResult(records + 1, u, failed))
    BY <1>3
  <2>2. ToolResult(records + 1, u, failed) \in RecordSet
    BY <1>1, <2>1, OpenUsesTypes, RecordTypes
  <2>3. ToolResult(records + 1, u, failed).id = records + 1 /\ ~ToolResult(records + 1, u, failed).text
    BY DEF ToolResult, LocalCommand, Prompt
  <2> HIDE DEF ToolResult, OpenUses
  <2>4. QED
    BY <1>1, <2>1, <2>2, <2>3 DEF Answer, Streams
<1>4. QED
  BY <1>2, <1>3 DEF Answer

LEMMA TypedInit == Init => Typed
<1> SUFFICES ASSUME Init PROVE Typed
  OBVIOUS
<1>1. Idle \in RunSet /\ Idle.stage = "idle"
  BY DEF Idle, RunSet, Stages, None
<1> HIDE DEF Idle
<1>2. QED
  BY <1>1 DEF Init, Typed

LEMMA TypedNext == Typed /\ [Next]_vars => Typed'
<1> SUFFICES ASSUME Typed, [Next]_vars PROVE Typed'
  OBVIOUS
<1>1. ASSUME NEW s \in Sessions, LocalPrompt(s) PROVE Typed'
  <2>1. PICK rec \in {Prompt(records + 1), LocalCommand(records + 1)} : Write(s, rec)
    BY <1>1 DEF LocalPrompt
  <2>2. rec \in RecordSet
    BY RecordTypes DEF Typed
  <2>3. UNCHANGED <<stream, run, asked>>
    BY <1>1 DEF LocalPrompt, turnVars
  <2>4. QED
    BY <2>1, <2>2, <2>3, Appended DEF Typed
<1>2. ASSUME NEW s \in Sessions, DeleteThread(s) PROVE Typed'
  <2>1. UNCHANGED <<records, stream, run, asked>>
    BY <1>2 DEF DeleteThread, turnVars, ghosts
  <2>2. file' = file \/ file' = [file EXCEPT ![s] = <<>>]
    BY <1>2 DEF DeleteThread, Removed
  <2>3. <<>> \in Seq(RecordSet)
    OBVIOUS
  <2>4. file' \in [Sessions -> Seq(RecordSet)]
    BY <2>2, <2>3 DEF Typed
  <2>5. QED
    BY <2>1, <2>4 DEF Typed
<1>3. ASSUME NEW r \in Runs, NEW s \in Sessions, NEW t \in Turns, StartRun(r, s, t) PROVE Typed'
  <2>1. Write(s, Prompt(records + 1)) /\ UNCHANGED <<stream, asked>>
    BY <1>3 DEF StartRun
  <2>2. Prompt(records + 1) \in RecordSet /\ records + 1 \in Nat
    BY RecordTypes DEF Typed
  <2>3. records' \in Nat /\ file' \in [Sessions -> Seq(RecordSet)]
    BY <2>1, <2>2, Appended
  <2> DEFINE new == [session |-> s, turn |-> t, prompt |-> records + 1, stage |-> "running",
                     open |-> TRUE, mapped |-> {}]
  <2>4. new \in RunSet
    BY <2>2 DEF RunSet, Stages
  <2>5. run' = [run EXCEPT ![r] = new] /\ new.session \in Sessions /\ new.turn \in Turns
    BY <1>3 DEF StartRun
  <2> HIDE DEF new
  <2>6. QED
    BY <2>1, <2>3, <2>4, <2>5 DEF Typed
<1>4. ASSUME NEW r \in Runs, Answer(r) PROVE Typed'
  <2>1. Running(r) /\ UNCHANGED <<run, asked>>
    BY <1>4, Answered DEF ghosts
  <2>2. run[r].session \in Sessions
    BY <2>1 DEF Running, Typed
  <2>3. PICK rec \in RecordSet : Write(run[r].session, rec) /\ stream' = [stream EXCEPT ![r] = Append(@, rec)]
    BY <1>4, Answered
  <2>4. records' \in Nat /\ file' \in [Sessions -> Seq(RecordSet)]
    BY <2>2, <2>3, Appended
  <2>5. Append(stream[r], rec) \in Seq(RecordSet)
    BY DEF Typed
  <2>6. stream' \in [Runs -> Seq(RecordSet)]
    BY <2>3, <2>5 DEF Typed
  <2>7. QED
    BY <2>1, <2>4, <2>6 DEF Typed
<1>5. ASSUME NEW r \in Runs, MapMessage(r) PROVE Typed'
  <2>1. UNCHANGED <<file, records>> /\ stream' = [stream EXCEPT ![r] = Tail(@)] /\ stream[r] # <<>>
        /\ run' = [run EXCEPT ![r].mapped = @ \cup {Head(stream[r]).id}]
    BY <1>5 DEF MapMessage, files
  <2>2. Tail(stream[r]) \in Seq(RecordSet) /\ Head(stream[r]) \in RecordSet
    BY <2>1 DEF Typed
  <2>3. Head(stream[r]).id \in Nat
    BY <2>2 DEF RecordSet
  <2>4. run' \in [Runs -> RunSet]
    BY <2>1, <2>3 DEF Typed, RunSet
  <2>5. \A q \in Runs : /\ run'[q].stage = run[q].stage /\ run'[q].session = run[q].session
                        /\ run'[q].turn = run[q].turn
    BY <2>1 DEF Typed, RunSet
  <2>6. asked' \subseteq Runs
    <3>1. CASE MapAssistant(r, Head(stream[r]))
      BY <3>1, Zenon DEF MapAssistant, Typed
    <3>2. CASE MapResult(r, Head(stream[r]))
      BY <3>2, Zenon DEF MapResult, Typed
    <3>3. QED
      BY <1>5, <3>1, <3>2 DEF MapMessage
  <2>7. QED
    BY <2>1, <2>2, <2>4, <2>5, <2>6 DEF Typed
<1>6. ASSUME NEW r \in Runs, NEW st \in Stages \ {"idle"}, Running(r), Ends(r, st) PROVE Typed'
  <2>1. UNCHANGED <<file, records, asked>> /\ stream' = [stream EXCEPT ![r] = <<>>]
        /\ run' = [run EXCEPT ![r].stage = st]
    BY <1>6 DEF Ends, files, ghosts
  <2>2. <<>> \in Seq(RecordSet)
    OBVIOUS
  <2>3. run' \in [Runs -> RunSet]
    BY <1>6, <2>1 DEF Typed, RunSet
  <2>4. \A q \in Runs : run'[q].session = run[q].session /\ run'[q].turn = run[q].turn
    BY <2>1 DEF Typed, RunSet
  <2>5. \A q \in Runs : run'[q].stage # "idle" => run[q].stage # "idle"
    BY <1>6, <2>1 DEF Typed, RunSet, Running
  <2>6. QED
    BY <2>1, <2>2, <2>3, <2>4, <2>5 DEF Typed
<1>7. ASSUME NEW r \in Runs, Finally(r) PROVE Typed'
  <2>1. UNCHANGED <<file, records, stream, asked>> /\ run' = [run EXCEPT ![r].open = FALSE]
    BY <1>7 DEF Finally, files, ghosts
  <2>2. QED
    BY <2>1 DEF Typed, RunSet
<1>8. CASE UNCHANGED vars
  BY <1>8 DEF vars, files, turnVars, ghosts, Typed
<1>9. ASSUME NEW r \in Runs, MapResultMessage(r) \/ Abort(r) PROVE Typed'
  <2>1. \E st \in Stages \ {"idle"} : Running(r) /\ Ends(r, st)
    BY <1>9 DEF MapResultMessage, Abort, Stages
  <2>2. QED
    BY <1>6, <2>1
<1>10. QED
  BY <1>1, <1>2, <1>3, <1>4, <1>5, <1>7, <1>8, <1>9 DEF Next
------------------------------------------------------------------------------
(* Turns that ask to log in                                                *)

\* A turn_id is in the table as long as some run that asked has not ended it.
AskersAccounted ==
  \A t \in authTurns : \E q \in asked : run[q].turn = t /\ run[q].stage \in {"running", "aborted"}

\* It stays there while a run that asked goes on, unless another of the turn_id ends.
AskersRemembered ==
  \A r \in asked : Running(r) => run[r].turn \in authTurns \/ \E q \in Runs : <<r, q>> \in met

\* Open runs of one turn_id have met.
OpenHaveMet ==
  \A r, q \in Runs : r # q /\ run[r].open /\ run[q].open /\ run[r].turn = run[q].turn => <<r, q>> \in met

Order ==
  \A r \in Runs : /\ Running(r) => run[r].open
                  /\ run[r].stage = "idle" => ~run[r].open /\ r \notin asked

Auth == Typed /\ Order /\ AskersAccounted /\ AskersRemembered /\ OpenHaveMet /\ AuthReported

LEMMA AuthInit == Init => Auth
<1> SUFFICES ASSUME Init PROVE Auth
  OBVIOUS
<1>1. \A r \in Runs : run[r] = Idle
  BY DEF Init
<1>2. Idle.stage = "idle" /\ ~Idle.open
  BY DEF Idle
<1> HIDE DEF Idle
<1>3. authTurns = {} /\ asked = {}
  BY DEF Init
<1>4. QED
  BY <1>1, <1>2, <1>3, TypedInit DEF Auth, Order, AskersAccounted, AskersRemembered, OpenHaveMet,
     AuthReported, Running

\* A step that leaves the runs as they are, but for what they mapped, and the tables.
LEMMA AuthKept ==
  ASSUME Auth, Typed',
         \A q \in Runs : /\ run'[q].stage = run[q].stage /\ run'[q].turn = run[q].turn
                         /\ run'[q].open = run[q].open,
         UNCHANGED <<authTurns, asked, met>>
  PROVE  Auth'
<1>1. Order'
  BY DEF Auth, Order, Running
<1>2. AskersAccounted'
  <2>1. asked \subseteq Runs /\ AskersAccounted
    BY DEF Auth, Typed
  <2>2. QED
    BY <2>1 DEF AskersAccounted
<1>3. AskersRemembered'
  BY DEF Auth, AskersRemembered, Running, Typed
<1>4. OpenHaveMet'
  BY DEF Auth, OpenHaveMet
<1>5. AuthReported'
  BY DEF Auth, AuthReported
<1>6. QED
  BY <1>1, <1>2, <1>3, <1>4, <1>5 DEF Auth

LEMMA AuthStart ==
  ASSUME Auth, Typed', NEW r \in Runs, NEW s \in Sessions, NEW t \in Turns, StartRun(r, s, t)
  PROVE  Auth'
<1>0. UNCHANGED <<authTurns, asked>> /\ run[r].stage = "idle" /\ r \notin asked /\ ~run[r].open
  BY DEF StartRun, Auth, Order
<1>1. \A q \in Runs \ {r} : run'[q] = run[q]
  BY DEF StartRun, Auth, Typed
<1>2. run'[r].stage = "running" /\ run'[r].open /\ run'[r].turn = t
  BY DEF StartRun, Auth, Typed
<1>3. met \subseteq met' /\ \A q \in Runs : run[q].open /\ run[q].turn = t => <<r, q>> \in met' /\ <<q, r>> \in met'
  BY Zenon DEF StartRun
<1>4. asked \subseteq Runs
  BY DEF Auth, Typed
<1>5. Order'
  BY <1>0, <1>1, <1>2 DEF Auth, Order, Running
<1>6. AskersAccounted'
  BY <1>0, <1>1, <1>4 DEF Auth, AskersAccounted
<1>7. AskersRemembered'
  BY <1>0, <1>1, <1>3, <1>4 DEF Auth, AskersRemembered, Running
<1>8. OpenHaveMet'
  BY <1>1, <1>2, <1>3 DEF Auth, OpenHaveMet
<1>9. AuthReported'
  <2> SUFFICES ASSUME NEW x \in Runs,
                      NEW Others, Others = {q \in Runs \ {x} : run'[q].turn = run'[x].turn /\ q \in asked'}
               PROVE  /\ run'[x].stage = "completed" => x \notin asked' \/ \E q \in Runs : <<x, q>> \in met'
                      /\ run'[x].stage = "auth" =>
                           x \in asked' \/ \E q \in Others : <<x, q>> \in met' \/ run'[q].stage = "aborted"
    BY DEF AuthReported
  <2>1. CASE x = r
    BY <1>2, <2>1
  <2>2. CASE x # r
    <3>1. run'[x] = run[x]
      BY <1>1, <2>2
    <3>2. Others = {q \in Runs \ {x} : run[q].turn = run[x].turn /\ q \in asked}
      BY <1>0, <1>1, <3>1
    <3>3. \A q \in Others : run'[q] = run[q]
      BY <1>0, <1>1, <3>2
    <3>4. QED
      BY <1>0, <1>3, <3>1, <3>2, <3>3 DEF Auth, AuthReported
  <2>3. QED
    BY <2>1, <2>2
<1>10. QED
  BY <1>5, <1>6, <1>7, <1>8, <1>9 DEF Auth

\* A run is ended: a step of MapResultMessage or Abort.
LEMMA AuthEnds ==
  ASSUME Auth, Typed', NEW r \in Runs, Running(r), NEW st, Ends(r, st),
         \/ st = "aborted" /\ UNCHANGED authTurns
         \/ /\ authTurns' = authTurns \ {run[r].turn}
            /\ \/ run[r].turn \in authTurns /\ st = "auth"
               \/ run[r].turn \notin authTurns /\ st \in {"failed", "completed"}
  PROVE  Auth'
<1>0. UNCHANGED <<asked, met>> /\ asked \subseteq Runs /\ run[r].open /\ authTurns' \subseteq authTurns
  BY DEF Ends, ghosts, Auth, Order, Typed
<1>1. /\ \A q \in Runs \ {r} : run'[q] = run[q]
      /\ \A q \in Runs : run'[q].open = run[q].open /\ run'[q].turn = run[q].turn
      /\ run'[r].stage = st
  BY DEF Ends, Auth, Typed, RunSet
<1>2. st \in {"aborted", "failed", "completed", "auth"}
  OBVIOUS
<1>3. Order'
  BY <1>0, <1>1, <1>2 DEF Auth, Order, Running
<1>4. AskersAccounted'
  <2> SUFFICES ASSUME NEW t \in authTurns'
               PROVE  \E q \in asked' : run'[q].turn = t /\ run'[q].stage \in {"running", "aborted"}
    BY DEF AskersAccounted
  <2>1. PICK q \in asked : run[q].turn = t /\ run[q].stage \in {"running", "aborted"}
    BY <1>0 DEF Auth, AskersAccounted
  <2>2. q \in Runs /\ run'[q].turn = t
    BY <1>0, <1>1, <2>1
  <2>3. CASE q = r
    BY <1>0, <1>1, <2>1, <2>2, <2>3
  <2>4. CASE q # r
    BY <1>0, <1>1, <2>1, <2>2, <2>4
  <2>5. QED
    BY <2>3, <2>4
<1>5. AskersRemembered'
  <2> SUFFICES ASSUME NEW x \in asked', run'[x].stage = "running"
               PROVE  run'[x].turn \in authTurns' \/ \E q \in Runs : <<x, q>> \in met'
    BY DEF AskersRemembered, Running
  <2>1. x \in Runs /\ x # r /\ x \in asked /\ run'[x] = run[x] /\ Running(x)
    BY <1>0, <1>1, <1>2 DEF Running
  <2>2. run[x].turn \in authTurns \/ \E q \in Runs : <<x, q>> \in met
    BY <2>1 DEF Auth, AskersRemembered
  <2>3. CASE run[x].turn = run[r].turn
    BY <1>0, <2>1, <2>3 DEF Auth, OpenHaveMet, Order
  <2>4. CASE run[x].turn # run[r].turn
    BY <1>0, <2>1, <2>2, <2>4
  <2>5. QED
    BY <2>3, <2>4
<1>6. OpenHaveMet'
  BY <1>0, <1>1 DEF Auth, OpenHaveMet
<1>7. AuthReported'
  <2> SUFFICES ASSUME NEW x \in Runs,
                      NEW Others, Others = {q \in Runs \ {x} : run'[q].turn = run'[x].turn /\ q \in asked'}
               PROVE  /\ run'[x].stage = "completed" => x \notin asked' \/ \E q \in Runs : <<x, q>> \in met'
                      /\ run'[x].stage = "auth" =>
                           x \in asked' \/ \E q \in Others : <<x, q>> \in met' \/ run'[q].stage = "aborted"
    BY DEF AuthReported
  <2>0. Others = {q \in Runs \ {x} : run[q].turn = run[x].turn /\ q \in asked}
    BY <1>0, <1>1
  <2>1. CASE x # r
    <3>1. run'[x] = run[x]
      BY <1>1, <2>1
    <3>2. run[x].stage = "auth" =>
            x \in asked \/ \E q \in Others : <<x, q>> \in met \/ run[q].stage = "aborted"
      BY <2>0 DEF Auth, AuthReported
    <3>3. \A q \in Others : run[q].stage = "aborted" => run'[q].stage = "aborted"
      BY <1>1, <2>0 DEF Running
    <3>4. run[x].stage = "completed" => x \notin asked \/ \E q \in Runs : <<x, q>> \in met
      BY DEF Auth, AuthReported
    <3>5. QED
      BY <1>0, <3>1, <3>2, <3>3, <3>4
  <2>2. CASE x = r /\ st = "completed"
    BY <1>0, <1>1, <2>2 DEF Auth, AskersRemembered
  <2>3. CASE x = r /\ st = "auth"
    <3>1. PICK q \in asked : run[q].turn = run[r].turn /\ run[q].stage \in {"running", "aborted"}
      BY <2>3 DEF Auth, AskersAccounted
    <3>2. CASE q = r
      BY <1>0, <1>1, <2>3, <3>1, <3>2
    <3>3. CASE q # r /\ run[q].stage = "aborted"
      <4>1. q \in Others /\ run'[q].stage = "aborted"
        BY <1>0, <1>1, <2>0, <2>3, <3>1, <3>3
      <4>2. QED
        BY <1>0, <1>1, <2>3, <4>1
    <3>4. CASE q # r /\ run[q].stage = "running"
      <4>1. q \in Others /\ run[q].open
        BY <1>0, <2>0, <2>3, <3>1, <3>4 DEF Auth, Order, Running
      <4>2. <<r, q>> \in met
        BY <1>0, <3>1, <3>4, <4>1, <2>0 DEF Auth, OpenHaveMet
      <4>3. QED
        BY <1>0, <1>1, <2>3, <4>1, <4>2
    <3>5. QED
      BY <3>1, <3>2, <3>3, <3>4
  <2>4. CASE x = r /\ st \notin {"completed", "auth"}
    BY <1>1, <2>4
  <2>5. QED
    BY <2>1, <2>2, <2>3, <2>4
<1>8. QED
  BY <1>3, <1>4, <1>5, <1>6, <1>7 DEF Auth

\* A message is mapped: it may ask to log in.
LEMMA AuthMaps ==
  ASSUME Auth, Typed', NEW r \in Runs, MapMessage(r)
  PROVE  Auth'
<1>0. Running(r) /\ met' = met /\ run' = [run EXCEPT ![r].mapped = @ \cup {Head(stream[r]).id}]
  BY DEF MapMessage
<1>1. \A q \in Runs : /\ run'[q].stage = run[q].stage /\ run'[q].turn = run[q].turn
                      /\ run'[q].open = run[q].open
  BY <1>0 DEF Auth, Typed, RunSet
<1>2. \/ UNCHANGED <<authTurns, asked>>
      \/ authTurns' = authTurns \cup {run[r].turn} /\ asked' = asked \cup {r}
  <2> DEFINE m == Head(stream[r])
             B == ToSet(m.blocks) \cap {"auth"}
  <2>1. CASE MapResult(r, m)
    BY <2>1 DEF MapResult
  <2>2. CASE MapAssistant(r, m)
    <3>1. authTurns' = authTurns \cup {run[r].turn : b \in B} /\ asked' = asked \cup {r : b \in B}
      BY <2>2 DEF MapAssistant
    <3> HIDE DEF B
    <3>2. CASE B = {}
      BY <3>1, <3>2
    <3>3. CASE B # {}
      BY <3>1, <3>3
    <3>4. QED
      BY <3>2, <3>3
  <2>3. QED
    BY <2>1, <2>2 DEF MapMessage
<1>3. CASE UNCHANGED <<authTurns, asked>>
  BY <1>0, <1>1, <1>3, AuthKept
<1>4. CASE authTurns' = authTurns \cup {run[r].turn} /\ asked' = asked \cup {r}
  <2>0. asked \subseteq Runs
    BY DEF Auth, Typed
  <2>1. Order'
    BY <1>0, <1>1, <1>4 DEF Auth, Order, Running
  <2>2. AskersAccounted'
    <3>1. r \in asked' /\ run'[r].turn = run[r].turn /\ run'[r].stage = "running"
      BY <1>0, <1>1, <1>4 DEF Running
    <3>2. \A q \in asked : q \in asked' /\ run'[q].turn = run[q].turn /\ run'[q].stage = run[q].stage
      BY <1>1, <1>4, <2>0
    <3>3. QED
      BY <1>4, <3>1, <3>2 DEF Auth, AskersAccounted
  <2>3. AskersRemembered'
    BY <1>0, <1>1, <1>4, <2>0 DEF Auth, AskersRemembered, Running
  <2>4. OpenHaveMet'
    BY <1>0, <1>1 DEF Auth, OpenHaveMet
  <2>5. AuthReported'
    <3> SUFFICES ASSUME NEW x \in Runs,
                        NEW Others, Others = {q \in Runs \ {x} : run'[q].turn = run'[x].turn /\ q \in asked'}
                 PROVE  /\ run'[x].stage = "completed" => x \notin asked' \/ \E q \in Runs : <<x, q>> \in met'
                        /\ run'[x].stage = "auth" =>
                             x \in asked' \/ \E q \in Others : <<x, q>> \in met' \/ run'[q].stage = "aborted"
      BY DEF AuthReported
    <3>1. {q \in Runs \ {x} : run[q].turn = run[x].turn /\ q \in asked} \subseteq Others
      BY <1>1, <1>4
    <3>2. run[x].stage = "completed" => x # r
      BY <1>0 DEF Running
    <3>3. \A q \in Others : q \in Runs
      OBVIOUS
    <3>4. /\ run[x].stage = "completed" => x \notin asked \/ \E q \in Runs : <<x, q>> \in met
          /\ run[x].stage = "auth" =>
               x \in asked \/ \E q \in {q \in Runs \ {x} : run[q].turn = run[x].turn /\ q \in asked} :
                                <<x, q>> \in met \/ run[q].stage = "aborted"
      BY DEF Auth, AuthReported
    <3>5. run[x].stage = "auth" =>
            x \in asked \/ \E q \in Others : <<x, q>> \in met \/ run[q].stage = "aborted"
      BY <3>1, <3>4
    <3>6. QED
      BY <1>0, <1>1, <1>4, <3>2, <3>3, <3>4, <3>5
  <2>6. QED
    BY <2>1, <2>2, <2>3, <2>4, <2>5 DEF Auth
<1>5. QED
  BY <1>2, <1>3, <1>4

LEMMA AuthFinally ==
  ASSUME Auth, Typed', NEW r \in Runs, Finally(r)
  PROVE  Auth'
<1>0. UNCHANGED <<authTurns, asked, met>> /\ ~Running(r)
  BY DEF Finally, ghosts
<1>1. /\ \A q \in Runs : run'[q].stage = run[q].stage /\ run'[q].turn = run[q].turn
      /\ \A q \in Runs : run'[q].open => run[q].open
      /\ \A q \in Runs \ {r} : run'[q].open = run[q].open
  BY DEF Finally, Auth, Typed, RunSet
<1>2. Order'
  BY <1>0, <1>1 DEF Auth, Order, Running
<1>3. AskersAccounted'
  <2>1. asked \subseteq Runs /\ AskersAccounted
    BY DEF Auth, Typed
  <2>2. QED
    BY <1>0, <1>1, <2>1 DEF AskersAccounted
<1>4. AskersRemembered'
  BY <1>0, <1>1 DEF Auth, AskersRemembered, Running, Typed
<1>5. OpenHaveMet'
  BY <1>0, <1>1 DEF Auth, OpenHaveMet
<1>6. AuthReported'
  BY <1>0, <1>1 DEF Auth, AuthReported
<1>7. QED
  BY <1>2, <1>3, <1>4, <1>5, <1>6 DEF Auth

LEMMA AuthNext == Auth /\ [Next]_vars => Auth'
<1> SUFFICES ASSUME Auth, [Next]_vars PROVE Auth'
  OBVIOUS
<1>0. Typed'
  BY TypedNext DEF Auth
<1>1. ASSUME NEW s \in Sessions, LocalPrompt(s) \/ DeleteThread(s) PROVE Auth'
  BY <1>0, <1>1, AuthKept DEF LocalPrompt, DeleteThread, turnVars, ghosts
<1>2. ASSUME NEW r \in Runs, NEW s \in Sessions, NEW t \in Turns, StartRun(r, s, t) PROVE Auth'
  BY <1>0, <1>2, AuthStart
<1>3. ASSUME NEW r \in Runs, Answer(r) PROVE Auth'
  <2>1. UNCHANGED <<run, authTurns, asked, met>>
    BY <1>3 DEF Answer, ghosts
  <2>2. QED
    BY <1>0, <2>1, AuthKept
<1>4. ASSUME NEW r \in Runs, MapMessage(r) PROVE Auth'
  BY <1>0, <1>4, AuthMaps
<1>5. ASSUME NEW r \in Runs, MapResultMessage(r) PROVE Auth'
  <2>1. PICK isError \in BOOLEAN :
          Ends(r, IF run[r].turn \in authTurns THEN "auth" ELSE IF isError THEN "failed" ELSE "completed")
    BY <1>5 DEF MapResultMessage
  <2>2. Running(r) /\ authTurns' = authTurns \ {run[r].turn}
    BY <1>5 DEF MapResultMessage
  <2>3. QED
    BY <1>0, <2>1, <2>2, AuthEnds
<1>6. ASSUME NEW r \in Runs, Abort(r) PROVE Auth'
  BY <1>0, <1>6, AuthEnds DEF Abort
<1>7. ASSUME NEW r \in Runs, Finally(r) PROVE Auth'
  BY <1>0, <1>7, AuthFinally
<1>8. CASE UNCHANGED vars
  BY <1>0, <1>8, AuthKept DEF vars, turnVars, ghosts
<1>9. QED
  BY <1>1, <1>2, <1>3, <1>4, <1>5, <1>6, <1>7, <1>8 DEF Next

\* A turn whose Claude asked to log in does not complete, and only such a turn is reported
\* as not logged in, for any number of turns of one turn_id, but for two exceptions: another
\* turn of that turn_id ran at the same time, or had asked and was aborted before its
\* result, whose mark fails the next one (claude_agent_sdk.py:1448-1457, 1628-1634).
THEOREM LoginReported == Spec => []AuthReported
<1>1. Auth => AuthReported
  BY DEF Auth
<1>2. QED
  BY AuthInit, AuthNext, <1>1, PTL DEF Spec
------------------------------------------------------------------------------
(* Deleted sessions, and reports                                           *)

LEMMA HistoryKept == ASSUME NEW recs PROVE HistoryTurns(recs) = Kept(Raw(recs))
  BY DEF HistoryTurns, Kept, Keep, Raw

LEMMA NoHistory == HistoryTurns(<<>>) = <<>>
<1>1. <<>> \in Seq(RecordSet) /\ <<>> \in Seq(TurnSet)
  OBVIOUS
<1>2. Raw(<<>>) = <<>> /\ Kept(<<>>) = <<>>
  BY <1>1, RecordsFoldLaw, KeptFoldLaw
<1>3. QED
  BY <1>2, HistoryKept

\* The file of a session that is gone is gone, but for those a request did not reach.
FilesGone == gone \subseteq Sessions /\ \A s \in gone \ missed : file[s] = <<>>

LEMMA WriteGone ==
  ASSUME Typed, FilesGone, NEW s \in Sessions, NEW rec, Write(s, rec)
  PROVE  FilesGone'
<1>1. file' = [file EXCEPT ![s] = Append(@, rec)] /\ gone' = gone \ {s} /\ missed' = missed \ {s}
  BY DEF Write
<1>2. QED
  BY <1>1 DEF Typed, FilesGone

LEMMA GoneNext == Typed /\ FilesGone /\ [Next]_vars => FilesGone'
<1> SUFFICES ASSUME Typed, FilesGone, [Next]_vars PROVE FilesGone'
  OBVIOUS
<1>1. ASSUME NEW s \in Sessions, LocalPrompt(s) PROVE FilesGone'
  BY <1>1, WriteGone DEF LocalPrompt
<1>2. ASSUME NEW s \in Sessions, DeleteThread(s) PROVE FilesGone'
  <2>1. CASE Removed(s) /\ gone' = gone \cup {s} /\ UNCHANGED missed
    BY <2>1 DEF Removed, Typed, FilesGone
  <2>2. CASE UNCHANGED <<file, gone, missed>>
    BY <2>2 DEF FilesGone
  <2>3. CASE /\ UNCHANGED file /\ gone' = gone \cup {s}
             /\ missed' = missed \cup (IF file[s] # <<>> THEN {s} ELSE {})
    <3>1. \A x \in gone' \ missed' : file[x] = <<>>
      BY <2>3 DEF FilesGone
    <3>2. QED
      BY <2>3, <3>1 DEF FilesGone
  <2>4. QED
    BY <1>2, <2>1, <2>2, <2>3 DEF DeleteThread
<1>3. ASSUME NEW r \in Runs, NEW s \in Sessions, NEW t \in Turns, StartRun(r, s, t) PROVE FilesGone'
  BY <1>3, WriteGone DEF StartRun
<1>4. ASSUME NEW r \in Runs, Answer(r) PROVE FilesGone'
  <2>1. Running(r)
    BY <1>4 DEF Answer
  <2>2. run[r].session \in Sessions
    BY <2>1 DEF Running, Typed
  <2>3. PICK rec : Write(run[r].session, rec)
    BY <1>4, Answered
  <2>4. QED
    BY <2>2, <2>3, WriteGone
<1>5. CASE UNCHANGED <<file, gone, missed>>
  BY <1>5 DEF FilesGone
<1>6. ASSUME NEW r \in Runs, MapMessage(r) \/ MapResultMessage(r) \/ Abort(r) \/ Finally(r)
      PROVE  UNCHANGED <<file, gone, missed>>
  BY <1>6 DEF MapMessage, MapResultMessage, Abort, Ends, Finally, files
<1>7. CASE UNCHANGED vars
  BY <1>5, <1>7 DEF vars, files
<1>8. QED
  BY <1>1, <1>2, <1>3, <1>4, <1>5, <1>6, <1>7 DEF Next

\* A session that was answered with deleted is not read and not listed again: DeletedStaysGone,
\* for any number of sessions, records and requests (claude_agent_sdk.py:783-838).
THEOREM DeletedIsGone == Spec => []DeletedStaysGone
<1>1. Init => Typed /\ FilesGone
  BY TypedInit DEF Init, FilesGone
<1>2. Typed /\ FilesGone /\ [Next]_vars => (Typed /\ FilesGone)'
  BY TypedNext, GoneNext
<1>3. FilesGone => DeletedStaysGone
  <2> SUFFICES ASSUME FilesGone, NEW s \in gone \ missed
               PROVE  /\ \A sdk \in BOOLEAN : LoadTurns(s, sdk) = <<>>
                      /\ \A index \in BOOLEAN, read \in SUBSET Sessions :
                           s \notin ThreadSyncReport(index, read, {}).threads
    BY DEF DeletedStaysGone
  <2>1. ASSUME NEW sdk PROVE LoadTurns(s, sdk) = <<>>
    <3>1. LoadMessages(s, sdk) = <<>>
      BY DEF FilesGone, LoadMessages
    <3>2. QED
      BY <3>1, NoHistory DEF LoadTurns
  <2>2. ASSUME NEW sdk, NEW excluded PROVE ~Listed(s, sdk, excluded)
    BY <2>1 DEF Listed
  <2>3. ASSUME NEW index, NEW read PROVE s \notin ListThreads(SyncLimit, index, read, {})
    BY <2>2 DEF ListThreads, ThreadsFromSdk, ThreadsFromTranscripts
  <2>4. ASSUME NEW index, NEW read PROVE s \notin ThreadSyncReport(index, read, {}).threads
    BY <2>3 DEF ThreadSyncReport
  <2>5. QED
    BY <2>1, <2>4
<1>4. QED
  BY <1>1, <1>2, <1>3, PTL DEF Spec

\* A report by which the server may drop workspaces names every one it should:
\* AuthoritativeNamesAll, for any number of sessions and any limits, whatever the SDK
\* fails to deliver (claude_agent_sdk.py:698-707).
THEOREM ReportsComplete == Spec => []AuthoritativeNamesAll
<1>1. AuthoritativeNamesAll
  <2> DEFINE shown == {s \in Candidates(SyncLimit) : HistoryTurns(file[s]) # <<>>}
  <2> SUFFICES ASSUME NEW index \in BOOLEAN, NEW read \in SUBSET shown,
                      NEW excluded \in SUBSET {WorkspaceOf[s] : s \in shown}
               PROVE  {WorkspaceOf[s] : s \in {s \in shown : index => s \in read \/ FindTranscript(s)}} \ excluded
                        \subseteq ThreadSyncReport(index, read, excluded).workspaces
    BY Zenon DEF AuthoritativeNamesAll
  <2>1. ASSUME NEW s \in shown, index => s \in read \/ FindTranscript(s), WorkspaceOf[s] \notin excluded
        PROVE  WorkspaceOf[s] \in ThreadSyncReport(index, read, excluded).workspaces
    <3>1. LoadTurns(s, TRUE) # <<>> /\ (index => LoadTurns(s, s \in read) # <<>>)
      BY <2>1 DEF LoadTurns, LoadMessages
    <3>2. s \in ThreadsFromTranscripts(SyncLimit, excluded)
      BY <2>1, <3>1 DEF ThreadsFromTranscripts, Listed
    <3>3. index => s \in ThreadsFromSdk(SyncLimit, read, excluded)
      BY <2>1, <3>1 DEF ThreadsFromSdk, Listed
    <3>4. s \in ListThreads(SyncLimit, index, read, excluded)
      BY <3>2, <3>3 DEF ListThreads
    <3>5. QED
      BY <3>4 DEF ThreadSyncReport
  <2> HIDE DEF shown
  <2>2. QED
    BY <2>1
<1>2. QED
  BY <1>1, PTL
------------------------------------------------------------------------------
(* Sequences, from their first elements on                                 *)

LEMMA SeqInduction ==
  ASSUME NEW E, NEW S, <<>> \in S, \A s \in Seq(E) : s \in S => \A e \in E : Append(s, e) \in S
  PROVE  Seq(E) \subseteq S
<1> DEFINE P(n) == \A s \in Seq(E) : Len(s) = n => s \in S
           T == {n \in Nat : P(n)}
<1>1. P(0)
  <2>1. \A s \in Seq(E) : Len(s) = 0 => s = <<>>
    OBVIOUS
  <2>2. QED
    BY <2>1
<1>2. ASSUME NEW n \in Nat, P(n) PROVE P(n + 1)
  <2> SUFFICES ASSUME NEW s \in Seq(E), Len(s) = n + 1 PROVE s \in S
    OBVIOUS
  <2> DEFINE front == [i \in 1..n |-> s[i]]
  <2>1. front \in Seq(E) /\ Len(front) = n
    OBVIOUS
  <2>2. s[n + 1] \in E
    OBVIOUS
  <2>3. s = Append(front, s[n + 1])
    OBVIOUS
  <2> HIDE DEF front
  <2>4. QED
    BY <1>2, <2>1, <2>2, <2>3
<1>3. \A n \in Nat : P(n)
  <2> HIDE DEF P
  <2>1. 0 \in T /\ \A n \in Nat : n \in T => n + 1 \in T
    BY <1>1, <1>2
  <2>2. Nat \subseteq T
    <3> HIDE DEF T
    <3>1. QED
      BY <2>1, Induction
  <2>3. QED
    BY <2>2
<1>4. \A s \in Seq(E) : Len(s) \in Nat
  OBVIOUS
<1>5. QED
  BY <1>3, <1>4

LEMMA AppendIs ==
  ASSUME NEW E, NEW s \in Seq(E), NEW e \in E
  PROVE  /\ Append(s, e) \in Seq(E) /\ Len(Append(s, e)) = Len(s) + 1 /\ Len(s) \in Nat
         /\ Append(s, e)[Len(s) + 1] = e /\ \A i \in 1..Len(s) : Append(s, e)[i] = s[i] /\ s[i] \in E
         /\ Append(s, e) = [i \in 1..(Len(s) + 1) |-> IF i = Len(s) + 1 THEN e ELSE s[i]]
         /\ Append(s, e) # <<>> /\ (s = <<>> <=> Len(s) = 0)
<1>1. /\ Append(s, e) \in Seq(E) /\ Len(Append(s, e)) = Len(s) + 1 /\ Len(s) \in Nat
      /\ Append(s, e)[Len(s) + 1] = e /\ \A i \in 1..Len(s) : Append(s, e)[i] = s[i] /\ s[i] \in E
  OBVIOUS
<1>2. Append(s, e) = [i \in 1..(Len(s) + 1) |-> IF i = Len(s) + 1 THEN e ELSE s[i]]
  <2> DEFINE a == Append(s, e)
  <2>1. a \in [1..Len(a) -> E] /\ a = [i \in 1..Len(a) |-> a[i]]
    <3> HIDE DEF a
    <3>1. a \in Seq(E)
      BY <1>1 DEF a
    <3>2. QED
      BY <3>1
  <2>2. \A i \in 1..(Len(s) + 1) : a[i] = IF i = Len(s) + 1 THEN e ELSE s[i]
    BY <1>1
  <2> HIDE DEF a
  <2>3. Len(a) = Len(s) + 1
    BY <1>1 DEF a
  <2>4. QED
    BY <2>1, <2>2, <2>3 DEF a
<1>3. s = <<>> <=> Len(s) = 0
  OBVIOUS
<1>4. Append(s, e) # <<>>
  BY <1>1
<1>5. QED
  BY <1>1, <1>2, <1>3, <1>4

------------------------------------------------------------------------------
(* The turns that are shown                                                *)

\* Only the first turn may be without a prompt.
Lead(T) == \A k \in 2..Len(T) : T[k].prompt # 0
Skipped(T) == IF T # <<>> /\ T[1].prompt = 0 THEN 1 ELSE 0

LEMMA KeptIs ==
  ASSUME NEW T \in Seq(TurnSet), Lead(T)
  PROVE  Kept(T) = [i \in 1..(Len(T) - Skipped(T)) |-> T[i + Skipped(T)]]
<1> DEFINE Is(t) == Kept(t) = [i \in 1..(Len(t) - Skipped(t)) |-> t[i + Skipped(t)]]
           S == {t \in Seq(TurnSet) : Lead(t) => Is(t)}
<1>1. <<>> \in S
  <2>1. <<>> \in Seq(TurnSet) /\ Len(<<>>) = 0
    OBVIOUS
  <2>2. Kept(<<>>) = <<>> /\ Skipped(<<>>) = 0
    BY <2>1, KeptFoldLaw DEF Skipped
  <2>3. Is(<<>>)
    <3>1. Len(<<>>) - Skipped(<<>>) = 0 /\ 1..0 = {}
      BY <2>1, <2>2
    <3>2. [i \in 1..0 |-> <<>>[i + Skipped(<<>>)]] = <<>>
      BY <3>1
    <3>3. QED
      BY <2>2, <3>1, <3>2
  <2>4. QED
    BY <2>1, <2>3
<1>2. ASSUME NEW t \in Seq(TurnSet), t \in S, NEW e \in TurnSet PROVE Append(t, e) \in S
  <2> DEFINE a == Append(t, e)
  <2>1. /\ a \in Seq(TurnSet) /\ Len(a) = Len(t) + 1 /\ Len(t) \in Nat /\ a[Len(t) + 1] = e
        /\ (\A i \in 1..Len(t) : a[i] = t[i] /\ t[i] \in TurnSet)
        /\ a # <<>> /\ (t = <<>> <=> Len(t) = 0)
    BY AppendIs
  <2>2. Kept(a) = Keep(Kept(t), e)
    BY KeptFoldLaw
  <2> HIDE DEF a
  <2>3. SUFFICES ASSUME Lead(a) PROVE Is(a)
    BY <2>1 DEF a
  <2>4. Lead(t) /\ (t # <<>> => e.prompt # 0)
    <3>1. \A k \in 2..Len(t) : k \in 2..Len(a) /\ a[k] = t[k]
      BY <2>1
    <3>2. t # <<>> => Len(t) + 1 \in 2..Len(a)
      BY <2>1
    <3>3. QED
      BY <2>1, <2>3, <3>1, <3>2 DEF Lead
  <2>5. Is(t)
    BY <1>2, <2>4
  <2>6. CASE t = <<>> /\ e.prompt = 0
    <3>1. Len(t) = 0 /\ Skipped(a) = 1 /\ Skipped(t) = 0
      BY <2>1, <2>6 DEF Skipped
    <3>2. Kept(a) = Kept(t)
      BY <2>2, <2>6 DEF Keep
    <3>3. QED
      BY <2>1, <2>5, <3>1, <3>2
  <2>7. CASE t # <<>> \/ e.prompt # 0
    <3>1. Skipped(a) = Skipped(t) /\ Skipped(t) \in {0, 1} /\ (Skipped(t) = 1 => Len(t) # 0)
      BY <2>1, <2>7 DEF Skipped
    <3>2. Kept(a) = Append(Kept(t), e)
      BY <2>2, <2>4, <2>7 DEF Keep
    <3> DEFINE z == Skipped(t)
    <3>3. Len(t) - z \in Nat /\ Len(a) - z = (Len(t) - z) + 1
      BY <2>1, <3>1
    <3> DEFINE n == Len(t) - z
               kept == [i \in 1..n |-> t[i + z]]
    <3>4. \A i \in 1..n : i + z \in 1..Len(t)
      BY <2>1, <3>1
    <3>5. kept \in Seq(TurnSet) /\ Len(kept) = n
      <4>1. \A i \in 1..n : t[i + z] \in TurnSet
        BY <2>1, <3>4
      <4> HIDE DEF n, z
      <4>2. n \in Nat
        BY <3>3 DEF n
      <4>3. QED
        BY <4>1, <4>2
    <3>6. Append(kept, e) = [i \in 1..(n + 1) |-> IF i = n + 1 THEN e ELSE kept[i]]
      <4> HIDE DEF kept, n
      <4>1. QED
        BY <3>5, AppendIs
    <3>7. ASSUME NEW i \in 1..(n + 1) PROVE a[i + z] = IF i = n + 1 THEN e ELSE kept[i]
      <4>1. CASE i = n + 1
        BY <2>1, <3>1, <4>1
      <4>2. CASE i # n + 1
        <5>1. i \in 1..n
          BY <2>1, <3>1, <4>2
        <5>2. QED
          BY <2>1, <3>4, <4>2, <5>1
      <4>3. QED
        BY <4>1, <4>2
    <3>8. Kept(a) = [i \in 1..(n + 1) |-> a[i + z]]
      <4>1. Kept(t) = kept
        BY <2>5
      <4> HIDE DEF kept, n, z
      <4>2. QED
        BY <3>2, <3>6, <3>7, <4>1
    <3>9. QED
      BY <3>1, <3>3, <3>8
  <2>8. QED
    BY <2>6, <2>7
<1>3. Seq(TurnSet) \subseteq S
  <2> HIDE DEF S
  <2>1. QED
    BY <1>1, <1>2, SeqInduction
<1>4. QED
  BY <1>3
------------------------------------------------------------------------------
(* What Claude answers, as the transcript grows                            *)

\* The records of a transcript are numbered upwards, and a result follows its tool use.
WellFormed(recs) ==
  /\ \A i \in 1..Len(recs) : recs[i].id > 0 /\ recs[i].use < recs[i].id /\ (recs[i].text => recs[i].role = "user")
  /\ \A i, j \in 1..Len(recs) : i < j => recs[i].id < recs[j].id

ResultsFor(recs, id) == {i \in 1..Len(recs) : recs[i].role = "user" /\ recs[i].use = id}

LEMMA OutcomeAppend ==
  ASSUME NEW s \in Seq(RecordSet), NEW e \in RecordSet, NEW id
  PROVE  Outcome(Append(s, e), id) =
           IF e.role = "user" /\ e.use = id THEN Status(e.error) ELSE Outcome(s, id)
<1> DEFINE a == Append(s, e)
           n == Len(s)
<1>1. /\ Len(a) = n + 1 /\ n \in Nat /\ a[n + 1] = e /\ \A i \in 1..n : a[i] = s[i]
  BY AppendIs
<1> HIDE DEF a, n
<1>2. Len(s) = n /\ Append(s, e) = a
  BY DEF a, n
<1>3. CASE e.role = "user" /\ e.use = id
  <2> DEFINE R == ResultsFor(a, id)
  <2>1. n + 1 \in R /\ \A i \in R : n + 1 >= i
    BY <1>1, <1>3 DEF ResultsFor
  <2> HIDE DEF R
  <2>2. \A x \in R : (\A y \in R : x >= y) => x = n + 1
    <3>1. \A x \in R : x \in 1..(n + 1)
      BY <1>1 DEF R, ResultsFor
    <3>2. QED
      BY <1>1, <2>1, <3>1
  <2>3. Max(R) = n + 1
    BY <2>1, <2>2 DEF Max
  <2>4. Outcome(a, id) = IF R = {} THEN "completed" ELSE Status(a[Max(R)].error)
    BY DEF Outcome, R, ResultsFor
  <2>5. QED
    BY <1>1, <1>2, <1>3, <2>1, <2>3, <2>4
<1>4. CASE ~(e.role = "user" /\ e.use = id)
  <2>1. ResultsFor(a, id) = ResultsFor(s, id)
    BY <1>1, <1>2, <1>4 DEF ResultsFor
  <2> DEFINE R == ResultsFor(s, id)
  <2>2. R \in SUBSET (1..n)
    BY <1>2 DEF ResultsFor
  <2>3. R # {} => Max(R) \in 1..n
    <3> HIDE DEF R
    <3>1. QED
      BY <1>1, <2>2, MaxIn
  <2>4. Outcome(a, id) = IF R = {} THEN "completed" ELSE Status(a[Max(R)].error)
    BY <2>1 DEF Outcome, ResultsFor
  <2>5. Outcome(s, id) = IF R = {} THEN "completed" ELSE Status(s[Max(R)].error)
    BY DEF Outcome, ResultsFor
  <2> HIDE DEF R
  <2>6. QED
    BY <1>1, <1>2, <1>4, <2>3, <2>4, <2>5
<1>5. QED
  BY <1>3, <1>4

\* An item as it is shown.
Final(recs, item) ==
  IF item.kind = "command" THEN [item EXCEPT !.status = Outcome(recs, item.id)] ELSE item

LEMMA AnswersAre ==
  ASSUME NEW recs, NEW part \in Seq(RecordSet)
  PROVE  /\ Answers(recs, part) = [i \in 1..Len(SaidIn(part)) |-> Final(recs, SaidIn(part)[i])]
         /\ SaidIn(part) \in Seq(ItemSet) /\ Len(SaidIn(part)) \in Nat
<1>1. SaidIn(part) \in Seq(ItemSet)
  BY SaidFoldLaw
<1>2. Answers(recs, part) = [i \in 1..Len(SaidIn(part)) |-> Final(recs, SaidIn(part)[i])]
  BY DEF Answers, SaidIn, Say, Final
<1>3. QED
  BY <1>1, <1>2

\* What a result changes of an item.
Ended(rec, item) ==
  IF item.kind = "command" /\ item.id = rec.use THEN [item EXCEPT !.status = Status(rec.error)] ELSE item

LEMMA FinalAfterUser ==
  ASSUME NEW s \in Seq(RecordSet), NEW e \in RecordSet, e.role = "user", NEW item \in ItemSet
  PROVE  Final(Append(s, e), item) = Ended(e, Final(s, item))
<1>1. Outcome(Append(s, e), item.id) = IF e.use = item.id THEN Status(e.error) ELSE Outcome(s, item.id)
  BY OutcomeAppend
<1> DEFINE was == Outcome(s, item.id)
           is  == Outcome(Append(s, e), item.id)
           new == Status(e.error)
<1>2. is = IF e.use = item.id THEN new ELSE was
  BY <1>1
<1> HIDE DEF was, is, new
<1>3. Final(s, item) = IF item.kind = "command" THEN [item EXCEPT !.status = was] ELSE item
  BY DEF Final, was
<1>4. Final(Append(s, e), item) = IF item.kind = "command" THEN [item EXCEPT !.status = is] ELSE item
  BY DEF Final, is
<1>5. Ended(e, Final(s, item)) =
        IF Final(s, item).kind = "command" /\ Final(s, item).id = e.use
        THEN [Final(s, item) EXCEPT !.status = new] ELSE Final(s, item)
  BY DEF Ended, new
<1>6. \A v : /\ [item EXCEPT !.status = v].kind = item.kind /\ [item EXCEPT !.status = v].id = item.id
             /\ \A w : [[item EXCEPT !.status = v] EXCEPT !.status = w] = [item EXCEPT !.status = w]
  BY DEF ItemSet
<1>7. CASE item.kind = "command"
  <2>1. /\ Final(s, item) = [item EXCEPT !.status = was] /\ Final(s, item).kind = "command"
        /\ Final(s, item).id = item.id
    BY <1>3, <1>6, <1>7
  <2>2. [Final(s, item) EXCEPT !.status = new] = [item EXCEPT !.status = new]
    BY <1>6, <2>1
  <2>3. QED
    BY <1>2, <1>4, <1>5, <1>7, <2>1, <2>2
<1>8. CASE item.kind # "command"
  BY <1>3, <1>4, <1>5, <1>8
<1>9. QED
  BY <1>7, <1>8

LEMMA FinalAfterAssistant ==
  ASSUME NEW s \in Seq(RecordSet), NEW e \in RecordSet, e.role = "assistant", NEW item
  PROVE  Final(Append(s, e), item) = Final(s, item)
  BY OutcomeAppend DEF Final

\* What Claude has just said has no result yet.
LEMMA FinalOfNew ==
  ASSUME NEW s \in Seq(RecordSet), NEW e \in RecordSet, e.role = "assistant", WellFormed(Append(s, e)),
         NEW item \in ItemsOf(e)
  PROVE  Final(Append(s, e), item) = item
<1>1. item.id = e.id /\ item.status = "completed" /\ item \in ItemSet
  BY ItemsOfTypes DEF ItemsOf, Item
<1> DEFINE a == Append(s, e)
<1>2. Len(a) = Len(s) + 1 /\ a[Len(s) + 1] = e /\ Len(s) \in Nat
  BY AppendIs
<1>3. \A i \in 1..Len(a) : a[i] \in RecordSet
  BY AppendIs
<1> HIDE DEF a
<1>4. ResultsFor(a, e.id) = {}
  <2> SUFFICES ASSUME NEW i \in 1..Len(a), a[i].role = "user", a[i].use = e.id PROVE FALSE
    BY DEF ResultsFor
  <2>1. a[i].use < a[i].id /\ (i # Len(a) => a[i].id < e.id) /\ (i = Len(a) => a[i] = e)
    BY <1>2 DEF WellFormed, a
  <2>2. a[i].id \in Nat /\ a[i].use \in Nat /\ e.id \in Nat
    BY <1>3 DEF RecordSet
  <2>3. QED
    BY <2>1, <2>2
<1>5. Outcome(a, item.id) = "completed"
  BY <1>1, <1>4 DEF Outcome, ResultsFor
<1>6. QED
  BY <1>1, <1>5 DEF Final, a, ItemSet
LEMMA CatIs ==
  ASSUME NEW E, NEW s \in Seq(E), NEW t \in Seq(E)
  PROVE  s \o t = [i \in 1..(Len(s) + Len(t)) |-> IF i <= Len(s) THEN s[i] ELSE t[i - Len(s)]]
<1> DEFINE c == s \o t
<1>1. c \in Seq(E) /\ Len(c) = Len(s) + Len(t)
  OBVIOUS
<1>2. \A i \in 1..(Len(s) + Len(t)) : c[i] = IF i <= Len(s) THEN s[i] ELSE t[i - Len(s)]
  OBVIOUS
<1> HIDE DEF c
<1>3. c = [i \in 1..Len(c) |-> c[i]]
  BY <1>1
<1>4. QED
  BY <1>1, <1>2, <1>3 DEF c

LEMMA AnswersAfterUser ==
  ASSUME NEW s \in Seq(RecordSet), NEW e \in RecordSet, e.role = "user", NEW part \in Seq(RecordSet)
  PROVE  /\ Answers(Append(s, e), part) =
              [i \in 1..Len(SaidIn(part)) |-> Ended(e, Answers(s, part)[i])]
         /\ DOMAIN Answers(s, part) = 1..Len(SaidIn(part))
         /\ Answers(Append(s, e), Append(part, e)) = Answers(Append(s, e), part)
<1> DEFINE said == SaidIn(part)
           a == Append(s, e)
<1>1. a \in Seq(RecordSet) /\ Append(part, e) \in Seq(RecordSet)
  BY AppendIs
<1>2. SaidIn(Append(part, e)) = said
  BY SaidFoldLaw DEF Say
<1>3. /\ Answers(s, part) = [i \in 1..Len(said) |-> Final(s, said[i])]
      /\ Answers(a, part) = [i \in 1..Len(said) |-> Final(a, said[i])]
      /\ said \in Seq(ItemSet)
  BY AnswersAre
<1>4. Answers(a, Append(part, e)) = [i \in 1..Len(said) |-> Final(a, said[i])]
  <2> HIDE DEF a, said
  <2>1. \A p \in Seq(RecordSet) : Answers(a, p) = [i \in 1..Len(SaidIn(p)) |-> Final(a, SaidIn(p)[i])]
    BY AnswersAre
  <2>2. QED
    BY <1>1, <1>2, <2>1, Zenon
<1>5. \A i \in 1..Len(said) : Final(a, said[i]) = Ended(e, Final(s, said[i]))
  <2>1. \A i \in 1..Len(said) : said[i] \in ItemSet
    BY <1>3
  <2>2. QED
    BY <2>1, FinalAfterUser
<1> HIDE DEF said, a
<1>6. QED
  BY <1>3, <1>4, <1>5 DEF said, a

LEMMA AnswersAfterAssistant ==
  ASSUME NEW s \in Seq(RecordSet), NEW e \in RecordSet, e.role = "assistant", WellFormed(Append(s, e)),
         NEW part \in Seq(RecordSet)
  PROVE  /\ Answers(Append(s, e), part) = Answers(s, part)
         /\ Answers(Append(s, e), Append(part, e)) = Answers(s, part) \o AssistantItems(e)
<1> DEFINE said == SaidIn(part)
           a == Append(s, e)
           more == AssistantItems(e)
<1>1. a \in Seq(RecordSet) /\ Append(part, e) \in Seq(RecordSet)
  BY AppendIs
<1>2. SaidIn(Append(part, e)) = said \o more
  BY SaidFoldLaw DEF Say
<1>3. /\ Answers(s, part) = [i \in 1..Len(said) |-> Final(s, said[i])]
      /\ Answers(a, part) = [i \in 1..Len(said) |-> Final(a, said[i])]
      /\ said \in Seq(ItemSet) /\ Len(said) \in Nat
  BY AnswersAre
<1>4. Answers(a, Append(part, e)) = [i \in 1..Len(said \o more) |-> Final(a, (said \o more)[i])]
  <2> HIDE DEF a, said, more
  <2>1. \A p \in Seq(RecordSet) : Answers(a, p) = [i \in 1..Len(SaidIn(p)) |-> Final(a, SaidIn(p)[i])]
    BY AnswersAre
  <2>2. QED
    BY <1>1, <1>2, <2>1, Zenon
<1>5. \A i \in 1..Len(said) : Final(a, said[i]) = Final(s, said[i])
  BY FinalAfterAssistant
<1>6. more \in Seq(ItemsOf(e)) /\ more \in Seq(ItemSet)
  BY AssistantFold
<1>7. Len(more) \in Nat /\ \A i \in 1..Len(more) : Final(a, more[i]) = more[i]
  <2>1. Len(more) \in Nat /\ \A i \in 1..Len(more) : more[i] \in ItemsOf(e)
    <3> HIDE DEF more
    <3>1. QED
      BY <1>6
  <2>2. QED
    BY <2>1, FinalOfNew
<1> HIDE DEF said, a, more
<1>8. Len(said \o more) = Len(said) + Len(more)
  BY <1>3, <1>6
<1>9. \A i \in 1..(Len(said) + Len(more)) :
        (said \o more)[i] = IF i <= Len(said) THEN said[i] ELSE more[i - Len(said)]
  BY <1>3, <1>6
<1> DEFINE was == Answers(s, part)
<1>10. was \in Seq({Final(s, said[i]) : i \in 1..Len(said)}) /\ Len(was) = Len(said)
  BY <1>3
<1>11. was \o more = [i \in 1..(Len(said) + Len(more)) |->
                        IF i <= Len(said) THEN was[i] ELSE more[i - Len(said)]]
  <2> DEFINE W == {Final(s, said[i]) : i \in 1..Len(said)}
  <2>1. was \in Seq(W \cup ItemSet) /\ more \in Seq(W \cup ItemSet)
    <3> HIDE DEF was, W
    <3>1. was \in Seq(W) /\ more \in Seq(ItemSet)
      BY <1>6, <1>10 DEF W
    <3>2. QED
      BY <3>1
  <2> HIDE DEF was, W
  <2>2. was \o more = [i \in 1..(Len(was) + Len(more)) |->
                         IF i <= Len(was) THEN was[i] ELSE more[i - Len(was)]]
    BY <2>1, CatIs
  <2>3. QED
    BY <1>10, <2>2
<1>12. \A i \in 1..(Len(said) + Len(more)) :
         Final(a, (said \o more)[i]) = IF i <= Len(said) THEN was[i] ELSE more[i - Len(said)]
  <2> TAKE i \in 1..(Len(said) + Len(more))
  <2>1. CASE i <= Len(said)
    <3>1. i \in 1..Len(said)
      BY <1>3, <2>1
    <3>2. was[i] = Final(s, said[i])
      BY <1>3, <3>1
    <3>3. QED
      BY <1>5, <1>9, <2>1, <3>1, <3>2
  <2>2. CASE ~(i <= Len(said))
    <3>1. i - Len(said) \in 1..Len(more)
      BY <1>3, <1>7, <2>2
    <3>2. QED
      BY <1>7, <1>9, <2>2, <3>1
  <2>3. QED
    BY <2>1, <2>2
<1>13. Answers(a, Append(part, e)) = was \o more
  <2> HIDE DEF was
  <2>1. QED
    BY <1>4, <1>8, <1>11, <1>12
<1>14. Answers(a, part) = Answers(s, part)
  BY <1>3, <1>5
<1>15. QED
  BY <1>13, <1>14 DEF a, more

LEMMA SubSeqAppend ==
  ASSUME NEW E, NEW s \in Seq(E), NEW e \in E, NEW i \in 1..(Len(s) + 1)
  PROVE  /\ \A j \in 0..Len(s) : SubSeq(Append(s, e), i, j) = SubSeq(s, i, j) /\ SubSeq(s, i, j) \in Seq(E)
         /\ SubSeq(Append(s, e), i, Len(s) + 1) = Append(SubSeq(s, i, Len(s)), e)
  OBVIOUS
------------------------------------------------------------------------------
(* Every turn is written                                                   *)

\* A turn is the prompt record first and what Claude answered up to record last.
Spans(recs, turn, first, last) ==
  /\ first \in 1..Len(recs) /\ last \in 1..Len(recs) /\ first <= last
  /\ recs[first].id = turn.prompt
  /\ \A i \in first + 1..last : ~recs[i].text
  /\ last = Len(recs) \/ recs[last + 1].text
  /\ turn.items = Answers(recs, SubSeq(recs, first + 1, last))

Prompts(recs) == {recs[i].id : i \in {k \in 1..Len(recs) : recs[k].text}}
PromptsOf(T)  == {T[k].prompt : k \in 1..Len(T)}
Rising(T)     == \A i, j \in 1..Len(T) : i < j => T[i].prompt < T[j].prompt

AllSpan(recs, T) ==
  \A k \in 1..Len(T) : T[k].prompt # 0 =>
    \E first, last : Spans(recs, T[k], first, last) /\ (k = Len(T) <=> last = Len(recs))

Written(recs) ==
  LET T == Raw(recs)
  IN PromptsOf(T) \ {0} = Prompts(recs) /\ Rising(T) /\ AllSpan(recs, T)

\* A span that no longer grows.
LEMMA SpanStays ==
  ASSUME NEW s \in Seq(RecordSet), NEW e \in RecordSet, NEW turn, NEW new, NEW first, NEW last,
         Spans(s, turn, first, last), last # Len(s) \/ e.text, new.prompt = turn.prompt,
         new.items = Answers(Append(s, e), SubSeq(s, first + 1, last))
  PROVE  Spans(Append(s, e), new, first, last) /\ last # Len(Append(s, e))
<1> DEFINE a == Append(s, e)
<1>1. /\ Len(a) = Len(s) + 1 /\ Len(s) \in Nat /\ a[Len(s) + 1] = e
      /\ \A i \in 1..Len(s) : a[i] = s[i]
  BY AppendIs
<1>2. /\ first \in 1..Len(s) /\ last \in 1..Len(s) /\ first <= last /\ s[first].id = turn.prompt
      /\ \A i \in first + 1..last : ~s[i].text
      /\ last = Len(s) \/ s[last + 1].text
  BY DEF Spans
<1>3. SubSeq(a, first + 1, last) = SubSeq(s, first + 1, last)
  <2>1. first + 1 \in 1..(Len(s) + 1) /\ last \in 0..Len(s)
    BY <1>1, <1>2
  <2>2. QED
    BY <2>1, SubSeqAppend
<1> HIDE DEF a
<1>4. first \in 1..Len(a) /\ last \in 1..Len(a) /\ a[first].id = new.prompt /\ last # Len(a)
  BY <1>1, <1>2
<1>5. \A i \in first + 1..last : ~a[i].text
  BY <1>1, <1>2
<1>6. a[last + 1].text
  BY <1>1, <1>2
<1>7. QED
  BY <1>2, <1>3, <1>4, <1>5, <1>6 DEF Spans, a

\* The span of the last turn takes in a record that is not a prompt.
LEMMA SpanGrows ==
  ASSUME NEW s \in Seq(RecordSet), NEW e \in RecordSet, NEW turn, NEW new, NEW first,
         Spans(s, turn, first, Len(s)), ~e.text, new.prompt = turn.prompt,
         new.items = Answers(Append(s, e), Append(SubSeq(s, first + 1, Len(s)), e))
  PROVE  Spans(Append(s, e), new, first, Len(Append(s, e)))
<1> DEFINE a == Append(s, e)
<1>1. /\ Len(a) = Len(s) + 1 /\ Len(s) \in Nat /\ a[Len(s) + 1] = e
      /\ \A i \in 1..Len(s) : a[i] = s[i]
  BY AppendIs
<1>2. /\ first \in 1..Len(s) /\ s[first].id = turn.prompt /\ \A i \in first + 1..Len(s) : ~s[i].text
  BY DEF Spans
<1>3. SubSeq(a, first + 1, Len(a)) = Append(SubSeq(s, first + 1, Len(s)), e)
  <2>1. first + 1 \in 1..(Len(s) + 1)
    BY <1>1, <1>2
  <2>2. QED
    BY <1>1, <2>1, SubSeqAppend
<1> HIDE DEF a
<1>4. first \in 1..Len(a) /\ Len(a) \in 1..Len(a) /\ first <= Len(a) /\ a[first].id = new.prompt
  BY <1>1, <1>2
<1>5. \A i \in first + 1..Len(a) : ~a[i].text
  BY <1>1, <1>2
<1>6. QED
  BY <1>3, <1>4, <1>5 DEF Spans, a

\* What lies in a span.
LEMMA SpanPart ==
  ASSUME NEW s \in Seq(RecordSet), NEW turn, NEW first, NEW last, Spans(s, turn, first, last)
  PROVE  SubSeq(s, first + 1, last) \in Seq(RecordSet) /\ turn.items = Answers(s, SubSeq(s, first + 1, last))
<1>1. first \in 1..Len(s) /\ last \in 1..Len(s) /\ first <= last
  BY DEF Spans
<1>2. SubSeq(s, first + 1, last) \in Seq(RecordSet)
  BY <1>1
<1>3. QED
  BY <1>2 DEF Spans

\* A result may change items of any turn, but no prompts.
LEMMA ResultSpans ==
  ASSUME NEW s \in Seq(RecordSet), NEW e \in RecordSet, e.role = "user", NEW T \in Histories,
         AllSpan(s, T), NEW k \in 1..Len(T), T[k].prompt # 0
  PROVE  LET new == ApplyToolResults(T, e)[k]
         IN \E first, last : /\ Spans(Append(s, e), new, first, last)
                             /\ last = Len(Append(s, e)) <=> k = Len(T) /\ ~e.text
<1> DEFINE new == ApplyToolResults(T, e)[k]
           a == Append(s, e)
<1>1. PICK first, last : Spans(s, T[k], first, last) /\ (k = Len(T) <=> last = Len(s))
  BY DEF AllSpan
<1> DEFINE part == SubSeq(s, first + 1, last)
<1>2. part \in Seq(RecordSet) /\ T[k].items = Answers(s, part)
  BY <1>1, SpanPart
<1>3. new.prompt = T[k].prompt /\ Len(new.items) = Len(T[k].items)
      /\ \A i \in 1..Len(T[k].items) : new.items[i] = Ended(e, T[k].items[i])
  BY ResultTypes DEF Ended
<1>4. new.items \in Seq(ItemSet) /\ T[k].items \in Seq(ItemSet)
  <2>1. ApplyToolResults(T, e) \in Seq(TurnSet) /\ k \in 1..Len(ApplyToolResults(T, e)) /\ T \in Seq(TurnSet)
    BY ResultTypes DEF Histories
  <2>2. new \in TurnSet /\ T[k] \in TurnSet
    BY <2>1
  <2>3. QED
    BY <2>2 DEF TurnSet
<1> HIDE DEF new, a, part
<1>5. new.items = Answers(a, part)
  <2> DEFINE was == T[k].items
             n == Len(SaidIn(part))
  <2>1. /\ Answers(a, part) = [i \in 1..n |-> Ended(e, was[i])] /\ DOMAIN was = 1..n
    BY <1>2, AnswersAfterUser DEF a
  <2>2. DOMAIN was = 1..Len(was)
    BY <1>4
  <2> HIDE DEF was, n
  <2>3. new.items = [i \in 1..Len(was) |-> Ended(e, was[i])]
    <3> DEFINE is == new.items
    <3>1. is \in Seq(ItemSet) /\ Len(is) = Len(was) /\ \A i \in 1..Len(was) : is[i] = Ended(e, was[i])
      BY <1>3, <1>4 DEF was
    <3> HIDE DEF is
    <3>2. is = [i \in 1..Len(is) |-> is[i]]
      BY <3>1
    <3>3. is = [i \in 1..Len(was) |-> Ended(e, was[i])]
      BY <3>1, <3>2
    <3>4. QED
      BY <3>3 DEF is
  <2>4. QED
    BY <2>1, <2>2, <2>3
<1>6. Answers(a, Append(part, e)) = Answers(a, part)
  BY <1>2, AnswersAfterUser DEF a
<1>7. CASE last # Len(s) \/ e.text
  <2>1. Spans(a, new, first, last) /\ last # Len(a)
    BY <1>1, <1>3, <1>5, <1>7, SpanStays DEF a, part
  <2>2. QED
    BY <1>1, <1>7, <2>1 DEF new, a
<1>8. CASE last = Len(s) /\ ~e.text
  <2>1. Spans(a, new, first, Len(a))
    BY <1>1, <1>3, <1>5, <1>6, <1>8, SpanGrows DEF a, part
  <2>2. QED
    BY <1>1, <1>8, <2>1 DEF new, a
<1>9. QED
  BY <1>7, <1>8

LEMMA WellFormedFront ==
  ASSUME NEW s \in Seq(RecordSet), NEW e \in RecordSet, WellFormed(Append(s, e))
  PROVE  /\ WellFormed(s) /\ e.id > 0 /\ (e.text => e.role = "user")
         /\ \A i \in 1..Len(s) : s[i].id < e.id /\ s[i].id # 0
         /\ Prompts(Append(s, e)) = Prompts(s) \cup (IF e.text THEN {e.id} ELSE {})
<1> DEFINE a == Append(s, e)
           n == Len(s)
<1>1. /\ Len(a) = n + 1 /\ n \in Nat /\ a[n + 1] = e /\ (\A i \in 1..n : a[i] = s[i] /\ s[i] \in RecordSet)
  BY AppendIs
<1> HIDE DEF a, n
<1>2. Len(s) = n /\ WellFormed(a)
  BY DEF a, n
<1>3. \A i \in 1..n : i \in 1..Len(a) /\ n + 1 \in 1..Len(a) /\ i < n + 1
  BY <1>1
<1>4. WellFormed(s)
  BY <1>1, <1>2, <1>3 DEF WellFormed
<1>5. e.id > 0 /\ (e.text => e.role = "user")
  BY <1>1, <1>2 DEF WellFormed
<1>6. \A i \in 1..n : s[i].id < e.id /\ s[i].id # 0
  <2> TAKE i \in 1..n
  <2>1. a[i].id < a[n + 1].id /\ a[i].id > 0
    BY <1>2, <1>3 DEF WellFormed
  <2>2. QED
    BY <1>1, <2>1
<1>7. Prompts(a) = Prompts(s) \cup (IF e.text THEN {e.id} ELSE {})
  <2> DEFINE K == {k \in 1..n : s[k].text}
  <2>1. {k \in 1..Len(a) : a[k].text} = K \cup (IF e.text THEN {n + 1} ELSE {})
    BY <1>1
  <2>2. \A k \in K : a[k].id = s[k].id
    BY <1>1
  <2>3. Prompts(s) = {s[i].id : i \in K}
    BY <1>2 DEF Prompts
  <2> HIDE DEF K
  <2>4. Prompts(a) = {a[i].id : i \in K \cup (IF e.text THEN {n + 1} ELSE {})}
    BY <2>1 DEF Prompts
  <2>5. {a[i].id : i \in K} = {s[i].id : i \in K}
    BY <2>2
  <2>6. CASE e.text
    BY <1>1, <2>3, <2>4, <2>5, <2>6
  <2>7. CASE ~e.text
    BY <2>3, <2>4, <2>5, <2>7
  <2>8. QED
    BY <2>6, <2>7
<1>8. QED
  BY <1>2, <1>4, <1>5, <1>6, <1>7 DEF a

\* The prompts of turns come before a record that is to come.
LEMMA PromptsBefore ==
  ASSUME NEW s \in Seq(RecordSet), NEW e \in RecordSet, WellFormed(Append(s, e)),
         NEW T \in Histories, PromptsOf(T) \ {0} = Prompts(s)
  PROVE  \A k \in 1..Len(T) : T[k].prompt \in Nat /\ T[k].prompt < e.id
<1> TAKE k \in 1..Len(T)
<1>1. T[k] \in TurnSet
  BY DEF Histories
<1>2. T[k].prompt \in Nat /\ T[k].prompt \in PromptsOf(T)
  BY <1>1 DEF TurnSet, PromptsOf
<1>3. e.id > 0 /\ \A i \in 1..Len(s) : s[i].id < e.id
  BY WellFormedFront
<1>4. QED
  BY <1>2, <1>3 DEF Prompts

LEMMA ResultPrompts ==
  ASSUME NEW T \in Histories, NEW e \in RecordSet, NEW D, D = ApplyToolResults(T, e)
  PROVE  /\ D \in Seq(TurnSet) /\ Len(D) = Len(T) /\ Len(T) \in Nat /\ (\A k \in 1..Len(T) : D[k].prompt = T[k].prompt)
         /\ PromptsOf(D) = PromptsOf(T) /\ (Rising(T) => Rising(D))
<1>1. D \in Seq(TurnSet) /\ Len(D) = Len(T) /\ (\A k \in 1..Len(T) : D[k].prompt = T[k].prompt)
  BY ResultTypes DEF Histories
<1>2. Len(D) \in Nat
  BY <1>1
<1>3. PromptsOf(D) = PromptsOf(T)
  BY <1>1 DEF PromptsOf
<1>4. Rising(T) => Rising(D)
  BY <1>1 DEF Rising
<1>5. QED
  BY <1>1, <1>2, <1>3, <1>4

LEMMA UserWritten ==
  ASSUME NEW s \in Seq(RecordSet), NEW e \in RecordSet, WellFormed(Append(s, e)), Written(s),
         e.role = "user"
  PROVE  Written(Append(s, e))
<1> DEFINE T == Raw(s)
           a == Append(s, e)
           D == ApplyToolResults(T, e)
<1>1. T \in Histories /\ PromptsOf(T) \ {0} = Prompts(s) /\ Rising(T) /\ AllSpan(s, T)
  BY RecordsFoldLaw DEF Written
<1>2. Raw(a) = IF e.text THEN StartTurn(D, e) ELSE D
  BY RecordsFoldLaw DEF AddRecord
<1>3. Prompts(a) = Prompts(s) \cup (IF e.text THEN {e.id} ELSE {})
  BY WellFormedFront
<1>4. ASSUME NEW k \in 1..Len(T), T[k].prompt # 0
      PROVE  \E first, last : Spans(a, D[k], first, last) /\ (last = Len(a) <=> k = Len(T) /\ ~e.text)
  BY <1>1, <1>4, ResultSpans
<1>5. /\ D \in Seq(TurnSet) /\ Len(D) = Len(T) /\ Len(T) \in Nat
      /\ (\A k \in 1..Len(T) : D[k].prompt = T[k].prompt)
      /\ PromptsOf(D) = PromptsOf(T) /\ Rising(D)
  BY <1>1, ResultPrompts
<1>6. \A k \in 1..Len(T) : T[k].prompt < e.id /\ T[k].prompt \in Nat
  BY <1>1, PromptsBefore
<1>7. e.id > 0 /\ e.id \in Nat
  BY WellFormedFront DEF RecordSet
<1>8. /\ Len(a) = Len(s) + 1 /\ Len(s) \in Nat /\ a[Len(s) + 1] = e /\ a \in Seq(RecordSet)
  BY AppendIs
<1> HIDE DEF T, D, a
<1>9. CASE ~e.text
  <2>1. Raw(a) = D /\ Prompts(a) = Prompts(s)
    BY <1>2, <1>3, <1>9
  <2>2. AllSpan(a, D)
    BY <1>4, <1>5, <1>9 DEF AllSpan
  <2>3. QED
    BY <1>1, <1>5, <2>1, <2>2 DEF Written, a
<1>10. CASE e.text
  <2> DEFINE begun == [prompt |-> e.id, items |-> <<>>]
             B == Append(D, begun)
  <2>1. Raw(a) = B /\ Prompts(a) = Prompts(s) \cup {e.id}
    BY <1>2, <1>3, <1>10 DEF StartTurn
  <2>2. begun \in TurnSet /\ begun.prompt = e.id /\ begun.items = <<>>
    BY <1>7 DEF TurnSet
  <2> HIDE DEF begun
  <2>3. /\ Len(B) = Len(D) + 1 /\ Len(D) \in Nat /\ B[Len(D) + 1] = begun
        /\ \A i \in 1..Len(D) : B[i] = D[i]
    BY <1>5, <2>2, AppendIs
  <2> HIDE DEF B
  <2>4. PromptsOf(B) = PromptsOf(D) \cup {e.id}
    <3>1. 1..Len(B) = 1..Len(D) \cup {Len(D) + 1}
      BY <2>3
    <3>2. QED
      BY <2>2, <2>3, <3>1 DEF PromptsOf
  <2>5. Rising(B)
    <3> SUFFICES ASSUME NEW i \in 1..Len(B), NEW j \in 1..Len(B), i < j PROVE B[i].prompt < B[j].prompt
      BY DEF Rising
    <3>1. i \in 1..Len(D) /\ B[i].prompt = D[i].prompt
      BY <2>3
    <3>2. CASE j = Len(D) + 1
      BY <1>5, <1>6, <2>2, <2>3, <3>1, <3>2
    <3>3. CASE j # Len(D) + 1
      <4>1. j \in 1..Len(D) /\ B[j].prompt = D[j].prompt
        BY <2>3, <3>3
      <4>2. QED
        BY <1>5, <3>1, <4>1 DEF Rising
    <3>4. QED
      BY <3>2, <3>3
  <2>6. Spans(a, begun, Len(a), Len(a))
    <3>1. <<>> \in Seq(RecordSet) /\ SubSeq(a, Len(a) + 1, Len(a)) = <<>>
      BY <1>8
    <3>2. Answers(a, <<>>) = <<>>
      <4>1. SaidIn(<<>>) = <<>> /\ Len(<<>>) = 0
        BY <3>1, SaidFoldLaw
      <4>2. Answers(a, <<>>) = [i \in 1..Len(SaidIn(<<>>)) |-> Final(a, SaidIn(<<>>)[i])]
        BY <3>1, AnswersAre
      <4>3. 1..Len(SaidIn(<<>>)) = {}
        BY <4>1
      <4>4. QED
        BY <4>2, <4>3
    <3>3. Len(a) \in 1..Len(a) /\ a[Len(a)].id = begun.prompt
      BY <1>8, <2>2
    <3>4. \A i \in Len(a) + 1..Len(a) : ~a[i].text
      BY <1>8
    <3>5. begun.items = Answers(a, SubSeq(a, Len(a) + 1, Len(a)))
      BY <2>2, <3>1, <3>2
    <3>6. QED
      BY <1>8, <3>3, <3>4, <3>5 DEF Spans
  <2>7. AllSpan(a, B)
    <3> SUFFICES ASSUME NEW k \in 1..Len(B), B[k].prompt # 0
                 PROVE  \E first, last : Spans(a, B[k], first, last) /\ (k = Len(B) <=> last = Len(a))
      BY DEF AllSpan
    <3>1. CASE k = Len(D) + 1
      BY <2>3, <2>6, <3>1
    <3>2. CASE k # Len(D) + 1
      <4>1. k \in 1..Len(T) /\ B[k] = D[k] /\ T[k].prompt # 0 /\ k # Len(B)
        BY <1>5, <2>3, <3>2
      <4>2. PICK first, last : Spans(a, D[k], first, last) /\ last # Len(a)
        BY <1>4, <1>10, <4>1
      <4>3. QED
        BY <4>1, <4>2
    <3>3. QED
      BY <3>1, <3>2
  <2>8. PromptsOf(B) \ {0} = Prompts(a)
    BY <1>1, <1>5, <1>7, <2>1, <2>4
  <2>9. QED
    BY <2>1, <2>5, <2>7, <2>8 DEF Written, a
<1>11. QED
  BY <1>9, <1>10

LEMMA AssistantWritten ==
  ASSUME NEW s \in Seq(RecordSet), NEW e \in RecordSet, WellFormed(Append(s, e)), Written(s),
         e.role = "assistant"
  PROVE  Written(Append(s, e))
<1> DEFINE T == Raw(s)
           a == Append(s, e)
           more == AssistantItems(e)
           B == IF T = <<>> THEN StartTurn(T, e) ELSE T
           new == [B EXCEPT ![Len(B)].items = @ \o more]
<1>1. T \in Histories /\ PromptsOf(T) \ {0} = Prompts(s) /\ Rising(T) /\ AllSpan(s, T)
  BY RecordsFoldLaw DEF Written
<1>2. Raw(a) = new
  BY RecordsFoldLaw DEF AddRecord
<1>3. ~e.text /\ Prompts(a) = Prompts(s)
  BY WellFormedFront
<1>4. more \in Seq(ItemSet)
  BY AssistantFold
<1>5. B \in Histories /\ B # <<>>
  <2>1. T \in Seq(TurnSet) /\ [prompt |-> 0, items |-> <<>>] \in TurnSet
    BY <1>1 DEF Histories, TurnSet
  <2>2. B = IF T = <<>> THEN Append(T, [prompt |-> 0, items |-> <<>>]) ELSE T
    BY <1>3 DEF StartTurn
  <2> HIDE DEF T, B
  <2>3. QED
    BY <2>1, <2>2, AppendIs DEF Histories
<1>6. /\ new \in Histories /\ Len(new) = Len(B) /\ Len(B) \in Nat \ {0}
      /\ \A k \in 1..Len(B) : new[k].prompt = B[k].prompt
      /\ \A k \in 1..Len(B) : k # Len(B) => new[k] = B[k]
      /\ new[Len(B)].items = B[Len(B)].items \o more
  <2>1. Len(B) \in Nat \ {0}
    <3> HIDE DEF B
    <3>1. QED
      BY <1>5 DEF Histories
  <2> HIDE DEF B, more
  <2>2. QED
    BY <1>4, <1>5, <2>1, SaidTypes
<1>7. T = <<>> => Len(B) = 1 /\ B[1].prompt = 0
  BY <1>3 DEF StartTurn
<1> HIDE DEF new, more
<1>8. CASE T = <<>>
  <2>1. Len(new) = 1 /\ new[1].prompt = 0
    <3> HIDE DEF B
    <3>1. QED
      BY <1>6, <1>7, <1>8
  <2>2. PromptsOf(new) \ {0} = {} /\ Prompts(s) = {}
    BY <1>1, <1>8, <2>1 DEF PromptsOf
  <2>3. Rising(new) /\ AllSpan(a, new)
    BY <2>1 DEF Rising, AllSpan
  <2>4. QED
    BY <1>2, <1>3, <2>2, <2>3 DEF Written
<1>9. CASE T # <<>>
  <2>1. B = T
    BY <1>9
  <2>2. /\ Len(new) = Len(T) /\ Len(T) \in Nat \ {0}
        /\ \A k \in 1..Len(T) : new[k].prompt = T[k].prompt
        /\ \A k \in 1..Len(T) : k # Len(T) => new[k] = T[k]
        /\ new[Len(T)].items = T[Len(T)].items \o more
    <3> HIDE DEF B
    <3>1. QED
      BY <1>6, <2>1
  <2> HIDE DEF T, B, a
  <2>3. PromptsOf(new) = PromptsOf(T) /\ Rising(new)
    BY <1>1, <2>2 DEF PromptsOf, Rising
  <2>4. AllSpan(a, new)
    <3> SUFFICES ASSUME NEW k \in 1..Len(T), T[k].prompt # 0
                 PROVE  \E first, last : Spans(a, new[k], first, last) /\ (k = Len(T) <=> last = Len(a))
      BY <2>2 DEF AllSpan
    <3>1. PICK first, last : Spans(s, T[k], first, last) /\ (k = Len(T) <=> last = Len(s))
      BY <1>1 DEF AllSpan
    <3> DEFINE part == SubSeq(s, first + 1, last)
    <3>2. part \in Seq(RecordSet) /\ T[k].items = Answers(s, part)
      BY <3>1, SpanPart
    <3>3. /\ Answers(a, part) = Answers(s, part)
          /\ Answers(a, Append(part, e)) = Answers(s, part) \o more
      BY <3>2, AnswersAfterAssistant DEF a, more
    <3> HIDE DEF part
    <3>4. CASE k = Len(T)
      <4>1. last = Len(s) /\ new[k].items = Answers(a, Append(part, e)) /\ new[k].prompt = T[k].prompt
        BY <2>2, <3>1, <3>2, <3>3, <3>4
      <4>2. Spans(a, new[k], first, Len(a))
        BY <1>3, <3>1, <4>1, SpanGrows DEF a, part
      <4>3. QED
        BY <3>4, <4>2
    <3>5. CASE k # Len(T)
      <4>1. last # Len(s) /\ new[k].items = Answers(a, part) /\ new[k].prompt = T[k].prompt
        BY <2>2, <3>1, <3>2, <3>3, <3>5
      <4>2. Spans(a, new[k], first, last) /\ last # Len(a)
        BY <3>1, <4>1, SpanStays DEF a, part
      <4>3. QED
        BY <3>5, <4>2
    <3>6. QED
      BY <3>4, <3>5
  <2>5. QED
    BY <1>1, <1>2, <1>3, <2>3, <2>4 DEF Written, a
<1>10. QED
  BY <1>8, <1>9

LEMMA AllWritten == ASSUME NEW recs \in Seq(RecordSet), WellFormed(recs) PROVE Written(recs)
<1> DEFINE S == {s \in Seq(RecordSet) : WellFormed(s) => Written(s)}
<1>1. <<>> \in S
  <2>1. <<>> \in Seq(RecordSet) /\ Len(<<>>) = 0
    OBVIOUS
  <2>2. Raw(<<>>) = <<>>
    BY <2>1, RecordsFoldLaw
  <2>3. PromptsOf(<<>>) = {} /\ Prompts(<<>>) = {} /\ Rising(<<>>) /\ AllSpan(<<>>, <<>>)
    BY <2>1 DEF PromptsOf, Prompts, Rising, AllSpan
  <2>4. QED
    BY <2>1, <2>2, <2>3 DEF Written
<1>2. ASSUME NEW s \in Seq(RecordSet), s \in S, NEW e \in RecordSet PROVE Append(s, e) \in S
  <2>1. Append(s, e) \in Seq(RecordSet)
    BY AppendIs
  <2>2. WellFormed(Append(s, e)) => WellFormed(s)
    BY WellFormedFront
  <2>3. e.role \in {"user", "assistant"}
    BY DEF RecordSet
  <2>4. QED
    BY <1>2, <2>1, <2>2, <2>3, UserWritten, AssistantWritten
<1>3. Seq(RecordSet) \subseteq S
  <2> HIDE DEF S
  <2>1. QED
    BY <1>1, <1>2, SeqInduction
<1>4. QED
  BY <1>3
------------------------------------------------------------------------------
(* The transcripts that there are                                          *)

\* Transcripts are well formed, of the records that have been written.
Numbered == \A s \in Sessions : /\ WellFormed(file[s])
                                /\ \A i \in 1..Len(file[s]) : file[s][i].id <= records

LEMMA WriteNumbered ==
  ASSUME Typed, Numbered, NEW s \in Sessions, NEW rec \in RecordSet, Write(s, rec),
         rec.id = records + 1, rec.use <= records, rec.text => rec.role = "user"
  PROVE  Numbered'
<1>1. /\ records' = records + 1 /\ records \in Nat /\ file'[s] = Append(file[s], rec)
      /\ \A x \in Sessions \ {s} : file'[x] = file[x]
  BY Appended DEF Write, Typed
<1> DEFINE f == file[s]
           a == Append(f, rec)
<1>2. f \in Seq(RecordSet) /\ WellFormed(f) /\ \A i \in 1..Len(f) : f[i].id <= records
  BY DEF Typed, Numbered
<1>3. /\ Len(a) = Len(f) + 1 /\ Len(f) \in Nat /\ a[Len(f) + 1] = rec
      /\ \A i \in 1..Len(f) : a[i] = f[i] /\ f[i] \in RecordSet
  <2> HIDE DEF f
  <2>1. QED
    BY <1>2, AppendIs
<1> HIDE DEF f, a
<1>4. \A i \in 1..Len(a) : i # Len(a) => i \in 1..Len(f)
  BY <1>3
<1>5. \A i \in 1..Len(f) : f[i].id \in Nat
  BY <1>3 DEF RecordSet
<1>6. \A i \in 1..Len(a) : a[i].id > 0 /\ a[i].use < a[i].id /\ (a[i].text => a[i].role = "user")
  <2>1. rec.id > 0 /\ rec.use < rec.id /\ rec.use \in Nat
    BY <1>1 DEF RecordSet
  <2>2. QED
    BY <1>2, <1>3, <1>4, <2>1 DEF WellFormed
<1>7. \A i, j \in 1..Len(a) : i < j => a[i].id < a[j].id
  <2> SUFFICES ASSUME NEW i \in 1..Len(a), NEW j \in 1..Len(a), i < j PROVE a[i].id < a[j].id
    OBVIOUS
  <2>1. i \in 1..Len(f) /\ a[i] = f[i]
    BY <1>3
  <2>2. CASE j = Len(a)
    BY <1>1, <1>2, <1>3, <1>5, <2>1, <2>2
  <2>3. CASE j # Len(a)
    <3>1. j \in 1..Len(f) /\ a[j] = f[j]
      BY <1>3, <1>4, <2>3
    <3>2. QED
      BY <1>2, <2>1, <3>1 DEF WellFormed
  <2>4. QED
    BY <2>2, <2>3
<1>8. WellFormed(a) /\ \A i \in 1..Len(a) : a[i].id <= records'
  <2>1. \A i \in 1..Len(a) : a[i].id <= records'
    BY <1>1, <1>2, <1>3, <1>4, <1>5
  <2>2. QED
    BY <1>6, <1>7, <2>1 DEF WellFormed
<1>9. \A x \in Sessions \ {s} : \A i \in 1..Len(file[x]) : file[x][i].id <= records'
  <2> TAKE x \in Sessions \ {s}
  <2> TAKE i \in 1..Len(file[x])
  <2>1. file[x] \in Seq(RecordSet)
    BY DEF Typed
  <2>2. file[x][i] \in RecordSet
    BY <2>1
  <2>3. file[x][i].id \in Nat
    BY <2>2 DEF RecordSet
  <2>4. QED
    BY <1>1, <2>3 DEF Numbered
<1>10. QED
  BY <1>1, <1>8, <1>9 DEF Numbered, a, f

LEMMA NumberedNext == Typed /\ Numbered /\ [Next]_vars => Numbered'
<1> SUFFICES ASSUME Typed, Numbered, [Next]_vars PROVE Numbered'
  OBVIOUS
<1>0. records \in Nat /\ records + 1 \in Nat
  BY DEF Typed
<1>1. ASSUME NEW s \in Sessions, LocalPrompt(s) PROVE Numbered'
  <2>1. PICK rec \in {Prompt(records + 1), LocalCommand(records + 1)} : Write(s, rec)
    BY <1>1 DEF LocalPrompt
  <2>2. \A x \in {Prompt(records + 1), LocalCommand(records + 1)} :
          x.id = records + 1 /\ x.use = 0 /\ x.role = "user"
    BY DEF Prompt, LocalCommand
  <2> HIDE DEF Prompt, LocalCommand
  <2>3. rec \in RecordSet
    BY <1>0, RecordTypes
  <2>4. QED
    BY <1>0, <2>1, <2>2, <2>3, WriteNumbered
<1>2. ASSUME NEW s \in Sessions, DeleteThread(s) PROVE Numbered'
  <2>1. UNCHANGED records /\ (file' = file \/ file' = [file EXCEPT ![s] = <<>>])
    BY <1>2 DEF DeleteThread, Removed
  <2>2. \A x \in Sessions : file'[x] = file[x] \/ file'[x] = <<>>
    BY <2>1 DEF Typed
  <2>3. WellFormed(<<>>) /\ Len(<<>>) = 0
    BY DEF WellFormed
  <2>4. QED
    BY <2>1, <2>2, <2>3 DEF Numbered
<1>3. ASSUME NEW r \in Runs, NEW s \in Sessions, NEW t \in Turns, StartRun(r, s, t) PROVE Numbered'
  <2>1. Write(s, Prompt(records + 1))
    BY <1>3 DEF StartRun
  <2>2. /\ Prompt(records + 1) \in RecordSet /\ Prompt(records + 1).id = records + 1
        /\ Prompt(records + 1).use = 0 /\ Prompt(records + 1).role = "user"
    BY <1>0, RecordTypes DEF Prompt
  <2> HIDE DEF Prompt
  <2>3. QED
    BY <1>0, <2>1, <2>2, WriteNumbered
<1>4. ASSUME NEW r \in Runs, Answer(r) PROVE Numbered'
  <2>1. run[r].session \in Sessions /\ Running(r)
    BY <1>4 DEF Answer, Running, Typed
  <2>2. PICK rec \in RecordSet :
          /\ rec.id = records + 1 /\ ~rec.text
          /\ \/ \E c \in Contents : rec = Said(records + 1, c)
             \/ \E u \in OpenUses(r), failed \in BOOLEAN : rec = ToolResult(records + 1, u, failed)
          /\ Write(run[r].session, rec)
    BY <1>4, Answered
  <2>3. rec.use <= records
    <3>1. CASE \E c \in Contents : rec = Said(records + 1, c)
      BY <1>0, <3>1 DEF Said, LocalCommand, Prompt
    <3>2. CASE \E u \in OpenUses(r), failed \in BOOLEAN : rec = ToolResult(records + 1, u, failed)
      <4>1. rec.use \in OpenUses(r)
        <5>1. PICK u \in OpenUses(r), failed \in BOOLEAN : rec = ToolResult(records + 1, u, failed)
          BY <3>2
        <5>2. rec.use = u
          BY <5>1 DEF ToolResult, LocalCommand, Prompt
        <5> HIDE DEF OpenUses
        <5>3. QED
          BY <5>1, <5>2
      <4>2. QED
        BY <2>1, <4>1 DEF OpenUses, Numbered
    <3>3. QED
      BY <2>2, <3>1, <3>2
  <2>4. QED
    BY <2>1, <2>2, <2>3, WriteNumbered
<1>5. CASE UNCHANGED <<file, records>>
  BY <1>5 DEF Numbered
<1>6. ASSUME NEW r \in Runs, MapMessage(r) \/ MapResultMessage(r) \/ Abort(r) \/ Finally(r)
      PROVE  UNCHANGED <<file, records>>
  BY <1>6 DEF MapMessage, MapResultMessage, Abort, Ends, Finally, files
<1>7. CASE UNCHANGED vars
  BY <1>5, <1>7 DEF vars, files
<1>8. QED
  BY <1>1, <1>2, <1>3, <1>4, <1>5, <1>6, <1>7 DEF Next

LEMMA NumberedInit == Init => Numbered
<1> SUFFICES ASSUME Init PROVE Numbered
  OBVIOUS
<1>1. WellFormed(<<>>) /\ Len(<<>>) = 0
  BY DEF WellFormed
<1>2. QED
  BY <1>1 DEF Init, Numbered

LEMMA HistoryShown ==
  ASSUME NEW recs \in Seq(RecordSet), WellFormed(recs), NEW T, T = Raw(recs), NEW z, z = Skipped(T)
  PROVE  /\ T \in Seq(TurnSet) /\ Len(T) \in Nat /\ z \in {0, 1} /\ Len(T) - z \in Nat
         /\ HistoryTurns(recs) = [i \in 1..(Len(T) - z) |-> T[i + z]]
         /\ \A k \in 1..(Len(T) - z) : k + z \in 1..Len(T) /\ T[k + z] \in TurnSet /\ T[k + z].prompt # 0
         /\ \A k \in 1..Len(T) : T[k].prompt # 0 => k - z \in 1..(Len(T) - z)
<1>1. T \in Seq(TurnSet)
  BY RecordsFoldLaw DEF Histories
<1>2. Len(T) \in Nat /\ \A k \in 1..Len(T) : T[k] \in TurnSet
  BY <1>1
<1>3. Rising(T)
  BY AllWritten DEF Written
<1>4. T # <<>> <=> Len(T) # 0
  BY <1>1
<1> HIDE DEF Raw
<1>5. \A k \in 2..Len(T) : T[k].prompt # 0
  <2> TAKE k \in 2..Len(T)
  <2>1. T[1].prompt < T[k].prompt /\ T[1] \in TurnSet /\ T[k] \in TurnSet
    BY <1>2, <1>3 DEF Rising
  <2>2. QED
    BY <2>1 DEF TurnSet
<1>6. Kept(T) = [i \in 1..(Len(T) - z) |-> T[i + z]]
  BY <1>1, <1>5, KeptIs DEF Lead
<1>7. HistoryTurns(recs) = [i \in 1..(Len(T) - z) |-> T[i + z]]
  BY <1>6, HistoryKept
<1>8. z \in {0, 1} /\ (z = 1 <=> Len(T) # 0 /\ T[1].prompt = 0)
  BY <1>4 DEF Skipped
<1>9. Len(T) - z \in Nat
  BY <1>2, <1>8
<1>10. \A k \in 1..(Len(T) - z) : k + z \in 1..Len(T) /\ T[k + z] \in TurnSet /\ T[k + z].prompt # 0
  <2> TAKE k \in 1..(Len(T) - z)
  <2>1. k + z \in 1..Len(T)
    BY <1>2, <1>8
  <2>2. k + z = 1 => z = 0 /\ Len(T) # 0
    BY <1>2, <1>8, <2>1
  <2>3. k + z # 1 => k + z \in 2..Len(T)
    BY <1>2, <2>1
  <2>4. QED
    BY <1>2, <1>5, <1>8, <2>1, <2>2, <2>3
<1>11. \A k \in 1..Len(T) : T[k].prompt # 0 => k - z \in 1..(Len(T) - z)
  BY <1>2, <1>8
<1>12. QED
  BY <1>1, <1>2, <1>7, <1>8, <1>9, <1>10, <1>11

\* What TurnsAsWritten says of a transcript.
WrittenAs(recs, h) ==
  /\ ToSet(Given(h)) = {recs[i].id : i \in {k \in 1..Len(recs) : recs[k].text}}
  /\ \A i, j \in 1..Len(h) : i < j => h[i].prompt < h[j].prompt
  /\ \A k \in 1..Len(h) : \E first, last \in 1..Len(recs) :
       /\ first <= last /\ recs[first].id = h[k].prompt
       /\ \A i \in first + 1..last : ~recs[i].text
       /\ last = Len(recs) \/ recs[last + 1].text
       /\ h[k].items = Answers(recs, SubSeq(recs, first + 1, last))

LEMMA HistoryWritten ==
  ASSUME NEW recs \in Seq(RecordSet), WellFormed(recs), NEW h, h = HistoryTurns(recs)
  PROVE  WrittenAs(recs, h)
<1> DEFINE T == Raw(recs)
           z == Skipped(T)
           n == Len(T) - z
<1>1. T = Raw(recs) /\ z = Skipped(T)
  OBVIOUS
<1> HIDE DEF T, z
<1>2. PromptsOf(T) \ {0} = Prompts(recs) /\ Rising(T) /\ AllSpan(recs, T)
  BY <1>1, AllWritten DEF Written
<1>3. /\ T \in Seq(TurnSet) /\ Len(T) \in Nat /\ z \in {0, 1} /\ n \in Nat
      /\ h = [i \in 1..n |-> T[i + z]]
      /\ \A k \in 1..n : k + z \in 1..Len(T) /\ T[k + z] \in TurnSet /\ T[k + z].prompt # 0
      /\ \A k \in 1..Len(T) : T[k].prompt # 0 => k - z \in 1..n
  <2>1. HistoryTurns(recs) = [i \in 1..n |-> T[i + z]]
    BY <1>1, HistoryShown
  <2>2. QED
    BY <1>1, <2>1, HistoryShown
<1> HIDE DEF n
<1>4. Len(h) = n /\ \A k \in 1..n : h[k] = T[k + z]
  BY <1>3
<1>5. Given(h) = [k \in 1..n |-> T[k + z].prompt]
  BY <1>4 DEF Given
<1>6. ToSet(Given(h)) = PromptsOf(T) \ {0}
  <2>1. ToSet(Given(h)) = {T[k + z].prompt : k \in 1..n}
    BY <1>5 DEF ToSet
  <2>2. ASSUME NEW k \in 1..Len(T), T[k].prompt # 0
        PROVE  T[k].prompt \in {T[i + z].prompt : i \in 1..n}
    <3>1. k - z \in 1..n /\ (k - z) + z = k
      BY <1>3, <2>2
    <3>2. QED
      BY <3>1
  <2>3. \A k \in 1..n : T[k + z].prompt \in PromptsOf(T) \ {0}
    BY <1>3 DEF PromptsOf
  <2>4. \A x \in PromptsOf(T) \ {0} : x \in {T[i + z].prompt : i \in 1..n}
    BY <2>2 DEF PromptsOf
  <2>5. QED
    BY <2>1, <2>3, <2>4
<1>7. \A i, j \in 1..Len(h) : i < j => h[i].prompt < h[j].prompt
  <2> SUFFICES ASSUME NEW i \in 1..n, NEW j \in 1..n, i < j PROVE h[i].prompt < h[j].prompt
    BY <1>4
  <2>1. i \in Nat /\ j \in Nat /\ z \in Nat
    BY <1>3
  <2>2. i + z < j + z
    BY <2>1
  <2>3. i + z \in 1..Len(T) /\ j + z \in 1..Len(T)
    BY <1>3
  <2>4. h[i] = T[i + z] /\ h[j] = T[j + z]
    BY <1>4
  <2>5. QED
    BY <1>2, <2>2, <2>3, <2>4 DEF Rising
<1>8. ASSUME NEW k \in 1..Len(h)
      PROVE  \E first, last \in 1..Len(recs) :
               /\ first <= last /\ recs[first].id = h[k].prompt
               /\ \A i \in first + 1..last : ~recs[i].text
               /\ last = Len(recs) \/ recs[last + 1].text
               /\ h[k].items = Answers(recs, SubSeq(recs, first + 1, last))
  <2>1. k + z \in 1..Len(T) /\ h[k] = T[k + z] /\ T[k + z].prompt # 0
    BY <1>3, <1>4
  <2>2. PICK first, last : Spans(recs, T[k + z], first, last)
    BY <1>2, <2>1 DEF AllSpan
  <2>3. QED
    BY <2>1, <2>2 DEF Spans
<1>9. QED
  BY <1>2, <1>6, <1>7, <1>8 DEF Prompts, WrittenAs

\* The history is one turn per prompt, in order, with what Claude said up to the next one
\* and how each command ended: TurnsAsWritten, for transcripts of any length
\* (claude_agent_sdk.py:448-577).
THEOREM HistoryAsWritten == Spec => []TurnsAsWritten
<1>1. Init => Typed /\ Numbered
  BY TypedInit, NumberedInit
<1>2. Typed /\ Numbered /\ [Next]_vars => (Typed /\ Numbered)'
  BY TypedNext, NumberedNext
<1>3. ASSUME Typed, Numbered PROVE TurnsAsWritten
  <2>1. ASSUME NEW s \in Sessions PROVE WrittenAs(file[s], HistoryTurns(file[s]))
    <3>1. file[s] \in Seq(RecordSet) /\ WellFormed(file[s])
      BY <1>3 DEF Typed, Numbered
    <3>2. QED
      BY <3>1, HistoryWritten
  <2>2. QED
    BY <2>1 DEF TurnsAsWritten, WrittenAs
<1>4. QED
  BY <1>1, <1>2, <1>3, PTL DEF Spec
------------------------------------------------------------------------------
(* Pages                                                                   *)

\* The turns of T are the first of those of U.
Begins(T, U) == Len(T) <= Len(U) /\ \A i \in 1..Len(T) : T[i].prompt = U[i].prompt

LEMMA AddBegins ==
  ASSUME NEW T \in Histories, NEW e \in RecordSet
  PROVE  Begins(T, AddRecord(T, e))
<1>1. T \in Seq(TurnSet) /\ Len(T) \in Nat
  BY DEF Histories
<1>2. \A U \in Seq(TurnSet) : Begins(U, StartTurn(U, e))
  <2> TAKE U \in Seq(TurnSet)
  <2> DEFINE begun == [prompt |-> IF e.text THEN e.id ELSE 0, items |-> <<>>]
  <2>1. begun \in TurnSet
    BY DEF TurnSet, RecordSet
  <2> HIDE DEF begun
  <2>2. /\ Len(Append(U, begun)) = Len(U) + 1 /\ Len(U) \in Nat
        /\ \A i \in 1..Len(U) : Append(U, begun)[i] = U[i]
    BY <2>1, AppendIs
  <2>3. Begins(U, Append(U, begun))
    BY <2>2 DEF Begins
  <2>4. QED
    BY <2>3 DEF StartTurn, begun
<1>3. CASE e.role = "user"
  <2> DEFINE D == ApplyToolResults(T, e)
  <2>1. D \in Seq(TurnSet) /\ Len(D) = Len(T) /\ (\A k \in 1..Len(T) : D[k].prompt = T[k].prompt)
    BY ResultPrompts
  <2>2. AddRecord(T, e) = IF e.text THEN StartTurn(D, e) ELSE D
    BY <1>3 DEF AddRecord
  <2>3. Begins(D, StartTurn(D, e))
    BY <1>2, <2>1
  <2> HIDE DEF D
  <2>4. QED
    BY <1>1, <2>1, <2>2, <2>3 DEF Begins
<1>4. CASE e.role = "assistant"
  <2> DEFINE B == IF T = <<>> THEN StartTurn(T, e) ELSE T
             more == AssistantItems(e)
             new == [B EXCEPT ![Len(B)].items = @ \o more]
  <2>1. AddRecord(T, e) = new
    BY <1>4 DEF AddRecord
  <2>2. more \in Seq(ItemSet)
    BY AssistantFold
  <2>3. B \in Histories /\ B # <<>> /\ Begins(T, B)
    <3>1. CASE T = <<>>
      <4>1. StartTurn(T, e) \in Histories /\ Begins(T, StartTurn(T, e))
        BY <1>1, <1>2, StartTypes
      <4>2. StartTurn(T, e) # <<>>
        <5>1. [prompt |-> IF e.text THEN e.id ELSE 0, items |-> <<>>] \in TurnSet
          BY DEF TurnSet, RecordSet
        <5>2. QED
          BY <1>1, <5>1, AppendIs DEF StartTurn
      <4>3. QED
        BY <3>1, <4>1, <4>2
    <3>2. CASE T # <<>>
      BY <1>1, <3>2 DEF Begins
    <3>3. QED
      BY <3>1, <3>2
  <2> HIDE DEF B, more
  <2>4. Len(new) = Len(B) /\ \A k \in 1..Len(B) : new[k].prompt = B[k].prompt
    BY <2>2, <2>3, SaidTypes
  <2> HIDE DEF new
  <2>5. Len(B) \in Nat
    BY <2>3 DEF Histories
  <2>6. QED
    BY <1>1, <2>1, <2>3, <2>4, <2>5 DEF Begins
<1>5. QED
  BY <1>3, <1>4 DEF RecordSet

LEMMA RawBegins ==
  ASSUME NEW recs \in Seq(RecordSet)
  PROVE  \A n \in 0..Len(recs) : Begins(Raw(SubSeq(recs, 1, n)), Raw(recs))
<1> DEFINE P(s) == \A n \in 0..Len(s) : Begins(Raw(SubSeq(s, 1, n)), Raw(s))
           S == {s \in Seq(RecordSet) : P(s)}
<1>1. <<>> \in S
  <2>1. <<>> \in Seq(RecordSet) /\ Len(<<>>) = 0 /\ SubSeq(<<>>, 1, 0) = <<>>
    OBVIOUS
  <2>2. Raw(<<>>) = <<>>
    BY <2>1, RecordsFoldLaw
  <2>3. Begins(<<>>, <<>>)
    BY <2>1 DEF Begins
  <2>4. \A n \in 0..0 : n = 0
    OBVIOUS
  <2>5. QED
    BY <2>1, <2>2, <2>3, <2>4
<1>2. ASSUME NEW s \in Seq(RecordSet), s \in S, NEW e \in RecordSet PROVE Append(s, e) \in S
  <2> DEFINE a == Append(s, e)
  <2>1. a \in Seq(RecordSet) /\ Len(a) = Len(s) + 1 /\ Len(s) \in Nat
    BY AppendIs
  <2>2. Raw(a) = AddRecord(Raw(s), e) /\ Raw(s) \in Histories
    BY RecordsFoldLaw
  <2>3. Begins(Raw(s), Raw(a))
    BY <2>2, AddBegins
  <2>4. ASSUME NEW n \in 0..Len(s) PROVE Begins(Raw(SubSeq(a, 1, n)), Raw(a))
    <3>1. SubSeq(a, 1, n) = SubSeq(s, 1, n) /\ SubSeq(s, 1, n) \in Seq(RecordSet)
      BY <2>1, SubSeqAppend
    <3>2. Begins(Raw(SubSeq(s, 1, n)), Raw(s))
      BY <1>2
    <3> DEFINE p == SubSeq(s, 1, n)
    <3>3. Raw(p) \in Seq(TurnSet) /\ Raw(s) \in Seq(TurnSet) /\ Raw(a) \in Seq(TurnSet)
      BY <2>1, <3>1, RecordsFoldLaw DEF Histories
    <3> HIDE DEF p, a
    <3>4. Begins(Raw(p), Raw(a))
      <4> DEFINE A == Raw(p)
                 B == Raw(s)
                 C == Raw(a)
      <4>1. Begins(A, B) /\ Begins(B, C)
        BY <2>3, <3>2 DEF p
      <4>2. Len(A) \in Nat /\ Len(B) \in Nat /\ Len(C) \in Nat
        BY <3>3
      <4> HIDE DEF A, B, C
      <4>3. Begins(A, C)
        BY <4>1, <4>2 DEF Begins
      <4>4. QED
        BY <4>3 DEF A, C
    <3>5. QED
      BY <3>1, <3>4 DEF p
  <2>5. Begins(Raw(SubSeq(a, 1, Len(a))), Raw(a))
    <3>1. SubSeq(a, 1, Len(a)) = a
      <4> HIDE DEF a
      <4>1. QED
        BY <2>1
    <3>2. Raw(a) \in Seq(TurnSet)
      BY <2>1, RecordsFoldLaw DEF Histories
    <3> HIDE DEF a
    <3>3. Begins(Raw(a), Raw(a))
      <4> DEFINE C == Raw(a)
      <4>1. Len(C) \in Nat
        BY <3>2
      <4> HIDE DEF C
      <4>2. Begins(C, C)
        BY <4>1 DEF Begins
      <4>3. QED
        BY <4>2 DEF C
    <3>4. QED
      BY <3>1, <3>3
  <2>6. \A n \in 0..Len(a) : n \in 0..Len(s) \/ n = Len(a)
    <3> HIDE DEF a
    <3>1. QED
      BY <2>1
  <2>7. QED
    BY <2>1, <2>4, <2>5, <2>6
<1>3. Seq(RecordSet) \subseteq S
  <2> HIDE DEF S
  <2>1. QED
    BY <1>1, <1>2, SeqInduction
<1>4. QED
  BY <1>3

LEMMA HistoryBegins ==
  ASSUME NEW recs \in Seq(RecordSet), WellFormed(recs), NEW n \in 0..Len(recs)
  PROVE  /\ HistoryTurns(recs) \in Seq(TurnSet)
         /\ HistoryTurns(SubSeq(recs, 1, n)) \in Seq(TurnSet)
         /\ Begins(HistoryTurns(SubSeq(recs, 1, n)), HistoryTurns(recs))
<1> DEFINE p == SubSeq(recs, 1, n)
<1>1. p \in Seq(RecordSet) /\ Len(p) = n /\ n \in Nat /\ Len(recs) \in Nat
  OBVIOUS
<1>2. \A i \in 1..n : p[i] = recs[i] /\ i \in 1..Len(recs)
  OBVIOUS
<1>3. Begins(Raw(p), Raw(recs))
  BY RawBegins
<1> HIDE DEF p
<1>4. WellFormed(p)
  BY <1>1, <1>2 DEF WellFormed
<1> DEFINE T == Raw(p)
           y == Skipped(T)
           U == Raw(recs)
           z == Skipped(U)
<1>5. T = Raw(p) /\ y = Skipped(T) /\ U = Raw(recs) /\ z = Skipped(U) /\ Begins(T, U)
  BY <1>3
<1>6. y = (IF T # <<>> /\ T[1].prompt = 0 THEN 1 ELSE 0) /\ z = (IF U # <<>> /\ U[1].prompt = 0 THEN 1 ELSE 0)
  BY DEF Skipped
<1> HIDE DEF T, U, y, z
<1>7. /\ T \in Seq(TurnSet) /\ Len(T) \in Nat /\ y \in {0, 1} /\ Len(T) - y \in Nat
      /\ HistoryTurns(p) = [i \in 1..(Len(T) - y) |-> T[i + y]]
      /\ \A k \in 1..(Len(T) - y) : k + y \in 1..Len(T) /\ T[k + y] \in TurnSet
  BY <1>1, <1>4, <1>5, HistoryShown
<1>8. /\ U \in Seq(TurnSet) /\ Len(U) \in Nat /\ z \in {0, 1} /\ Len(U) - z \in Nat
      /\ HistoryTurns(recs) = [i \in 1..(Len(U) - z) |-> U[i + z]]
      /\ \A k \in 1..(Len(U) - z) : k + z \in 1..Len(U) /\ U[k + z] \in TurnSet
  BY <1>5, HistoryShown
<1> DEFINE h == HistoryTurns(p)
           w == HistoryTurns(recs)
<1> HIDE DEF h, w
<1>9. h \in Seq(TurnSet) /\ Len(h) = Len(T) - y /\ \A i \in 1..Len(h) : h[i] = T[i + y]
  BY <1>7 DEF h
<1>10. w \in Seq(TurnSet) /\ Len(w) = Len(U) - z /\ \A i \in 1..Len(w) : w[i] = U[i + z]
  BY <1>8 DEF w
<1>11. CASE Len(T) = 0
  <2>1. Len(h) = 0
    BY <1>7, <1>9, <1>11
  <2>2. Begins(h, w)
    BY <1>8, <1>10, <2>1 DEF Begins
  <2>3. QED
    BY <1>9, <1>10, <2>2 DEF h, w, p
<1>12. CASE Len(T) # 0
  <2>1. T # <<>> /\ U # <<>> /\ T[1].prompt = U[1].prompt /\ Len(T) <= Len(U)
    <3>1. Len(T) <= Len(U) /\ \A i \in 1..Len(T) : T[i].prompt = U[i].prompt
      BY <1>5 DEF Begins
    <3>2. T # <<>> /\ U # <<>>
      BY <1>7, <1>8, <1>12, <3>1
    <3>3. 1 \in 1..Len(T)
      BY <1>7, <1>12
    <3>4. QED
      BY <3>1, <3>2, <3>3
  <2>2. y = z
    BY <1>6, <2>1
  <2>3. Len(h) <= Len(w)
    BY <1>7, <1>8, <1>9, <1>10, <2>1, <2>2
  <2>4. ASSUME NEW i \in 1..Len(h) PROVE h[i].prompt = w[i].prompt
    <3>1. i + y \in 1..Len(T) /\ h[i] = T[i + y]
      BY <1>7, <1>9
    <3>2. i \in 1..Len(w)
      BY <1>7, <1>8, <1>9, <1>10, <2>3
    <3>3. w[i] = U[i + y]
      BY <1>10, <2>2, <3>2
    <3>4. T[i + y].prompt = U[i + y].prompt
      BY <1>5, <3>1 DEF Begins
    <3>5. QED
      BY <3>1, <3>3, <3>4
  <2>5. Begins(h, w)
    BY <2>3, <2>4 DEF Begins
  <2>6. QED
    BY <1>9, <1>10, <2>5 DEF h, w, p
<1>13. QED
  BY <1>11, <1>12

\* A page at a cursor.
PageSet == [page : Seq(TurnSet), next : Int]

LEMMA PageLimitIs == ASSUME NEW limit \in Limits PROVE PageLimit(limit) \in Nat \ {0}
<1>1. DefaultPage \in Nat \ {0} /\ LargestPage \in Nat \ {0} /\ limit \in Int
  BY HistoryConstants
<1>2. QED
  BY <1>1 DEF PageLimit, Greatest, Least

LEMMA PageIs ==
  ASSUME NEW turns \in Seq(TurnSet), NEW limit \in Nat \ {0}, NEW cursor \in Int
  PROVE  LET end  == PageEnd(Len(turns), cursor)
             read == PageTurns(turns, limit, cursor)
         IN /\ read \in PageSet
            /\ \E start \in 0..end :
                 /\ start = 0 \/ start < end
                 /\ read.next = IF start = 0 THEN -1 ELSE start
                 /\ Len(read.page) = end - start
                 /\ \A i \in 1..(end - start) : read.page[i] = turns[start + i]
<1> DEFINE n == Len(turns)
           stop == PageEnd(n, cursor)
           start == PageStart(n, limit, cursor)
           page == SubSeq(turns, start + 1, stop)
<1>1. n \in Nat
  OBVIOUS
<1> HIDE DEF n
<1>2. stop \in 0..n
  BY <1>1 DEF PageEnd, Greatest, Least
<1>3. start = IF stop - limit > 0 THEN stop - limit ELSE 0
  <2> HIDE DEF stop
  <2>1. QED
    BY <1>2 DEF PageStart, Greatest, stop
<1> HIDE DEF stop, start
<1>4. start \in 0..stop /\ (start = 0 \/ start < stop)
  BY <1>2, <1>3
<1>5. page \in Seq(TurnSet) /\ Len(page) = stop - start /\ \A i \in 1..(stop - start) : page[i] = turns[start + i]
  BY <1>1, <1>2, <1>4 DEF n
<1> HIDE DEF page
<1>6. PageTurns(turns, limit, cursor) = [page |-> page, next |-> IF start > 0 THEN start ELSE -1]
  BY DEF PageTurns, page, start, stop, n
<1> DEFINE read == PageTurns(turns, limit, cursor)
<1>7. read.next = (IF start = 0 THEN -1 ELSE start) /\ read.page = page
  BY <1>2, <1>4, <1>6
<1>8. read \in PageSet
  BY <1>2, <1>4, <1>5, <1>6 DEF PageSet
<1> HIDE DEF read
<1>9. \E st \in 0..stop :
        /\ st = 0 \/ st < stop
        /\ read.next = IF st = 0 THEN -1 ELSE st
        /\ Len(read.page) = stop - st
        /\ \A i \in 1..(stop - st) : read.page[i] = turns[st + i]
  BY <1>4, <1>5, <1>7
<1>10. QED
  BY <1>8, <1>9 DEF n, stop, read

LEMMA PageAt ==
  ASSUME NEW turns \in Seq(TurnSet), NEW limit \in Nat \ {0}, NEW cursor \in Int, NEW end \in 0..Len(turns),
         (cursor = end /\ end # 0) \/ (cursor = -1 /\ end = Len(turns))
  PROVE  \E start \in 0..end :
           /\ start = 0 \/ start < end
           /\ PageTurns(turns, limit, cursor).next = IF start = 0 THEN -1 ELSE start
           /\ Len(PageTurns(turns, limit, cursor).page) = end - start
           /\ \A i \in 1..(end - start) : PageTurns(turns, limit, cursor).page[i] = turns[start + i]
<1>1. Len(turns) \in Nat
  OBVIOUS
<1> DEFINE stop == PageEnd(Len(turns), cursor)
           read == PageTurns(turns, limit, cursor)
<1>2. stop = end
  BY <1>1 DEF PageEnd, Greatest, Least
<1>3. \E start \in 0..stop :
        /\ start = 0 \/ start < stop
        /\ read.next = IF start = 0 THEN -1 ELSE start
        /\ Len(read.page) = stop - start
        /\ \A i \in 1..(stop - start) : read.page[i] = turns[start + i]
  BY PageIs, Zenon
<1> HIDE DEF stop, read
<1>4. \E start \in 0..end :
        /\ start = 0 \/ start < end
        /\ read.next = IF start = 0 THEN -1 ELSE start
        /\ Len(read.page) = end - start
        /\ \A i \in 1..(end - start) : read.page[i] = turns[start + i]
  BY <1>2, <1>3
<1>5. QED
  BY <1>4 DEF read

\* What the reader has after reading the page before.
Older(w, limit, got, k) ==
  IF got.next = -1 THEN got
  ELSE [page |-> PageTurns(w, limit, got.next).page \o got.page, next |-> PageTurns(w, limit, got.next).next]

\* After k more pages the reader has the turns of before from some place on, and has got
\* nearer to the first by k turns at least.
Covers(before, got, k) ==
  \E lo \in 0..Len(before) :
    /\ got.next = IF lo = 0 THEN -1 ELSE lo
    /\ lo # 0 => lo + k < Len(before)
    /\ Len(got.page) = Len(before) - lo
    /\ \A i \in 1..(Len(before) - lo) : got.page[i].prompt = before[lo + i].prompt

LEMMA FirstCovers ==
  ASSUME NEW before \in Seq(TurnSet), NEW limit \in Nat \ {0}
  PROVE  Covers(before, PageTurns(before, limit, -1), 0)
<1> DEFINE got == PageTurns(before, limit, -1)
<1>1. Len(before) \in 0..Len(before) /\ -1 \in Int
  OBVIOUS
<1>2. PICK start \in 0..Len(before) :
        /\ start = 0 \/ start < Len(before)
        /\ got.next = IF start = 0 THEN -1 ELSE start
        /\ Len(got.page) = Len(before) - start
        /\ \A i \in 1..(Len(before) - start) : got.page[i] = before[start + i]
  BY <1>1, PageAt
<1> HIDE DEF got
<1>3. Len(before) \in Nat /\ start \in Nat
  OBVIOUS
<1>4. start # 0 => start + 0 < Len(before)
  BY <1>2, <1>3
<1>5. \A i \in 1..(Len(before) - start) : got.page[i].prompt = before[start + i].prompt
  BY <1>2
<1>6. Covers(before, got, 0)
  BY <1>2, <1>4, <1>5 DEF Covers
<1>7. QED
  BY <1>6 DEF got

LEMMA OlderCovers ==
  ASSUME NEW before \in Seq(TurnSet), NEW w \in Seq(TurnSet), Begins(before, w), NEW limit \in Nat \ {0},
         NEW got \in PageSet, NEW k \in Nat, Covers(before, got, k), NEW x
  PROVE  Older(w, limit, got, x) \in PageSet /\ Covers(before, Older(w, limit, got, x), k + 1)
<1>1. PICK lo \in 0..Len(before) :
        /\ got.next = IF lo = 0 THEN -1 ELSE lo
        /\ lo # 0 => lo + k < Len(before)
        /\ Len(got.page) = Len(before) - lo
        /\ \A i \in 1..(Len(before) - lo) : got.page[i].prompt = before[lo + i].prompt
  BY DEF Covers
<1>2. Len(before) \in Nat /\ Len(w) \in Nat /\ Len(before) <= Len(w) /\ lo \in Nat
  BY DEF Begins
<1>3. CASE lo = 0
  <2>1. got.next = -1
    BY <1>1, <1>3
  <2>2. Older(w, limit, got, x) = got
    BY <2>1 DEF Older
  <2>3. Covers(before, got, k + 1)
    BY <1>1, <1>3 DEF Covers
  <2>4. QED
    BY <2>2, <2>3
<1>4. CASE lo # 0
  <2> DEFINE read == PageTurns(w, limit, got.next)
             is == Older(w, limit, got, x)
  <2>1. got.next = lo /\ got.next # -1 /\ lo \in 0..Len(w) /\ lo \in Int
    BY <1>1, <1>2, <1>4
  <2>2. read \in PageSet
    BY <2>1, PageIs
  <2>3. PICK start \in 0..lo :
          /\ start = 0 \/ start < lo
          /\ read.next = IF start = 0 THEN -1 ELSE start
          /\ Len(read.page) = lo - start
          /\ \A i \in 1..(lo - start) : read.page[i] = w[start + i]
    <3>1. read = PageTurns(w, limit, lo)
      BY <2>1
    <3>2. \E start \in 0..lo :
            /\ start = 0 \/ start < lo
            /\ PageTurns(w, limit, lo).next = IF start = 0 THEN -1 ELSE start
            /\ Len(PageTurns(w, limit, lo).page) = lo - start
            /\ \A i \in 1..(lo - start) : PageTurns(w, limit, lo).page[i] = w[start + i]
      <4>1. lo \in Int /\ lo \in 0..Len(w) /\ lo # 0
        BY <1>4, <2>1
      <4>2. QED
        BY <4>1, PageAt
    <3> HIDE DEF read
    <3>3. QED
      BY <3>1, <3>2
  <2> HIDE DEF read
  <2>4. is = [page |-> read.page \o got.page, next |-> read.next]
    BY <2>1 DEF Older, read
  <2>5. read.page \in Seq(TurnSet) /\ got.page \in Seq(TurnSet) /\ read.next \in Int
    BY <2>2 DEF PageSet
  <2> DEFINE p == read.page
             q == got.page
  <2>6. /\ p \o q \in Seq(TurnSet) /\ Len(p \o q) = Len(p) + Len(q)
        /\ \A i \in 1..(Len(p) + Len(q)) : (p \o q)[i] = IF i <= Len(p) THEN p[i] ELSE q[i - Len(p)]
    <3> HIDE DEF p, q
    <3>1. p \in Seq(TurnSet) /\ q \in Seq(TurnSet)
      BY <2>5 DEF p, q
    <3>2. QED
      BY <3>1
  <2>7. Len(p) = lo - start /\ Len(q) = Len(before) - lo
    BY <1>1, <2>3
  <2> HIDE DEF is
  <2>8. is.page = p \o q /\ is.next = read.next /\ is \in PageSet
    BY <2>4, <2>5, <2>6 DEF PageSet
  <2>9. Len(is.page) = Len(before) - start
    <3>1. Len(is.page) = Len(p) + Len(q)
      BY <2>6, <2>8
    <3> HIDE DEF p, q
    <3>2. (lo - start) + (Len(before) - lo) = Len(before) - start
      BY <1>2, <2>3
    <3>3. QED
      BY <2>7, <3>1, <3>2
  <2>10. ASSUME NEW i \in 1..(Len(before) - start) PROVE is.page[i].prompt = before[start + i].prompt
    <3>0. is.page[i] = IF i <= lo - start THEN p[i] ELSE q[i - (lo - start)]
      <4>1. i \in 1..(Len(p) + Len(q))
        BY <1>2, <2>3, <2>7
      <4>2. is.page[i] = IF i <= Len(p) THEN p[i] ELSE q[i - Len(p)]
        BY <2>6, <2>8, <4>1
      <4>3. QED
        BY <2>7, <4>2
    <3>1. CASE i <= lo - start
      <4>1. i \in 1..(lo - start) /\ start + i \in 1..Len(before)
        BY <1>2, <2>3, <3>1
      <4>2. is.page[i] = w[start + i]
        BY <2>3, <3>0, <3>1, <4>1
      <4>3. before[start + i].prompt = w[start + i].prompt
        BY <4>1 DEF Begins
      <4>4. QED
        BY <4>2, <4>3
    <3>2. CASE ~(i <= lo - start)
      <4>1. i - (lo - start) \in 1..(Len(before) - lo) /\ lo + (i - (lo - start)) = start + i
        BY <1>2, <2>3, <3>2
      <4>2. is.page[i] = q[i - (lo - start)]
        BY <3>0, <3>2
      <4>3. q[i - (lo - start)].prompt = before[lo + (i - (lo - start))].prompt
        BY <1>1, <4>1
      <4>4. QED
        BY <4>1, <4>2, <4>3
    <3>3. QED
      BY <3>1, <3>2
  <2>11. start \in 0..Len(before) /\ (start # 0 => start + (k + 1) < Len(before))
    BY <1>1, <1>2, <1>4, <2>3
  <2>12. Covers(before, is, k + 1)
    BY <2>3, <2>8, <2>9, <2>10, <2>11 DEF Covers
  <2>13. QED
    BY <2>8, <2>12 DEF is
<1>5. QED
  BY <1>3, <1>4

\* The pages that a reader collects, as a fold by a function.
Reading(w, limit) == [x \in PageSet \X TurnSet |-> Older(w, limit, x[1], x[2])]
ReadOlder(s, next, got, k) ==
  IF got.next = -1 THEN got
  ELSE LET read == ReadThreadHistory(s, next, got.next, TRUE)
       IN [page |-> read.page \o got.page, next |-> read.next]
ReadAll(s, next, first, before) == FoldLeft(LAMBDA got, k : ReadOlder(s, next, got, k), first, before)

LEMMA OlderTypes ==
  ASSUME NEW w \in Seq(TurnSet), NEW limit \in Nat \ {0}
  PROVE  Reading(w, limit) \in [PageSet \X TurnSet -> PageSet]
<1>1. ASSUME NEW got \in PageSet, NEW k PROVE Older(w, limit, got, k) \in PageSet
  <2>1. got.next \in Int /\ got.page \in Seq(TurnSet)
    BY DEF PageSet
  <2> DEFINE read == PageTurns(w, limit, got.next)
  <2>2. read \in PageSet
    BY <2>1, PageIs
  <2> HIDE DEF read
  <2>3. read.page \in Seq(TurnSet) /\ read.next \in Int
    BY <2>2 DEF PageSet
  <2>4. read.page \o got.page \in Seq(TurnSet)
    <3> DEFINE p == read.page
               q == got.page
    <3>1. p \in Seq(TurnSet) /\ q \in Seq(TurnSet)
      BY <2>1, <2>3
    <3> HIDE DEF p, q
    <3>2. p \o q \in Seq(TurnSet)
      BY <3>1
    <3>3. QED
      BY <3>2 DEF p, q
  <2>5. Older(w, limit, got, k) = IF got.next = -1 THEN got ELSE [page |-> read.page \o got.page, next |-> read.next]
    BY DEF Older, read
  <2>6. QED
    BY <2>3, <2>4, <2>5 DEF PageSet
<1>2. \A x \in PageSet \X TurnSet : Older(w, limit, x[1], x[2]) \in PageSet
  BY <1>1
<1>3. QED
  BY <1>2 DEF Reading

LEMMA ReadAllFold ==
  ASSUME NEW x, NEW next, NEW w \in Seq(TurnSet), w = LoadTurns(x, TRUE),
         NEW limit \in Nat \ {0}, limit = PageLimit(next), NEW first \in PageSet, NEW s \in Seq(TurnSet)
  PROVE  /\ ReadAll(x, next, first, s) = Fold(PageSet, TurnSet, Reading(w, limit), first, s)
         /\ Folding(PageSet, TurnSet, Reading(w, limit), first, s)
<1> DEFINE Eq(it) == it = [t \in SUBSET DOMAIN s |->
                             IF t = {} THEN first ELSE ReadOlder(x, next, it[t \ {Max(t)}], s[Max(t)])]
           it == CHOOSE f : Eq(f)
           d == Reading(w, limit)
<1>1. ReadAll(x, next, first, s) = it[DOMAIN s]
  BY DEF ReadAll, FoldLeft, MapThenFoldSet
<1>2. DOMAIN s = 1..Len(s)
  OBVIOUS
<1>3. Folding(PageSet, TurnSet, d, first, s)
  BY OlderTypes DEF Folding
<1>4. PICK g : Whole(g, PageSet, TurnSet, d, first, s)
  BY <1>3, FoldWhole
<1>5. \A got \in PageSet, k \in TurnSet : d[<<got, k>>] = ReadOlder(x, next, got, k)
  BY DEF Reading, Older, ReadOlder, ReadThreadHistory
<1> HIDE DEF d
<1>6. Eq(g)
  <2>1. ASSUME NEW t \in SUBSET (1..Len(s)), t # {}
        PROVE  g[t] = ReadOlder(x, next, g[t \ {Max(t)}], s[Max(t)])
    BY <1>4, <1>5, <2>1 DEF Whole
  <2>2. QED
    BY <1>2, <1>4, <2>1 DEF Whole
<1>7. Eq(it)
  BY <1>6
<1> HIDE DEF it
<1>8. Chosen(it, PageSet, d, first, s)
  <2>1. ASSUME NEW t \in SUBSET (1..Len(s)), t # {}, it[t \ {Max(t)}] \in PageSet
        PROVE  it[t] = d[<<it[t \ {Max(t)}], s[Max(t)]>>]
    BY <1>2, <1>4, <1>5, <1>7, <2>1 DEF Whole
  <2>2. QED
    BY <1>2, <1>7, <2>1 DEF Chosen
<1> HIDE DEF Eq
<1>9. it[1..Len(s)] = Fold(PageSet, TurnSet, d, first, s)
  BY <1>3, <1>8, FoldChosen
<1>10. QED
  BY <1>1, <1>2, <1>3, <1>9 DEF d

\* Whatever comes after, a reader of a history gets all of it.
LEMMA ReadsAll ==
  ASSUME NEW before \in Seq(TurnSet), NEW w \in Seq(TurnSet), Begins(before, w),
         NEW limit \in Nat \ {0}, NEW x, NEW next, NEW nextLimit \in Nat \ {0},
         w = LoadTurns(x, TRUE), nextLimit = PageLimit(next), NEW all,
         all = ReadAll(x, next, PageTurns(before, limit, -1), before)
  PROVE  Given(all.page) = Given(before) /\ all.next = -1
<1> DEFINE first == PageTurns(before, limit, -1)
           d == Reading(w, nextLimit)
           n == Len(before)
<1>1. first \in PageSet /\ Covers(before, first, 0)
  <2>1. -1 \in Int
    OBVIOUS
  <2>2. first \in PageSet
    BY <2>1, PageIs
  <2>3. QED
    BY <2>2, FirstCovers
<1> HIDE DEF first
<1>2. Folding(PageSet, TurnSet, d, first, before) /\ all = Fold(PageSet, TurnSet, d, first, before)
  <2>0. w = LoadTurns(x, TRUE) /\ nextLimit = PageLimit(next) /\ nextLimit \in Nat \ {0}
    OBVIOUS
  <2>1. all = ReadAll(x, next, first, before)
    BY DEF first
  <2>2. /\ ReadAll(x, next, first, before) = Fold(PageSet, TurnSet, Reading(w, nextLimit), first, before)
        /\ Folding(PageSet, TurnSet, Reading(w, nextLimit), first, before)
    BY <1>1, <2>0, ReadAllFold
  <2>3. QED
    BY <2>1, <2>2
<1>3. \A got \in PageSet, k \in TurnSet : d[<<got, k>>] = Older(w, nextLimit, got, k)
  BY DEF Reading
<1> HIDE DEF d
<1>4. PICK g : Steps(g, PageSet, TurnSet, d, first, before)
  BY <1>2, FoldSteps
<1>5. n \in Nat /\ \A k \in 1..n : before[k] \in TurnSet
  OBVIOUS
<1>6. /\ g[0] = first /\ g[n] = all
      /\ \A k \in 1..n : g[k] = d[<<g[k - 1], before[k]>>]
      /\ \A k \in 0..n : g[k] \in PageSet
  BY <1>2, <1>4 DEF Steps
<1> HIDE DEF n
<1> DEFINE P(k) == k <= n => Covers(before, g[k], k)
           T == {k \in Nat : P(k)}
<1>7. P(0)
  BY <1>1, <1>6
<1>8. ASSUME NEW k \in Nat, P(k) PROVE P(k + 1)
  <2> SUFFICES ASSUME k + 1 <= n PROVE Covers(before, g[k + 1], k + 1)
    OBVIOUS
  <2>1. k + 1 \in 1..n /\ k \in 0..n /\ (k + 1) - 1 = k
    BY <1>5
  <2>2. Covers(before, g[k], k) /\ g[k] \in PageSet
    BY <1>5, <1>6, <1>8, <2>1
  <2>3. g[k + 1] = Older(w, nextLimit, g[k], before[k + 1])
    <3>1. g[k + 1] = d[<<g[(k + 1) - 1], before[k + 1]>>]
      BY <1>6, <2>1
    <3>2. before[k + 1] \in TurnSet
      BY <1>5, <2>1
    <3>3. d[<<g[k], before[k + 1]>>] = Older(w, nextLimit, g[k], before[k + 1])
      BY <1>3, <2>2, <3>2
    <3>4. QED
      BY <2>1, <3>1, <3>3
  <2>4. Covers(before, Older(w, nextLimit, g[k], before[k + 1]), k + 1)
    BY <2>2, OlderCovers
  <2>5. QED
    BY <2>3, <2>4
<1>9. \A k \in Nat : P(k)
  <2> HIDE DEF P
  <2>1. 0 \in T /\ \A k \in Nat : k \in T => k + 1 \in T
    BY <1>7, <1>8
  <2>2. Nat \subseteq T
    <3> HIDE DEF T
    <3>1. QED
      BY <2>1, Induction
  <2>3. QED
    BY <2>2
<1>10. Covers(before, all, n)
  BY <1>5, <1>6, <1>9
<1>11. PICK lo \in 0..n :
         /\ all.next = IF lo = 0 THEN -1 ELSE lo
         /\ lo # 0 => lo + n < n
         /\ Len(all.page) = n - lo
         /\ \A i \in 1..(n - lo) : all.page[i].prompt = before[lo + i].prompt
  BY <1>10 DEF Covers, n
<1>12. lo = 0
  BY <1>5, <1>11
<1>13. all.next = -1 /\ Len(all.page) = n /\ \A i \in 1..n : all.page[i].prompt = before[i].prompt
  BY <1>5, <1>11, <1>12
<1>14. QED
  BY <1>13 DEF Given, n

\* The latest page, and later the pages before it while the transcript grows, give every
\* turn once and in order: PagesTile, for transcripts and pages of any size
\* (claude_agent_sdk.py:588-601, 761-781).
THEOREM PagesJoin == Spec => []PagesTile
<1>1. Init => Typed /\ Numbered
  BY TypedInit, NumberedInit
<1>2. Typed /\ Numbered /\ [Next]_vars => (Typed /\ Numbered)'
  BY TypedNext, NumberedNext
<1>3. ASSUME Typed, Numbered PROVE PagesTile
  <2>1. ASSUME NEW s \in Sessions, NEW n \in 1..Len(file[s]), NEW limit \in Limits, NEW next \in Limits
        PROVE  LET before == HistoryTurns(SubSeq(file[s], 1, n))
                   all == ReadAll(s, next, PageTurns(before, PageLimit(limit), -1), before)
               IN Given(all.page) = Given(before) /\ all.next = -1
    <3> DEFINE w == HistoryTurns(file[s])
               before == HistoryTurns(SubSeq(file[s], 1, n))
               all == ReadAll(s, next, PageTurns(before, PageLimit(limit), -1), before)
    <3>1. w = LoadTurns(s, TRUE)
      BY DEF LoadTurns, LoadMessages
    <3>2. file[s] \in Seq(RecordSet) /\ WellFormed(file[s])
      BY <1>3 DEF Typed, Numbered
    <3>3. n \in 0..Len(file[s])
      BY <3>2
    <3>4. before \in Seq(TurnSet) /\ w \in Seq(TurnSet) /\ Begins(before, w)
      BY <3>2, <3>3, HistoryBegins
    <3>5. PageLimit(limit) \in Nat \ {0} /\ PageLimit(next) \in Nat \ {0}
      BY PageLimitIs
    <3> HIDE DEF w, before
    <3>6. Given(all.page) = Given(before) /\ all.next = -1
      BY <3>1, <3>4, <3>5, ReadsAll
    <3>7. QED
      BY <3>6 DEF before
  <2>2. QED
    BY <2>1, Zenon DEF PagesTile, ReadAll, ReadOlder
<1>4. QED
  BY <1>1, <1>2, <1>3, PTL DEF Spec
------------------------------------------------------------------------------
(* The elements of sequences                                               *)

LEMMA ElementsOf ==
  ASSUME NEW E, NEW s \in Seq(E)
  PROVE  /\ ToSet(s) = {s[i] : i \in 1..Len(s)} /\ ToSet(s) \subseteq E
         /\ \A e : Contains(s, e) <=> e \in ToSet(s)
         /\ (ToSet(s) = {} => s = <<>>)
<1>1. DOMAIN s = 1..Len(s) /\ Len(s) \in Nat /\ \A i \in 1..Len(s) : s[i] \in E
  OBVIOUS
<1>2. ToSet(s) = {s[i] : i \in 1..Len(s)}
  BY <1>1 DEF ToSet
<1>3. \A e : Contains(s, e) <=> e \in ToSet(s)
  BY <1>2 DEF Contains
<1>4. ASSUME ToSet(s) = {} PROVE s = <<>>
  <2>1. Len(s) = 0
    <3>1. 1 \notin 1..Len(s)
      BY <1>2, <1>4
    <3>2. QED
      BY <1>1, <3>1
  <2>2. QED
    BY <2>1
<1>5. QED
  BY <1>1, <1>2, <1>3, <1>4

LEMMA ElementsOfNone == ToSet(<<>>) = {}
  BY DEF ToSet

LEMMA ElementsOfAppend ==
  ASSUME NEW E, NEW s \in Seq(E), NEW e \in E
  PROVE  ToSet(Append(s, e)) = ToSet(s) \cup {e}
<1>1. Append(s, e) \in Seq(E) /\ Len(Append(s, e)) = Len(s) + 1
  OBVIOUS
<1>2. ToSet(Append(s, e)) = {Append(s, e)[i] : i \in 1..(Len(s) + 1)}
  BY <1>1, ElementsOf
<1>3. ToSet(s) = {s[i] : i \in 1..Len(s)}
  BY ElementsOf
<1>4. Len(s) \in Nat /\ Append(s, e)[Len(s) + 1] = e /\ \A i \in 1..Len(s) : Append(s, e)[i] = s[i]
  OBVIOUS
<1>5. QED
  BY <1>2, <1>3, <1>4

LEMMA ElementsOfCat ==
  ASSUME NEW E, NEW s \in Seq(E), NEW t \in Seq(E)
  PROVE  s \o t \in Seq(E) /\ ToSet(s \o t) = ToSet(s) \cup ToSet(t)
<1> DEFINE c == s \o t
<1>1. /\ c \in Seq(E) /\ Len(c) = Len(s) + Len(t) /\ Len(s) \in Nat /\ Len(t) \in Nat
      /\ \A i \in 1..Len(s) : c[i] = s[i]
      /\ \A i \in 1..Len(t) : c[Len(s) + i] = t[i]
  OBVIOUS
<1> HIDE DEF c
<1>2. /\ ToSet(c) = {c[i] : i \in 1..Len(c)} /\ ToSet(s) = {s[i] : i \in 1..Len(s)}
      /\ ToSet(t) = {t[i] : i \in 1..Len(t)}
  <2>1. \A q \in Seq(E) : ToSet(q) = {q[i] : i \in 1..Len(q)}
    BY ElementsOf
  <2>2. c \in Seq(E)
    BY <1>1
  <2>3. QED
    BY <2>1, <2>2
<1>3. ASSUME NEW i \in 1..Len(c) PROVE c[i] \in ToSet(s) \cup ToSet(t)
  <2>1. CASE i <= Len(s)
    BY <1>1, <1>2, <2>1
  <2>2. CASE ~(i <= Len(s))
    <3>1. i - Len(s) \in 1..Len(t) /\ Len(s) + (i - Len(s)) = i
      BY <1>1, <2>2
    <3>2. QED
      BY <1>1, <1>2, <3>1
  <2>3. QED
    BY <2>1, <2>2
<1>4. ASSUME NEW i \in 1..Len(t) PROVE t[i] \in ToSet(c)
  <2>1. Len(s) + i \in 1..Len(c)
    BY <1>1
  <2>2. QED
    BY <1>1, <1>2, <2>1
<1>5. ASSUME NEW i \in 1..Len(s) PROVE s[i] \in ToSet(c)
  BY <1>1, <1>2
<1>6. ToSet(c) = ToSet(s) \cup ToSet(t)
  BY <1>2, <1>3, <1>4, <1>5
<1>7. QED
  BY <1>1, <1>6 DEF c

\* The elements of a set in some order.
LEMMA ElementsOfSet ==
  ASSUME NEW S, IsFiniteSet(S)
  PROVE  SetToSeq(S) \in Seq(S) /\ ToSet(SetToSeq(S)) = S
<1> DEFINE n == Cardinality(S)
<1>1. n \in Nat /\ ExistsBijection(1..n, S)
  BY FS_CardinalityType
<1>2. PICK f \in [1..n -> S] : /\ \A a, b \in 1..n : f[a] = f[b] => a = b
  BY <1>1 DEF ExistsBijection, Bijection, Injection, IsInjective
<1>3. \E g \in [1..n -> S] : IsInjective(g)
  BY <1>2 DEF IsInjective
<1> DEFINE q == SetToSeq(S)
<1>4. q \in [1..n -> S] /\ IsInjective(q)
  BY <1>3 DEF SetToSeq
<1> HIDE DEF q
<1>5. q \in Injection(1..n, S)
  BY <1>4 DEF Injection
<1>6. IsFiniteSet(1..n) /\ Cardinality(1..n) = n
  BY <1>1, FS_Interval
<1>7. q \in Surjection(1..n, S)
  BY <1>5, <1>6, FS_Injection
<1>8. \A e \in S : \E i \in 1..n : q[i] = e
  BY <1>7 DEF Surjection
<1>9. q \in Seq(S) /\ DOMAIN q = 1..n
  BY <1>1, <1>4
<1>10. ToSet(q) = S
  BY <1>4, <1>8, <1>9 DEF ToSet
<1>11. QED
  BY <1>9, <1>10 DEF q
------------------------------------------------------------------------------
(* What a message sends, and what a record shows                           *)

\* The items that are sent of the blocks of a message, after those that were.
Streamed(old, id, blocks) == FoldLeft(LAMBDA out, b : out \o Event(b, id), old, blocks)
EventsOf(id, blocks)      == UNION {ToSet(Event(b, id)) : b \in blocks}
Streaming(id)             == [x \in Seq(ItemSet) \X Blocks |-> x[1] \o Event(x[2], id)]

LEMMA EventTypes ==
  ASSUME NEW id \in Nat, NEW b \in Blocks
  PROVE  /\ Event(b, id) \in Seq(ItemSet)
         /\ ToSet(Event(b, id)) = IF b = "auth" THEN {} ELSE
              {Item(CASE b = "text" -> "message" [] b = "thinking" -> "reasoning"
                      [] b = "bash" -> "command" [] OTHER -> "file", id,
                    IF b \in {"text", "thinking"} THEN "completed" ELSE "running")}
<1>1. \A x : ToSet(<<x>>) = {x}
  BY DEF ToSet
<1>2. \A x \in ItemSet : <<x>> \in Seq(ItemSet)
  OBVIOUS
<1>3. \A kind \in {"message", "reasoning", "command", "file"}, st \in {"running", "completed"} :
        Item(kind, id, st) \in ItemSet
  BY DEF Item, ItemSet
<1>4. <<>> \in Seq(ItemSet)
  OBVIOUS
<1> HIDE DEF Item, ItemSet
<1>5. CASE b = "text"
  BY <1>1, <1>2, <1>3, <1>5 DEF Event
<1>6. CASE b = "thinking"
  BY <1>1, <1>2, <1>3, <1>6 DEF Event
<1>7. CASE b = "bash"
  BY <1>1, <1>2, <1>3, <1>7 DEF Event
<1>8. CASE b = "edit"
  BY <1>1, <1>2, <1>3, <1>8 DEF Event
<1>9. CASE b = "auth"
  BY <1>4, <1>9, ElementsOfNone DEF Event
<1>10. QED
  BY <1>5, <1>6, <1>7, <1>8, <1>9 DEF Blocks

LEMMA StreamedFold ==
  ASSUME NEW old \in Seq(ItemSet), NEW id \in Nat, NEW blocks \in Seq(Blocks)
  PROVE  Streamed(old, id, blocks) = Fold(Seq(ItemSet), Blocks, Streaming(id), old, blocks)
<1> DEFINE V == Seq(ItemSet)
           d == Streaming(id)
           Eq(it) == it = [t \in SUBSET DOMAIN blocks |->
                             IF t = {} THEN old ELSE it[t \ {Max(t)}] \o Event(blocks[Max(t)], id)]
           it == CHOOSE f : Eq(f)
<1>1. Streamed(old, id, blocks) = it[DOMAIN blocks]
  BY DEF Streamed, FoldLeft, MapThenFoldSet
<1>2. DOMAIN blocks = 1..Len(blocks)
  OBVIOUS
<1>3. Folding(V, Blocks, d, old, blocks)
  <2>1. \A out \in Seq(ItemSet), b \in Blocks : out \o Event(b, id) \in Seq(ItemSet)
    BY EventTypes
  <2>2. \A x \in Seq(ItemSet) \X Blocks : x[1] \o Event(x[2], id) \in Seq(ItemSet)
    BY <2>1
  <2>3. QED
    BY <2>2 DEF Folding, Streaming
<1>4. PICK g : Whole(g, V, Blocks, d, old, blocks)
  BY <1>3, FoldWhole
<1>5. Eq(g)
  <2>1. ASSUME NEW t \in SUBSET (1..Len(blocks)), t # {}
        PROVE  g[t] = g[t \ {Max(t)}] \o Event(blocks[Max(t)], id)
    BY <1>4, <2>1 DEF Streaming, Whole
  <2>2. QED
    BY <1>2, <1>4, <2>1 DEF Whole
<1>6. Eq(it)
  BY <1>5
<1> HIDE DEF it
<1>7. Chosen(it, V, d, old, blocks)
  <2>1. ASSUME NEW t \in SUBSET (1..Len(blocks)), t # {}, it[t \ {Max(t)}] \in V
        PROVE  it[t] = d[<<it[t \ {Max(t)}], blocks[Max(t)]>>]
    BY <1>2, <1>4, <1>6, <2>1 DEF Whole, Streaming
  <2>2. QED
    BY <1>2, <1>6, <2>1 DEF Chosen
<1> HIDE DEF Eq
<1>8. it[1..Len(blocks)] = Fold(V, Blocks, d, old, blocks)
  BY <1>3, <1>7, FoldChosen
<1>9. QED
  BY <1>1, <1>2, <1>8

LEMMA StreamedIs ==
  ASSUME NEW old \in Seq(ItemSet), NEW id \in Nat, NEW blocks \in Seq(Blocks)
  PROVE  /\ Streamed(old, id, blocks) \in Seq(ItemSet)
         /\ ToSet(Streamed(old, id, blocks)) = ToSet(old) \cup EventsOf(id, ToSet(blocks))
<1> DEFINE f(s) == Fold(Seq(ItemSet), Blocks, Streaming(id), old, s)
           P(s) == f(s) \in Seq(ItemSet) /\ ToSet(f(s)) = ToSet(old) \cup EventsOf(id, ToSet(s))
           S == {s \in Seq(Blocks) : P(s)}
<1>1. \A out \in Seq(ItemSet), b \in Blocks : out \o Event(b, id) \in Seq(ItemSet)
  BY EventTypes
<1>2. \A s \in Seq(Blocks) : Folding(Seq(ItemSet), Blocks, Streaming(id), old, s)
  <2>1. \A x \in Seq(ItemSet) \X Blocks : x[1] \o Event(x[2], id) \in Seq(ItemSet)
    BY <1>1
  <2>2. QED
    BY <2>1 DEF Folding, Streaming
<1>3. f(<<>>) = old
  <2>1. <<>> \in Seq(Blocks)
    OBVIOUS
  <2>2. QED
    BY <1>2, <2>1, FoldNothing
<1>4. ASSUME NEW s \in Seq(Blocks), NEW b \in Blocks
      PROVE  f(Append(s, b)) = Streaming(id)[<<f(s), b>>] /\ f(s) \in Seq(ItemSet)
  BY <1>2, FoldAppend, FoldTyped
<1> HIDE DEF f
<1>5. P(<<>>)
  BY <1>3, ElementsOfNone DEF EventsOf
<1>6. ASSUME NEW s \in Seq(Blocks), P(s), NEW b \in Blocks PROVE P(Append(s, b))
  <2>1. f(Append(s, b)) = f(s) \o Event(b, id)
    BY <1>4 DEF Streaming
  <2>2. Event(b, id) \in Seq(ItemSet)
    BY EventTypes
  <2>3. f(Append(s, b)) \in Seq(ItemSet) /\ ToSet(f(Append(s, b))) = ToSet(f(s)) \cup ToSet(Event(b, id))
    BY <1>6, <2>1, <2>2, ElementsOfCat
  <2>4. ToSet(Append(s, b)) = ToSet(s) \cup {b}
    BY ElementsOfAppend
  <2>5. EventsOf(id, ToSet(s) \cup {b}) = EventsOf(id, ToSet(s)) \cup ToSet(Event(b, id))
    BY DEF EventsOf
  <2>6. QED
    BY <1>6, <2>3, <2>4, <2>5
<1>7. \A s \in Seq(Blocks) : s \in S => \A b \in Blocks : Append(s, b) \in S
  <2>1. \A s \in Seq(Blocks), b \in Blocks : Append(s, b) \in Seq(Blocks)
    OBVIOUS
  <2> HIDE DEF P
  <2>2. QED
    BY <1>6, <2>1
<1>8. <<>> \in S
  BY <1>5
<1> HIDE DEF P
<1>9. Seq(Blocks) \subseteq S
  <2> HIDE DEF S
  <2>1. QED
    BY <1>7, <1>8, SeqInduction
<1>10. P(blocks)
  BY <1>9
<1>11. QED
  BY <1>10, StreamedFold DEF P, f

\* A record shows what its blocks are.
LEMMA ItemsShown ==
  ASSUME NEW rec \in RecordSet
  PROVE  ToSet(AssistantItems(rec)) = ItemsOf(rec)
<1> DEFINE E == ToSet(rec.blocks)
           V == Seq(ItemsOf(rec))
           f(s) == Fold(V, E, Showing(rec), FirstItems(rec), s)
           Had(s) == {Item("message", rec.id, "completed") : b \in E \cap {"text", "auth"}}
                     \cup {Item("reasoning", rec.id, "completed") : b \in ToSet(s) \cap {"thinking"}}
                     \cup {Item("command", rec.id, "completed") : b \in ToSet(s) \cap {"bash"}}
           P(s) == f(s) \in V /\ Had(s) \subseteq ToSet(f(s))
           S == {s \in Seq(E) : P(s)}
<1>1. Folding(V, E, Showing(rec), FirstItems(rec), rec.blocks)
  BY ShowingTypes
<1>2. \A s \in Seq(E) : Folding(V, E, Showing(rec), FirstItems(rec), s)
  BY <1>1 DEF Folding
<1>3. f(<<>>) = FirstItems(rec) /\ FirstItems(rec) \in V
  <2>1. <<>> \in Seq(E)
    OBVIOUS
  <2>2. QED
    BY <1>1, <1>2, <2>1, FoldNothing DEF Folding
<1>4. ASSUME NEW s \in Seq(E), NEW b \in E
      PROVE  f(Append(s, b)) = Showing(rec)[<<f(s), b>>] /\ f(s) \in V
  BY <1>2, FoldAppend, FoldTyped
<1> HIDE DEF f
<1>5. P(<<>>)
  <2>1. ToSet(FirstItems(rec)) = IF E \cap {"text", "auth"} = {} THEN {} ELSE {Item("message", rec.id, "completed")}
    BY DEF FirstItems, ToSet
  <2>2. QED
    BY <1>3, <2>1, ElementsOfNone
<1>6. ASSUME NEW s \in Seq(E), P(s), NEW b \in E PROVE P(Append(s, b))
  <2>1. f(Append(s, b)) = NextItems(f(s), b, rec)
    BY <1>4 DEF Showing
  <2>2. ToSet(Append(s, b)) = ToSet(s) \cup {b}
    BY ElementsOfAppend
  <2>3. CASE b = "bash"
    <3>1. Item("command", rec.id, "completed") \in ItemsOf(rec)
      BY <2>3 DEF ItemsOf
    <3> DEFINE i == Item("command", rec.id, "completed")
    <3>2. f(Append(s, b)) = Append(f(s), i)
      BY <2>1, <2>3 DEF NextItems
    <3> HIDE DEF i
    <3>3. f(Append(s, b)) \in V /\ ToSet(f(Append(s, b))) = ToSet(f(s)) \cup {i}
      <4>1. i \in ItemsOf(rec) /\ f(s) \in V
        BY <1>6, <3>1 DEF i
      <4>2. Append(f(s), i) \in V
        BY <4>1
      <4>3. QED
        BY <3>2, <4>1, <4>2, ElementsOfAppend
    <3>4. Had(Append(s, b)) \subseteq Had(s) \cup {i}
      BY <2>2, <2>3 DEF i
    <3> HIDE DEF Had
    <3>5. QED
      BY <1>6, <3>3, <3>4
  <2>4. CASE b = "thinking"
    <3>1. Item("reasoning", rec.id, "completed") \in ItemsOf(rec)
      BY <2>4 DEF ItemsOf
    <3> DEFINE i == Item("reasoning", rec.id, "completed")
    <3>2. f(Append(s, b)) = Append(f(s), i)
      BY <2>1, <2>4 DEF NextItems
    <3> HIDE DEF i
    <3>3. f(Append(s, b)) \in V /\ ToSet(f(Append(s, b))) = ToSet(f(s)) \cup {i}
      <4>1. i \in ItemsOf(rec) /\ f(s) \in V
        BY <1>6, <3>1 DEF i
      <4>2. Append(f(s), i) \in V
        BY <4>1
      <4>3. QED
        BY <3>2, <4>1, <4>2, ElementsOfAppend
    <3>4. Had(Append(s, b)) \subseteq Had(s) \cup {i}
      BY <2>2, <2>4 DEF i
    <3> HIDE DEF Had
    <3>5. QED
      BY <1>6, <3>3, <3>4
  <2>5. CASE b \notin {"bash", "thinking"}
    <3>1. f(Append(s, b)) = f(s)
      BY <2>1, <2>5 DEF NextItems
    <3>2. Had(Append(s, b)) = Had(s)
      BY <2>2, <2>5
    <3>3. QED
      BY <1>6, <3>1, <3>2
  <2>6. QED
    BY <2>3, <2>4, <2>5
<1>7. \A s \in Seq(E) : s \in S => \A b \in E : Append(s, b) \in S
  <2>1. \A s \in Seq(E), b \in E : Append(s, b) \in Seq(E)
    OBVIOUS
  <2> HIDE DEF P, E
  <2>2. QED
    BY <1>6, <2>1
<1>8. <<>> \in S
  BY <1>5
<1> HIDE DEF P
<1>9. Seq(E) \subseteq S
  <2> HIDE DEF S, E
  <2>1. QED
    BY <1>7, <1>8, SeqInduction
<1>10. P(rec.blocks)
  BY <1>1, <1>9 DEF Folding
<1>11. AssistantItems(rec) = f(rec.blocks) /\ AssistantItems(rec) \in Seq(ItemsOf(rec))
  BY AssistantFold DEF f
<1>12. Had(rec.blocks) = ItemsOf(rec)
  BY DEF ItemsOf
<1>13. ItemsOf(rec) \subseteq ToSet(AssistantItems(rec))
  BY <1>10, <1>11, <1>12 DEF P
<1>14. QED
  BY <1>11, <1>13, ElementsOf

\* What is said in a part of a transcript is what its records show.
LEMMA SaidShown ==
  ASSUME NEW part \in Seq(RecordSet)
  PROVE  ToSet(SaidIn(part)) = UNION {ItemsOf(x) : x \in {y \in ToSet(part) : y.role = "assistant"}}
<1> DEFINE All(s) == UNION {ItemsOf(x) : x \in {y \in ToSet(s) : y.role = "assistant"}}
           P(s) == ToSet(SaidIn(s)) = All(s)
           S == {s \in Seq(RecordSet) : P(s)}
<1>1. <<>> \in S
  <2>1. <<>> \in Seq(RecordSet)
    OBVIOUS
  <2>2. SaidIn(<<>>) = <<>>
    BY <2>1, SaidFoldLaw
  <2> HIDE DEF SaidIn
  <2>3. QED
    BY <2>1, <2>2, ElementsOfNone
<1>2. ASSUME NEW s \in Seq(RecordSet), P(s), NEW e \in RecordSet PROVE P(Append(s, e))
  <2>1. SaidIn(Append(s, e)) = Say(SaidIn(s), e) /\ SaidIn(s) \in Seq(ItemSet)
    BY SaidFoldLaw
  <2>2. ToSet(Append(s, e)) = ToSet(s) \cup {e}
    BY ElementsOfAppend
  <2>3. AssistantItems(e) \in Seq(ItemSet) /\ ToSet(AssistantItems(e)) = ItemsOf(e)
    BY AssistantFold, ItemsShown
  <2> HIDE DEF SaidIn, ItemsOf
  <2>4. CASE e.role = "assistant"
    <3>1. ToSet(SaidIn(s) \o AssistantItems(e)) = ToSet(SaidIn(s)) \cup ToSet(AssistantItems(e))
      BY <2>1, <2>3, ElementsOfCat
    <3> HIDE DEF AssistantItems
    <3>2. ToSet(SaidIn(Append(s, e))) = All(s) \cup ItemsOf(e)
      BY <1>2, <2>1, <2>3, <2>4, <3>1 DEF Say
    <3>3. All(Append(s, e)) = All(s) \cup ItemsOf(e)
      BY <2>2, <2>4
    <3>4. QED
      BY <3>2, <3>3
  <2>5. CASE e.role # "assistant"
    BY <1>2, <2>1, <2>2, <2>5 DEF Say
  <2>6. QED
    BY <2>4, <2>5
<1>3. \A s \in Seq(RecordSet) : s \in S => \A e \in RecordSet : Append(s, e) \in S
  <2>1. \A s \in Seq(RecordSet), e \in RecordSet : Append(s, e) \in Seq(RecordSet)
    OBVIOUS
  <2> HIDE DEF P
  <2>2. QED
    BY <1>2, <2>1
<1>4. Seq(RecordSet) \subseteq S
  <2> HIDE DEF S
  <2>1. QED
    BY <1>1, <1>3, SeqInduction
<1>5. QED
  BY <1>4
------------------------------------------------------------------------------
(* What was sent live, and what the history shows                          *)

\* The records of a session, those a run has still to map, and the items it has sent.
Filed(s)   == ToSet(file[s])
Waiting(r) == ToSet(stream[r])
SentBy(r)  == ToSet(live[r])

\* A run whose turn_id no other had while it was open.
Alone(r) == run[r].stage # "idle" /\ \A q \in Runs : <<r, q>> \notin met

\* Records, and what is named after them, are of the past, and a run reads its stream in
\* their order.
Upward(recs) == \A i, j \in 1..Len(recs) : i < j => recs[i].id < recs[j].id
Past ==
  /\ \A r \in Runs : run[r].prompt <= records /\ \A id \in run[r].mapped : id <= records
  /\ \A r \in Runs : run[r].stage = "idle" => run[r].mapped = {}
  /\ \A r \in Runs : Upward(stream[r]) /\ (~Running(r) => stream[r] = <<>>)
  /\ \A r \in Runs : \A m \in Waiting(r) : m.id <= records /\ m.id \notin run[r].mapped
  /\ live \in [Runs -> Seq(ItemSet)]
  /\ \A r \in Runs : \A y \in SentBy(r) : y.id <= records
  /\ toolUses \subseteq Turns \X Nat \X {"bash", "edit"} /\ \A u \in toolUses : u[2] <= records

\* What Claude says is no result, a result says nothing, and there is one per tool use.
OneRole(rec) == /\ rec.role = "user" => rec.blocks = <<>>
                /\ rec.role = "assistant" => rec.use = 0
Single(recs) == \A x, y \in recs : x.use # 0 /\ x.use = y.use => x = y
Forms ==
  /\ \A s \in Sessions : Single(Filed(s)) /\ \A x \in Filed(s) : OneRole(x)
  /\ \A r \in Runs : Single(Waiting(r))
  /\ \A r \in Runs : \A m \in Waiting(r) : /\ OneRole(m) /\ ~m.text /\ m.use < m.id
                                           /\ m.role = "user" => m.use # 0

\* A record of a stream is one of the file, unless that was deleted since.
SameRecord == \A s \in Sessions, r \in Runs : \A x \in Filed(s), m \in Waiting(r) : x.id = m.id => x = m
StillFiled ==
  \A r \in Runs : Running(r) =>
    \A x \in Filed(run[r].session), m \in Waiting(r) : x.id <= m.id => m \in Filed(run[r].session)

\* The kinds of the items that were sent, and of the tool uses, are those of the records.
Block(kind) == CASE kind = "message" -> "text" [] kind = "reasoning" -> "thinking" [] OTHER -> "bash"
KindsKept ==
  \A s \in Sessions : \A x \in Filed(s) :
    /\ \A u \in toolUses : u[2] = x.id => u[3] \in ToSet(x.blocks)
    /\ \A r \in Runs : \A y \in SentBy(r) : y.kind # "file" /\ y.id = x.id => Block(y.kind) \in ToSet(x.blocks)

\* What was mapped was sent.
Sent(r, rec) ==
  /\ \A b \in ToSet(rec.blocks) : ToSet(Event(b, rec.id)) \subseteq SentBy(r)
  /\ rec.use # 0 =>
       /\ \E kind \in {"command", "file"} : Item(kind, rec.use, Status(rec.error)) \in SentBy(r)
       /\ \A y \in Filed(run[r].session) :
            y.id = rec.use /\ "bash" \in ToSet(y.blocks) => Item("command", rec.use, Status(rec.error)) \in SentBy(r)
MappedSent ==
  \A r \in Runs : Alone(r) => \A x \in Filed(run[r].session) : x.id \in run[r].mapped => Sent(r, x)

\* The tool use of a result is in the table, or is mapped before it.
Awaits(r, id, b) ==
  <<run[r].turn, id, b>> \in toolUses \/ \E m \in Waiting(r) : m.id = id /\ b \in ToSet(m.blocks)
ResultsAwaited ==
  \A r \in Runs : Alone(r) /\ Running(r) =>
    \A m \in Waiting(r) : m.use # 0 =>
      /\ \E b \in {"bash", "edit"} : Awaits(r, m.use, b)
      /\ \A x \in Filed(run[r].session) : x.id = m.use /\ "bash" \in ToSet(x.blocks) => Awaits(r, m.use, "bash")

\* A tool use that has no result is in the table.
UsesAwait ==
  \A r \in Runs : Alone(r) /\ Running(r) =>
    \A x \in Filed(run[r].session) : \A b \in {"bash", "edit"} \cap ToSet(x.blocks) :
      x.id \in run[r].mapped =>
        <<run[r].turn, x.id, b>> \in toolUses \/ \E y \in Filed(run[r].session) : y.use = x.id

\* Unless another prompt came, the records of a run are between its prompt and the next,
\* and while it goes on its prompt is the last.
LastPrompt ==
  \A r \in Runs \ disturbed : Running(r) => \A x \in Filed(run[r].session) : x.text => x.id <= run[r].prompt
OwnTurn ==
  \A r \in Runs \ disturbed : \A id \in run[r].mapped \cup {m.id : m \in Waiting(r)} :
    /\ run[r].prompt < id
    /\ \A x \in Filed(run[r].session) : x.text /\ run[r].prompt < x.id => id < x.id


LiveInv ==
  /\ Typed /\ Numbered /\ Order /\ OpenHaveMet
  /\ Past /\ Forms /\ SameRecord /\ StillFiled /\ KindsKept
  /\ MappedSent /\ ResultsAwaited /\ UsesAwait /\ LastPrompt /\ OwnTurn

\* The items of a turn of the history are those of the records between two prompts.
Between(recs, first, last) == {y \in {recs[i] : i \in (first + 1)..last} : y.role = "assistant"}
ShownOf(recs, h, first, last) ==
  /\ first \in 1..Len(recs) /\ last \in 1..Len(recs) /\ first <= last /\ recs[first].id = h.prompt
  /\ last = Len(recs) \/ recs[last + 1].text
  /\ ToSet(h.items) = {Final(recs, item) : item \in UNION {ItemsOf(x) : x \in Between(recs, first, last)}}

LEMMA PartElements ==
  ASSUME NEW recs \in Seq(RecordSet), NEW first \in 1..Len(recs), NEW last \in 1..Len(recs), first <= last
  PROVE  /\ SubSeq(recs, first + 1, last) \in Seq(RecordSet)
         /\ ToSet(SubSeq(recs, first + 1, last)) = {recs[i] : i \in (first + 1)..last}
<1> DEFINE part == SubSeq(recs, first + 1, last)
           n == last - first
<1>1. n \in Nat /\ Len(recs) \in Nat
  OBVIOUS
<1>2. part \in Seq(RecordSet) /\ Len(part) = n /\ \A i \in 1..n : part[i] = recs[first + i]
  BY <1>1
<1> HIDE DEF part
<1>3. ToSet(part) = {part[i] : i \in 1..n}
  BY <1>2, ElementsOf
<1> HIDE DEF n
<1>4. ASSUME NEW i \in 1..n PROVE part[i] \in {recs[k] : k \in (first + 1)..last}
  <2>1. first + i \in (first + 1)..last
    BY <1>1 DEF n
  <2>2. QED
    BY <1>2, <2>1
<1>5. ASSUME NEW k \in (first + 1)..last PROVE recs[k] \in {part[i] : i \in 1..n}
  <2>1. k - first \in 1..n /\ first + (k - first) = k
    BY <1>1 DEF n
  <2>2. recs[k] = part[k - first]
    BY <1>2, <2>1
  <2>3. QED
    BY <2>1, <2>2
<1>6. ToSet(part) = {recs[k] : k \in (first + 1)..last}
  BY <1>3, <1>4, <1>5
<1>7. QED
  BY <1>2, <1>6 DEF part

LEMMA TurnShown ==
  ASSUME NEW recs \in Seq(RecordSet), WellFormed(recs), NEW h \in ToSet(HistoryTurns(recs))
  PROVE  \E first, last : ShownOf(recs, h, first, last)
<1> DEFINE H == HistoryTurns(recs)
           T == Raw(recs)
           n == Len(T) - Skipped(T)
<1>1. n \in Nat /\ H = [i \in 1..n |-> T[i + Skipped(T)]]
  BY HistoryShown
<1>2. DOMAIN H = 1..n /\ Len(H) = n
  BY <1>1
<1>3. WrittenAs(recs, H)
  BY HistoryWritten
<1> HIDE DEF H, n
<1>4. PICK k \in 1..Len(H) : h = H[k]
  BY <1>2 DEF ToSet, H
<1>5. PICK first \in 1..Len(recs), last \in 1..Len(recs) :
        /\ first <= last /\ recs[first].id = h.prompt
        /\ last = Len(recs) \/ recs[last + 1].text
        /\ h.items = Answers(recs, SubSeq(recs, first + 1, last))
  BY <1>3, <1>4 DEF WrittenAs
<1> DEFINE part == SubSeq(recs, first + 1, last)
           said == SaidIn(part)
<1>6. part \in Seq(RecordSet) /\ ToSet(part) = {recs[i] : i \in (first + 1)..last}
  BY <1>5, PartElements
<1>7. h.items = Answers(recs, part)
  BY <1>5
<1> HIDE DEF part
<1>8. ToSet(said) = UNION {ItemsOf(x) : x \in Between(recs, first, last)}
  BY <1>6, SaidShown DEF Between
<1>9. h.items = [i \in 1..Len(said) |-> Final(recs, said[i])] /\ said \in Seq(ItemSet) /\ Len(said) \in Nat
  BY <1>6, <1>7, AnswersAre
<1> HIDE DEF said
<1>10. ToSet(h.items) = {Final(recs, said[i]) : i \in 1..Len(said)}
  BY <1>9 DEF ToSet
<1>11. ToSet(said) = {said[i] : i \in 1..Len(said)}
  BY <1>9, ElementsOf
<1>12. ToSet(h.items) = {Final(recs, item) : item \in ToSet(said)}
  BY <1>10, <1>11
<1>13. QED
  BY <1>5, <1>8, <1>12 DEF ShownOf

\* The result of a tool use decides how it ended, as there is one.
LEMMA OneOutcome ==
  ASSUME NEW recs \in Seq(RecordSet), WellFormed(recs), Single(ToSet(recs)),
         \A y \in ToSet(recs) : OneRole(y), NEW x \in ToSet(recs), x.use # 0
  PROVE  Outcome(recs, x.use) = Status(x.error)
<1> DEFINE R == ResultsFor(recs, x.use)
<1>1. ToSet(recs) = {recs[i] : i \in 1..Len(recs)} /\ ToSet(recs) \subseteq RecordSet
  BY ElementsOf
<1>2. PICK k \in 1..Len(recs) : recs[k] = x
  BY <1>1
<1>3. x.role = "user"
  BY <1>1 DEF OneRole, RecordSet
<1>4. k \in R /\ R \subseteq 1..Len(recs) /\ Len(recs) \in Nat
  BY <1>2, <1>3 DEF ResultsFor
<1>5. \A i \in R : recs[i] = x
  BY <1>1 DEF ResultsFor, Single
<1>6. Outcome(recs, x.use) = IF R = {} THEN "completed" ELSE Status(recs[Max(R)].error)
  BY DEF Outcome, ResultsFor
<1> HIDE DEF R
<1>7. Max(R) \in R
  BY <1>4, MaxIn
<1>8. QED
  BY <1>4, <1>5, <1>6, <1>7

\* Of a run that was alone in its turn_id, what is shown was sent.
LEMMA ShownWasSent ==
  ASSUME LiveInv, NEW r \in Runs, Alone(r), NEW recs, recs = file[run[r].session],
         NEW h \in ToSet(HistoryTurns(recs)), NEW item \in ToSet(h.items), item.id \in run[r].mapped
  PROVE  \/ item.kind # "command" /\ item \in SentBy(r)
         \/ item.kind = "message" /\ \E x \in ToSet(recs) : /\ x.id \in run[r].mapped /\ x.id = item.id
                                                            /\ Contains(x.blocks, "auth")
         \/ /\ item.kind = "command" /\ [item EXCEPT !.status = "running"] \in SentBy(r)
            /\ \A x \in ToSet(recs) : x.id \in run[r].mapped /\ x.use = item.id => item \in SentBy(r)
<1>1. run[r].session \in Sessions
  BY DEF LiveInv, Typed, Alone
<1>2. /\ recs \in Seq(RecordSet) /\ WellFormed(recs) /\ Filed(run[r].session) = ToSet(recs)
      /\ Single(ToSet(recs)) /\ \A y \in ToSet(recs) : OneRole(y)
  BY <1>1 DEF LiveInv, Typed, Numbered, Forms, Filed
<1>3. ToSet(recs) = {recs[i] : i \in 1..Len(recs)} /\ ToSet(recs) \subseteq RecordSet
  BY <1>2, ElementsOf
<1>4. PICK first, last : ShownOf(recs, h, first, last)
  BY <1>2, TurnShown
<1>5. PICK x \in Between(recs, first, last) : \E y \in ItemsOf(x) : item = Final(recs, y)
  BY <1>4 DEF ShownOf
<1>6. PICK y \in ItemsOf(x) : item = Final(recs, y)
  BY <1>5
<1>7. x \in ToSet(recs) /\ x \in RecordSet
  <2>1. \A i \in (first + 1)..last : i \in 1..Len(recs)
    BY <1>2, <1>4 DEF ShownOf
  <2>2. QED
    BY <1>3, <2>1 DEF Between
<1>8. y \in ItemSet /\ y.id = x.id /\ y.status = "completed" /\ y.kind \in {"message", "reasoning", "command"}
      /\ (y.kind = "message" => ToSet(x.blocks) \cap {"text", "auth"} # {})
      /\ (y.kind = "reasoning" => "thinking" \in ToSet(x.blocks))
      /\ (y.kind = "command" => "bash" \in ToSet(x.blocks))
      /\ y = Item(y.kind, x.id, "completed")
  <2>1. y \in ItemSet
    BY <1>7, ItemsOfTypes
  <2>2. QED
    BY <2>1, <1>7 DEF ItemsOf, Item
<1>9. x.blocks \in Seq(Blocks) /\ x.id \in Nat
  BY <1>7 DEF RecordSet
<1>10. item.kind = y.kind /\ item.id = y.id
  BY <1>6, <1>8 DEF Final, ItemSet
<1>11. Sent(r, x)
  BY <1>2, <1>7, <1>8, <1>10 DEF LiveInv, MappedSent
<1>12. \A b \in ToSet(x.blocks) : ToSet(Event(b, x.id)) \subseteq SentBy(r)
  BY <1>11 DEF Sent
<1>13. ToSet(x.blocks) \subseteq Blocks /\ \A e : Contains(x.blocks, e) <=> e \in ToSet(x.blocks)
  BY <1>9, ElementsOf
<1>14. CASE y.kind = "message" /\ "auth" \in ToSet(x.blocks)
  BY <1>7, <1>8, <1>10, <1>13, <1>14
<1>15. CASE y.kind = "message" /\ "auth" \notin ToSet(x.blocks)
  <2>1. "text" \in ToSet(x.blocks) /\ item = Item("message", x.id, "completed")
    BY <1>6, <1>8, <1>15 DEF Final
  <2>2. ToSet(Event("text", x.id)) = {Item("message", x.id, "completed")}
    BY <1>9, EventTypes DEF Blocks
  <2>3. item \in SentBy(r)
    BY <1>12, <2>1, <2>2
  <2>4. QED
    BY <1>10, <1>15, <2>3
<1>16. CASE y.kind = "reasoning"
  <2>1. "thinking" \in ToSet(x.blocks) /\ item = Item("reasoning", x.id, "completed")
    BY <1>6, <1>8, <1>16 DEF Final
  <2>2. ToSet(Event("thinking", x.id)) = {Item("reasoning", x.id, "completed")}
    BY <1>9, EventTypes DEF Blocks
  <2>3. item \in SentBy(r)
    BY <1>12, <2>1, <2>2
  <2>4. QED
    BY <1>10, <1>16, <2>3
<1>17. CASE y.kind = "command"
  <2>1. "bash" \in ToSet(x.blocks) /\ item = Item("command", x.id, Outcome(recs, x.id))
    BY <1>6, <1>8, <1>17 DEF Final, Item
  <2>2. ToSet(Event("bash", x.id)) = {Item("command", x.id, "running")}
    BY <1>9, EventTypes DEF Blocks
  <2>3. [item EXCEPT !.status = "running"] \in SentBy(r)
    <3>1. [item EXCEPT !.status = "running"] = Item("command", x.id, "running")
      BY <2>1 DEF Item
    <3>2. QED
      BY <1>12, <2>1, <2>2, <3>1
  <2>4. ASSUME NEW z \in ToSet(recs), z.id \in run[r].mapped, z.use = item.id PROVE item \in SentBy(r)
    <3>1. z.use = x.id /\ z.use # 0
      <4>1. x.id > 0
        BY <1>2, <1>3, <1>7 DEF WellFormed
      <4>2. QED
        BY <1>8, <1>10, <2>4, <4>1
    <3>2. Sent(r, z)
      BY <1>2, <2>4 DEF LiveInv, MappedSent
    <3>3. Item("command", z.use, Status(z.error)) \in SentBy(r)
      BY <1>2, <1>7, <2>1, <3>1, <3>2 DEF Sent
    <3>4. Outcome(recs, x.id) = Status(z.error)
      BY <1>2, <3>1, OneOutcome
    <3>5. QED
      BY <2>1, <3>1, <3>3, <3>4
  <2>5. QED
    BY <1>10, <1>17, <2>3, <2>4
<1>18. QED
  BY <1>8, <1>14, <1>15, <1>16, <1>17

\* Of a run in whose session no other prompt came, what was sent is shown.
LEMMA SentIsShown ==
  ASSUME LiveInv, NEW r \in Runs, Alone(r), r \notin disturbed, NEW recs, recs = file[run[r].session],
         NEW h \in ToSet(HistoryTurns(recs)), h.prompt = run[r].prompt,
         NEW y \in SentBy(r), y.kind # "file", NEW x \in ToSet(recs), x.id \in run[r].mapped, x.id = y.id
  PROVE  \E item \in ToSet(h.items) : item.kind = y.kind /\ item.id = y.id
<1>1. run[r].session \in Sessions
  BY DEF LiveInv, Typed, Alone
<1>2. /\ recs \in Seq(RecordSet) /\ WellFormed(recs) /\ Filed(run[r].session) = ToSet(recs)
      /\ OneRole(x)
  BY <1>1 DEF LiveInv, Typed, Numbered, Forms, Filed
<1>3. ToSet(recs) = {recs[i] : i \in 1..Len(recs)} /\ ToSet(recs) \subseteq RecordSet /\ Len(recs) \in Nat
  BY <1>2, ElementsOf
<1>4. PICK first, last : ShownOf(recs, h, first, last)
  BY <1>2, TurnShown
<1>5. PICK k \in 1..Len(recs) : recs[k] = x
  BY <1>3
<1>6. /\ run[r].prompt < x.id
      /\ \A z \in ToSet(recs) : z.text /\ run[r].prompt < z.id => x.id < z.id
  BY <1>2 DEF LiveInv, OwnTurn
<1>7. /\ first \in 1..Len(recs) /\ last \in 1..Len(recs) /\ first <= last /\ recs[first].id = h.prompt
      /\ last = Len(recs) \/ recs[last + 1].text
  BY <1>4 DEF ShownOf
<1>8. \A i \in 1..Len(recs) : recs[i].id \in Nat
  BY <1>3 DEF RecordSet
<1>9. \A i, j \in 1..Len(recs) : i < j => recs[i].id < recs[j].id
  BY <1>2 DEF WellFormed
<1>10. first < k
  <2>1. recs[first].id < recs[k].id
    BY <1>5, <1>6, <1>7
  <2>2. k # first /\ ~(k < first)
    BY <1>7, <1>8, <1>9, <2>1
  <2>3. QED
    BY <1>7, <2>2
<1>11. k <= last
  <2> SUFFICES ASSUME last < k PROVE FALSE
    BY <1>7
  <2>1. last + 1 \in 1..Len(recs) /\ recs[last + 1].text /\ first < last + 1 /\ ~(k < last + 1)
    BY <1>3, <1>7
  <2>2. recs[first].id < recs[last + 1].id
    BY <1>7, <1>9, <2>1
  <2>3. x.id < recs[last + 1].id
    BY <1>3, <1>6, <1>7, <2>1, <2>2
  <2>4. k = last + 1 \/ last + 1 < k
    BY <1>7, <2>1
  <2>5. QED
    BY <1>5, <1>8, <1>9, <2>1, <2>3, <2>4
<1>12. y \in ItemSet /\ x \in RecordSet
  <2>1. live[r] \in Seq(ItemSet)
    BY DEF LiveInv, Past
  <2>2. QED
    BY <1>3, <2>1, ElementsOf DEF SentBy
<1>13. Block(y.kind) \in ToSet(x.blocks)
  BY <1>1, <1>2 DEF LiveInv, KindsKept
<1>14. x.role = "assistant"
  <2>1. x.blocks # <<>>
    BY <1>13, ElementsOfNone
  <2>2. QED
    BY <1>2, <1>12, <2>1 DEF OneRole, RecordSet
<1>15. x \in Between(recs, first, last)
  <2>1. k \in (first + 1)..last
    BY <1>7, <1>10, <1>11
  <2>2. QED
    BY <1>5, <1>14, <2>1 DEF Between
<1>16. Item(y.kind, x.id, "completed") \in ItemsOf(x)
  <2>1. y.kind \in {"message", "reasoning", "command"}
    BY <1>12 DEF ItemSet
  <2>2. QED
    BY <1>13, <2>1 DEF Block, ItemsOf
<1> DEFINE i == Item(y.kind, x.id, "completed")
<1>17. Final(recs, i) \in ToSet(h.items)
  BY <1>4, <1>15, <1>16 DEF ShownOf
<1>18. Final(recs, i).kind = y.kind /\ Final(recs, i).id = x.id
  BY DEF Final, Item
<1>19. QED
  BY <1>17, <1>18

LEMMA LiveMatches == LiveInv => LiveMatchesHistory
<1> SUFFICES ASSUME LiveInv, NEW r \in Runs, Alone(r)
             PROVE  LET recs  == file[run[r].session]
                        sent  == SentBy(r)
                        mine  == {recs[i] : i \in {k \in 1..Len(recs) : recs[k].id \in run[r].mapped}}
                        shown == {h \in ToSet(HistoryTurns(recs)) : h.prompt = run[r].prompt}
                    IN /\ \A h \in shown : \A item \in ToSet(h.items) : item.id \in run[r].mapped =>
                            \/ item.kind # "command" /\ item \in sent
                            \/ item.kind = "message" /\ \E x \in mine : x.id = item.id /\ Contains(x.blocks, "auth")
                            \/ /\ item.kind = "command" /\ [item EXCEPT !.status = "running"] \in sent
                               /\ \A x \in mine : x.use = item.id => item \in sent
                       /\ \A x \in mine : x.use # 0 =>
                            \E y \in sent : y.kind \in {"command", "file"} /\ y.id = x.use /\ y.status = Status(x.error)
                       /\ r \notin disturbed =>
                            \A h \in shown, y \in sent : (y.kind # "file" /\ \E x \in mine : x.id = y.id) =>
                              \E item \in ToSet(h.items) : item.kind = y.kind /\ item.id = y.id
  BY DEF LiveMatchesHistory, Alone, SentBy
<1> DEFINE recs  == file[run[r].session]
           mine  == {recs[i] : i \in {k \in 1..Len(recs) : recs[k].id \in run[r].mapped}}
<1>1. recs \in Seq(RecordSet)
  BY DEF LiveInv, Typed, Alone
<1>2. recs = file[run[r].session] /\ Filed(run[r].session) = ToSet(recs)
  BY DEF Filed
<1> HIDE DEF recs
<1>3. mine = {x \in ToSet(recs) : x.id \in run[r].mapped}
  BY <1>1, ElementsOf
<1>4. \A h \in ToSet(HistoryTurns(recs)) : \A item \in ToSet(h.items) : item.id \in run[r].mapped =>
        \/ item.kind # "command" /\ item \in SentBy(r)
        \/ item.kind = "message" /\ \E x \in mine : x.id = item.id /\ Contains(x.blocks, "auth")
        \/ /\ item.kind = "command" /\ [item EXCEPT !.status = "running"] \in SentBy(r)
           /\ \A x \in mine : x.use = item.id => item \in SentBy(r)
  BY <1>2, <1>3, ShownWasSent
<1>5. ASSUME NEW x \in mine, x.use # 0
      PROVE  \E y \in SentBy(r) : y.kind \in {"command", "file"} /\ y.id = x.use /\ y.status = Status(x.error)
  <2>1. Sent(r, x)
    BY <1>2, <1>3, <1>5 DEF LiveInv, MappedSent
  <2>2. PICK kind \in {"command", "file"} : Item(kind, x.use, Status(x.error)) \in SentBy(r)
    BY <1>5, <2>1 DEF Sent
  <2>3. QED
    BY <2>2 DEF Item
<1>6. ASSUME r \notin disturbed, NEW h \in ToSet(HistoryTurns(recs)), h.prompt = run[r].prompt,
             NEW y \in SentBy(r), y.kind # "file", NEW x \in mine, x.id = y.id
      PROVE  \E item \in ToSet(h.items) : item.kind = y.kind /\ item.id = y.id
  BY <1>2, <1>3, <1>6, SentIsShown
<1> HIDE DEF mine
<1>7. QED
  BY <1>4, <1>5, <1>6 DEF recs, mine
------------------------------------------------------------------------------
(* Steps that write                                                        *)

\* The kinds of tool blocks.
Tools == {"bash", "edit"}

LEMMA WriteSets ==
  ASSUME Typed, NEW s \in Sessions, NEW rec \in RecordSet, Write(s, rec)
  PROVE  /\ records' = records + 1 /\ Filed(s)' = Filed(s) \cup {rec}
         /\ \A x \in Sessions \ {s} : Filed(x)' = Filed(x)
<1>1. records' = records + 1
  BY DEF Write
<1>2. file[s] \in Seq(RecordSet) /\ file'[s] = Append(file[s], rec) /\ \A x \in Sessions \ {s} : file'[x] = file[x]
  BY Appended DEF Typed
<1>3. ToSet(file'[s]) = ToSet(file[s]) \cup {rec}
  BY <1>2, ElementsOfAppend
<1>4. QED
  BY <1>1, <1>2, <1>3 DEF Filed

\* What is in the files, and in the streams.
LEMMA LiveFacts ==
  ASSUME LiveInv
  PROVE  /\ \A s \in Sessions : \A x \in Filed(s) : x \in RecordSet /\ x.id \in Nat \ {0} /\ x.id <= records
                                                    /\ x.use \in Nat /\ x.use < x.id
         /\ \A r \in Runs : \A m \in Waiting(r) : m \in RecordSet /\ m.id \in Nat /\ m.use \in Nat
         /\ records \in Nat /\ \A r \in Runs : run[r].mapped \subseteq Nat /\ run[r].prompt \in Nat
         /\ \A r \in Runs : SentBy(r) \subseteq ItemSet
         /\ \A r \in Runs : run[r].stage # "idle" => run[r].session \in Sessions
<1>1. ASSUME NEW s \in Sessions, NEW x \in Filed(s)
      PROVE  x \in RecordSet /\ x.id \in Nat \ {0} /\ x.id <= records /\ x.use \in Nat /\ x.use < x.id
  <2>1. file[s] \in Seq(RecordSet)
    BY DEF LiveInv, Typed
  <2>2. PICK i \in 1..Len(file[s]) : x = file[s][i]
    BY <2>1, ElementsOf DEF Filed
  <2>3. x \in RecordSet
    BY <2>1, <2>2
  <2>4. x.id > 0 /\ x.use < x.id /\ x.id <= records
    BY <2>2 DEF LiveInv, Numbered, WellFormed
  <2>5. QED
    BY <2>3, <2>4 DEF RecordSet
<1>2. ASSUME NEW r \in Runs, NEW m \in Waiting(r) PROVE m \in RecordSet /\ m.id \in Nat /\ m.use \in Nat
  <2>1. stream[r] \in Seq(RecordSet)
    BY DEF LiveInv, Typed
  <2>2. m \in RecordSet
    BY <2>1, ElementsOf DEF Waiting
  <2>3. QED
    BY <2>2 DEF RecordSet
<1>3. records \in Nat /\ \A r \in Runs : run[r].mapped \subseteq Nat /\ run[r].prompt \in Nat
  BY DEF LiveInv, Typed, RunSet
<1>4. ASSUME NEW r \in Runs PROVE SentBy(r) \subseteq ItemSet
  <2>1. live[r] \in Seq(ItemSet)
    BY DEF LiveInv, Past
  <2>2. QED
    BY <2>1, ElementsOf DEF SentBy
<1>5. \A r \in Runs : run[r].stage # "idle" => run[r].session \in Sessions
  BY DEF LiveInv, Typed
<1>6. QED
  BY <1>1, <1>2, <1>3, <1>4, <1>5

\* A tool that runs: its use is a record of the file, was mapped or is to be, and has no
\* result yet.
LEMMA OpenUse ==
  ASSUME LiveInv, NEW r \in Runs, Running(r), NEW u \in OpenUses(r)
  PROVE  /\ u \in Nat \ {0} /\ u <= records
         /\ \E x \in Filed(run[r].session) : x.id = u /\ \E b \in Tools : b \in ToSet(x.blocks)
         /\ u \in run[r].mapped \/ \E m \in Waiting(r) : m.id = u
         /\ \A y \in Filed(run[r].session) : y.use # u
         /\ \A m \in Waiting(r) : m.use # u
<1> DEFINE recs == file[run[r].session]
<1>1. run[r].session \in Sessions /\ recs \in Seq(RecordSet) /\ stream[r] \in Seq(RecordSet)
  BY DEF LiveInv, Typed, Running
<1>2. /\ u \in {recs[i].id : i \in {k \in 1..Len(recs) : \E b \in {"bash", "edit"} : Contains(recs[k].blocks, b)}}
      /\ u \in run[r].mapped \cup {stream[r][i].id : i \in 1..Len(stream[r])}
      /\ \A i \in 1..Len(recs) : recs[i].use # u
  BY DEF OpenUses
<1> HIDE DEF recs
<1>3. ToSet(recs) = {recs[i] : i \in 1..Len(recs)} /\ Filed(run[r].session) = ToSet(recs)
  BY <1>1, ElementsOf DEF Filed, recs
<1>4. PICK x \in ToSet(recs) : x.id = u /\ \E b \in {"bash", "edit"} : Contains(x.blocks, b)
  BY <1>2, <1>3
<1>5. x \in RecordSet /\ x.id \in Nat \ {0} /\ x.id <= records
  BY <1>1, <1>3, LiveFacts
<1>6. \E b \in Tools : b \in ToSet(x.blocks)
  <2>1. x.blocks \in Seq(Blocks)
    BY <1>5 DEF RecordSet
  <2>2. QED
    BY <1>4, <2>1, ElementsOf DEF Tools
<1>7. ToSet(stream[r]) = {stream[r][i] : i \in 1..Len(stream[r])}
  BY <1>1, ElementsOf
<1>8. u \in run[r].mapped \/ \E m \in Waiting(r) : m.id = u
  BY <1>2, <1>7 DEF Waiting
<1>9. \A y \in Filed(run[r].session) : y.use # u
  BY <1>2, <1>3
<1>10. ASSUME NEW m \in Waiting(r), m.use = u PROVE FALSE
  <2>1. m.use < m.id /\ m.id \in Nat
    BY <1>10, LiveFacts DEF LiveInv, Forms
  <2>2. x \in Filed(run[r].session) /\ x.id <= m.id
    BY <1>3, <1>4, <1>5, <1>10, <2>1
  <2>3. m \in Filed(run[r].session)
    BY <2>2 DEF LiveInv, StillFiled
  <2>4. QED
    BY <1>9, <1>10, <2>3
<1>11. QED
  BY <1>3, <1>4, <1>5, <1>6, <1>8, <1>9, <1>10

LEMMA OpenAwaited ==
  ASSUME LiveInv, NEW r \in Runs, Running(r), Alone(r), NEW u \in OpenUses(r),
         NEW x \in Filed(run[r].session), x.id = u, NEW b \in Tools, b \in ToSet(x.blocks)
  PROVE  Awaits(r, u, b)
<1>1. run[r].session \in Sessions
  BY DEF LiveInv, Typed, Running
<1>2. CASE u \in run[r].mapped
  BY <1>2, OpenUse DEF LiveInv, UsesAwait, Tools, Awaits
<1>3. ASSUME NEW m \in Waiting(r), m.id = u PROVE Awaits(r, u, b)
  <2>1. x = m
    BY <1>1, <1>3 DEF LiveInv, SameRecord
  <2>2. QED
    BY <1>3, <2>1 DEF Awaits
<1>4. QED
  BY <1>2, <1>3, OpenUse

\* A record is written to a session, and streamed to the run that wrote it, if one did.
LEMMA LiveWrites ==
  ASSUME LiveInv, (Typed /\ Numbered /\ Order /\ OpenHaveMet)',
         NEW s \in Sessions, NEW rec \in RecordSet, Write(s, rec), rec.id = records + 1, OneRole(rec),
         NEW W \in SUBSET Runs,
         \A r \in W : Running(r) /\ run[r].session = s /\ stream'[r] = Append(stream[r], rec),
         \A r \in Runs \ W : stream'[r] = stream[r],
         UNCHANGED <<run, live, toolUses, met>>, disturbed \subseteq disturbed',
         rec.text => W = {} /\ \A r \in Runs : Running(r) /\ run[r].session = s => r \in disturbed',
         rec.use # 0 => \A r \in Runs : r \in W => rec.use \in OpenUses(r),
         rec.use # 0 => W # {}, W # {} /\ rec.role = "user" => rec.use # 0
  PROVE  LiveInv'
<1>1. /\ records' = records + 1 /\ Filed(s)' = Filed(s) \cup {rec}
      /\ \A x \in Sessions \ {s} : Filed(x)' = Filed(x)
  BY WriteSets DEF LiveInv
<1>2. \A r \in W : Waiting(r)' = Waiting(r) \cup {rec}
  <2> TAKE r \in W
  <2>1. stream[r] \in Seq(RecordSet) /\ stream'[r] = Append(stream[r], rec)
    BY DEF LiveInv, Typed
  <2>2. ToSet(stream'[r]) = ToSet(stream[r]) \cup {rec}
    BY <2>1, ElementsOfAppend
  <2>3. QED
    BY <2>2 DEF Waiting
<1>3. \A r \in Runs \ W : Waiting(r)' = Waiting(r)
  BY DEF Waiting
<1>4. \A r \in Runs : /\ SentBy(r)' = SentBy(r) /\ Running(r)' = Running(r) /\ Alone(r)' = Alone(r)
  BY DEF SentBy, Running, Alone
<1>5. /\ \A x \in Sessions : \A y \in Filed(x) : y.id < rec.id /\ y.id # rec.id
      /\ \A r \in Runs : \A m \in Waiting(r) : m.id < rec.id /\ m.id # rec.id
      /\ rec.id \in Nat /\ rec.id = records' /\ rec.use \in Nat
  BY <1>1, LiveFacts DEF LiveInv, Past, RecordSet
<1>6. \A r \in W : rec.use # 0 =>
        /\ rec.use \in Nat \ {0} /\ rec.use <= records /\ \A y \in Filed(s) : y.use # rec.use
        /\ \A m \in Waiting(r) : m.use # rec.use
  BY OpenUse
<1>7. rec.use <= records /\ records \in Nat
  <2>1. records \in Nat
    BY LiveFacts
  <2>2. QED
    BY <1>6, <2>1
<1>13. \A r \in Runs : \A id \in run[r].mapped : id \in Nat /\ id <= records /\ id < rec.id /\ id # rec.id
  <2>1. \A r \in Runs : \A id \in run[r].mapped : id \in Nat /\ id <= records
    BY LiveFacts DEF LiveInv, Past
  <2>2. QED
    BY <1>7, <2>1
<1>8. Past'
  <2>1. ASSUME NEW r \in Runs PROVE Upward(stream[r])'
    <3>1. CASE r \notin W
      <4>1. Upward(stream[r]) /\ stream'[r] = stream[r]
        BY <3>1 DEF LiveInv, Past
      <4>2. QED
        BY <4>1 DEF Upward
    <3>2. CASE r \in W
      <4> DEFINE q == stream[r]
                 a == Append(q, rec)
      <4>1. q \in Seq(RecordSet) /\ stream'[r] = a /\ Upward(q)
        BY <3>2 DEF LiveInv, Typed, Past
      <4>2. \A i \in 1..Len(q) : q[i].id < rec.id
        <5>1. \A i \in 1..Len(q) : q[i] \in Waiting(r)
          BY <4>1, ElementsOf DEF Waiting
        <5>2. QED
          BY <1>5, <5>1
      <4>3. Len(a) = Len(q) + 1 /\ Len(q) \in Nat /\ a[Len(q) + 1] = rec /\ \A i \in 1..Len(q) : a[i] = q[i]
        BY <4>1, AppendIs
      <4> HIDE DEF a, q
      <4>4. ASSUME NEW i \in 1..Len(a), NEW j \in 1..Len(a), i < j PROVE a[i].id < a[j].id
        <5>1. i \in 1..Len(q) /\ a[i] = q[i]
          BY <4>3, <4>4
        <5>2. CASE j = Len(q) + 1
          BY <4>2, <4>3, <5>1, <5>2
        <5>3. CASE j # Len(q) + 1
          <6>1. j \in 1..Len(q) /\ a[j] = q[j]
            BY <4>3, <5>3
          <6>2. q[i].id < q[j].id
            BY <4>1, <4>4, <5>1, <6>1 DEF Upward
          <6>3. QED
            BY <5>1, <6>1, <6>2
        <5>4. QED
          BY <5>2, <5>3
      <4>5. QED
        BY <4>1, <4>4 DEF Upward
    <3>3. QED
      BY <3>1, <3>2
  <2>2. \A r \in Runs : ~Running(r)' => stream'[r] = <<>>
    BY <1>4 DEF LiveInv, Past
  <2>3. \A r \in Runs : run'[r].prompt <= records' /\ \A id \in run'[r].mapped : id <= records'
    BY <1>1, LiveFacts DEF LiveInv, Past
  <2>4. \A r \in Runs : \A m \in Waiting(r)' : m.id <= records' /\ m.id \notin run'[r].mapped
    <3>1. \A r \in Runs : \A m \in Waiting(r) : m.id \in Nat /\ m.id <= records /\ m.id \notin run[r].mapped
      BY LiveFacts DEF LiveInv, Past
    <3>2. \A r \in Runs : \A m \in Waiting(r) : m.id <= records'
      BY <1>1, <1>7, <3>1
    <3>3. \A r \in Runs : rec.id <= records' /\ rec.id \notin run[r].mapped
      BY <1>5, <1>13
    <3>4. QED
      BY <1>2, <1>3, <3>1, <3>2, <3>3
  <2>5. \A r \in Runs : \A y \in SentBy(r)' : y.id <= records'
    BY <1>1, <1>4, LiveFacts DEF LiveInv, Past, ItemSet
  <2>6. /\ live' \in [Runs -> Seq(ItemSet)] /\ toolUses' \subseteq Turns \X Nat \X {"bash", "edit"}
        /\ \A u \in toolUses' : u[2] <= records'
    BY <1>1, LiveFacts DEF LiveInv, Past
  <2>7. \A r \in Runs : run'[r].stage = "idle" => run'[r].mapped = {}
    BY DEF LiveInv, Past
  <2>8. QED
    BY <2>1, <2>2, <2>3, <2>4, <2>5, <2>6, <2>7 DEF Past
<1>9. Forms'
  <2>1. \A x \in Sessions : Single(Filed(x)')
    <3>1. Single(Filed(s) \cup {rec})
      BY <1>6 DEF LiveInv, Forms, Single
    <3>2. QED
      BY <1>1, <3>1 DEF LiveInv, Forms
  <2>2. \A x \in Sessions : \A y \in Filed(x)' : OneRole(y)
    BY <1>1 DEF LiveInv, Forms
  <2>3. \A r \in Runs : Single(Waiting(r)')
    <3>1. \A r \in W : Single(Waiting(r) \cup {rec})
      BY <1>6 DEF LiveInv, Forms, Single
    <3>2. QED
      BY <1>2, <1>3, <3>1 DEF LiveInv, Forms
  <2>4. \A r \in Runs : \A m \in Waiting(r)' : OneRole(m) /\ ~m.text /\ m.use < m.id /\ (m.role = "user" => m.use # 0)
    BY <1>2, <1>3, <1>5, <1>7 DEF LiveInv, Forms
  <2>5. QED
    BY <2>1, <2>2, <2>3, <2>4 DEF Forms
<1>10. SameRecord'
  BY <1>1, <1>2, <1>3, <1>5 DEF LiveInv, SameRecord
<1>11. StillFiled'
  <2> SUFFICES ASSUME NEW r \in Runs, Running(r), NEW x \in Filed(run[r].session)', NEW m \in Waiting(r)', x.id <= m.id
               PROVE  m \in Filed(run[r].session)'
    BY <1>4 DEF StillFiled
  <2>1. run[r].session \in Sessions
    BY LiveFacts DEF Running
  <2>2. CASE m = rec
    <3>1. r \in W
      BY <1>3, <1>5, <2>2
    <3>2. QED
      BY <1>1, <2>2, <3>1
  <2>3. CASE m # rec
    <3>1. m \in Waiting(r) /\ x # rec
      BY <1>2, <1>3, <1>5, <2>3, LiveFacts
    <3>2. x \in Filed(run[r].session)
      BY <1>1, <2>1, <3>1
    <3>3. m \in Filed(run[r].session)
      BY <3>1, <3>2 DEF LiveInv, StillFiled
    <3>4. QED
      BY <1>1, <2>1, <3>3
  <2>4. QED
    BY <2>2, <2>3
<1>12. KindsKept'
  <2>1. \A u \in toolUses : u[2] # rec.id
    <3>1. \A u \in toolUses : u[2] \in Nat /\ u[2] <= records
      BY DEF LiveInv, Past
    <3>2. QED
      BY <1>7, <3>1
  <2>2. \A r \in Runs : \A y \in SentBy(r) : y.id # rec.id
    <3>1. \A r \in Runs : \A y \in SentBy(r) : y.id \in Nat /\ y.id <= records
      BY LiveFacts DEF LiveInv, Past, ItemSet
    <3>2. QED
      BY <1>7, <3>1
  <2>3. QED
    BY <1>1, <1>4, <2>1, <2>2 DEF LiveInv, KindsKept
<1>14. \A x \in Sessions : \A y \in Filed(x)' : y # rec => y \in Filed(x)
  BY <1>1
<1>15. \A x \in Sessions : Filed(x) \subseteq Filed(x)'
  BY <1>1
<1>16. MappedSent'
  <2> SUFFICES ASSUME NEW r \in Runs, Alone(r), NEW x \in Filed(run[r].session)', x.id \in run[r].mapped
               PROVE  Sent(r, x)'
    BY <1>4 DEF MappedSent
  <2>1. run[r].session \in Sessions /\ x # rec
    BY <1>13, LiveFacts DEF Alone
  <2>2. x \in Filed(run[r].session)
    BY <1>14, <2>1
  <2>3. Sent(r, x)
    BY <2>2 DEF LiveInv, MappedSent
  <2>4. \A y \in Filed(run[r].session)' : y.id = x.use => y \in Filed(run[r].session)
    BY <1>5, <1>14, <2>1, <2>2, LiveFacts
  <2>5. QED
    BY <1>4, <2>3, <2>4 DEF Sent
<1>17. ASSUME NEW r \in Runs, NEW id, NEW b, Awaits(r, id, b) PROVE Awaits(r, id, b)'
  BY <1>2, <1>3, <1>17 DEF Awaits
<1>18. ResultsAwaited'
  <2> SUFFICES ASSUME NEW r \in Runs, Alone(r), Running(r), NEW m \in Waiting(r)', m.use # 0
               PROVE  /\ \E b \in {"bash", "edit"} : Awaits(r, m.use, b)'
                      /\ \A x \in Filed(run[r].session)' :
                           x.id = m.use /\ "bash" \in ToSet(x.blocks) => Awaits(r, m.use, "bash")'
    BY <1>4 DEF ResultsAwaited
  <2>1. run[r].session \in Sessions
    BY LiveFacts DEF Running
  <2>2. CASE m = rec
    <3>1. r \in W /\ run[r].session = s
      BY <1>3, <1>5, <2>2
    <3>2. m.use \in OpenUses(r)
      BY <2>2, <3>1
    <3>3. PICK x \in Filed(s) : x.id = m.use /\ \E b \in Tools : b \in ToSet(x.blocks)
      BY <3>1, <3>2, OpenUse
    <3>4. \A y \in Filed(s) : y.id = m.use => \A b \in Tools : b \in ToSet(y.blocks) => Awaits(r, m.use, b)
      BY <3>1, <3>2, OpenAwaited
    <3>5. \E b \in {"bash", "edit"} : Awaits(r, m.use, b)'
      BY <1>17, <3>3, <3>4 DEF Tools
    <3>6. \A y \in Filed(s)' : y.id = m.use => y \in Filed(s)
      BY <1>1, <1>5, <1>7, <2>2
    <3>7. QED
      BY <1>17, <3>1, <3>4, <3>5, <3>6 DEF Tools
  <2>3. CASE m # rec
    <3>1. m \in Waiting(r) /\ m.use < m.id /\ m.id < rec.id /\ m.id \in Nat /\ m.use \in Nat
      BY <1>2, <1>3, <1>5, <2>3, LiveFacts DEF LiveInv, Forms
    <3>2. \A y \in Filed(run[r].session)' : y.id = m.use => y \in Filed(run[r].session)
      BY <1>5, <1>14, <2>1, <3>1
    <3>3. QED
      BY <1>17, <3>1, <3>2 DEF LiveInv, ResultsAwaited
  <2>4. QED
    BY <2>2, <2>3
<1>19. UsesAwait'
  <2> SUFFICES ASSUME NEW r \in Runs, Alone(r), Running(r), NEW x \in Filed(run[r].session)',
                      NEW b \in {"bash", "edit"} \cap ToSet(x.blocks), x.id \in run[r].mapped
               PROVE  <<run[r].turn, x.id, b>> \in toolUses \/ \E y \in Filed(run[r].session)' : y.use = x.id
    BY <1>4 DEF UsesAwait
  <2>1. run[r].session \in Sessions /\ x # rec
    BY <1>13, LiveFacts DEF Running
  <2>2. x \in Filed(run[r].session)
    BY <1>14, <2>1
  <2>3. QED
    BY <1>15, <2>1, <2>2 DEF LiveInv, UsesAwait
<1>20. LastPrompt'
  <2> SUFFICES ASSUME NEW r \in Runs, r \notin disturbed', Running(r), NEW x \in Filed(run[r].session)', x.text
               PROVE  x.id <= run[r].prompt
    BY <1>4 DEF LastPrompt
  <2>1. run[r].session \in Sessions
    BY LiveFacts DEF Running
  <2>2. x # rec
    BY <1>1, <1>5, <2>1
  <2>3. QED
    BY <1>14, <2>1, <2>2 DEF LiveInv, LastPrompt
<1>21. OwnTurn'
  <2> SUFFICES ASSUME NEW r \in Runs, r \notin disturbed', NEW id \in run[r].mapped \cup {m.id : m \in Waiting(r)'}
               PROVE  /\ run[r].prompt < id
                      /\ \A x \in Filed(run[r].session)' : x.text /\ run[r].prompt < x.id => id < x.id
    BY DEF OwnTurn
  <2>1. run[r].stage # "idle" /\ run[r].session \in Sessions
    <3>1. CASE run[r].stage = "idle"
      <4>1. run[r].mapped = {} /\ stream[r] = <<>> /\ r \notin W
        BY <3>1 DEF LiveInv, Past, Running
      <4>2. Waiting(r)' = {}
        BY <4>1, ElementsOfNone DEF Waiting
      <4>3. QED
        BY <4>1, <4>2
    <3>2. QED
      BY <3>1, LiveFacts
  <2>2. CASE id = rec.id /\ r \in W
    <3>1. \A x \in Filed(s)' : x.text => x.id <= run[r].prompt /\ x.id \in Nat /\ run[r].prompt \in Nat
      <4>1. ~rec.text /\ run[r].session = s /\ Running(r)
        BY <2>2
      <4>2. QED
        BY <1>1, <4>1, LiveFacts DEF LiveInv, LastPrompt
    <3>2. run[r].prompt < id
      BY <1>5, <1>7, <1>1, <2>2, LiveFacts DEF LiveInv, Past
    <3>3. QED
      BY <2>2, <3>1, <3>2
  <2>3. CASE ~(id = rec.id /\ r \in W)
    <3>1. id \in run[r].mapped \cup {m.id : m \in Waiting(r)} /\ id < rec.id
      BY <1>2, <1>3, <1>5, <1>7, <1>1, <2>3, LiveFacts DEF LiveInv, Past
    <3>2. QED
      BY <1>14, <2>1, <3>1 DEF LiveInv, OwnTurn
  <2>4. QED
    BY <2>2, <2>3
<1>22. QED
  BY <1>8, <1>9, <1>10, <1>11, <1>12, <1>16, <1>18, <1>19, <1>20, <1>21 DEF LiveInv

LEMMA LiveStarts ==
  ASSUME LiveInv, (Typed /\ Numbered /\ Order /\ OpenHaveMet)',
         NEW r \in Runs, NEW s \in Sessions, NEW t \in Turns, StartRun(r, s, t)
  PROVE  LiveInv'
<1> DEFINE rec == Prompt(records + 1)
<1>1. records \in Nat /\ rec \in RecordSet
  BY LiveFacts, RecordTypes
<1>2. rec.id = records + 1 /\ rec.use = 0 /\ rec.role = "user" /\ rec.blocks = <<>>
  BY DEF Prompt
<1>3. Write(s, rec) /\ UNCHANGED <<stream, live, toolUses>>
  BY DEF StartRun
<1> HIDE DEF rec
<1>4. /\ records' = records + 1 /\ Filed(s)' = Filed(s) \cup {rec}
      /\ \A x \in Sessions \ {s} : Filed(x)' = Filed(x)
  BY <1>1, <1>3, WriteSets DEF LiveInv
<1>5. /\ run'[r].session = s /\ run'[r].prompt = records + 1 /\ run'[r].stage = "running"
      /\ run'[r].mapped = {} /\ \A q \in Runs \ {r} : run'[q] = run[q]
      /\ run[r].stage = "idle"
  BY DEF StartRun, LiveInv, Typed
<1>6. met \subseteq met' /\ \A q \in Runs : Running(q) /\ run[q].session = s => q \in disturbed'
  BY DEF StartRun
<1>7. disturbed \subseteq disturbed'
  BY DEF StartRun
<1>8. /\ Waiting(r)' = {} /\ \A q \in Runs : Waiting(q)' = Waiting(q) /\ SentBy(q)' = SentBy(q)
  <2>1. stream[r] = <<>>
    BY <1>5 DEF LiveInv, Past, Running
  <2>2. QED
    BY <1>3, <2>1, ElementsOfNone DEF Waiting, SentBy
<1>9. \A q \in Runs \ {r} : /\ Running(q)' = Running(q)
                            /\ Alone(q)' => Alone(q)
  BY <1>5, <1>6 DEF Running, Alone
<1>10. /\ \A x \in Sessions : \A y \in Filed(x) : y.id < rec.id /\ y.id # rec.id
       /\ \A q \in Runs : \A m \in Waiting(q) : m.id < rec.id /\ m.id # rec.id
       /\ \A q \in Runs : \A id \in run[q].mapped : id < rec.id /\ id # rec.id
       /\ \A q \in Runs : \A y \in SentBy(q) : y.id # rec.id /\ y.id <= records'
       /\ \A u \in toolUses : u[2] # rec.id /\ u[2] <= records'
  <2>1. /\ \A x \in Sessions : \A y \in Filed(x) : y.id \in Nat /\ y.id <= records
        /\ \A q \in Runs : \A m \in Waiting(q) : m.id \in Nat /\ m.id <= records
        /\ \A q \in Runs : \A id \in run[q].mapped : id \in Nat /\ id <= records
    BY LiveFacts DEF LiveInv, Past
  <2>2. \A q \in Runs : \A y \in SentBy(q) : y.id \in Nat /\ y.id <= records
    BY LiveFacts DEF LiveInv, Past, ItemSet
  <2>3. \A u \in toolUses : u[2] \in Nat /\ u[2] <= records
    BY DEF LiveInv, Past
  <2>4. QED
    BY <1>1, <1>2, <1>4, <2>1, <2>2, <2>3
<1>11. \A x \in Sessions : \A y \in Filed(x)' : y # rec => y \in Filed(x)
  BY <1>4
<1>12. \A x \in Sessions : Filed(x) \subseteq Filed(x)'
  BY <1>4
<1>13. Past'
  <2>1. \A q \in Runs : run'[q].prompt <= records'
    <3>1. \A q \in Runs : run[q].prompt \in Nat /\ run[q].prompt <= records
      BY LiveFacts DEF LiveInv, Past
    <3>2. QED
      BY <1>1, <1>4, <1>5, <3>1
  <2>2. \A q \in Runs : \A id \in run'[q].mapped : id <= records'
    <3>1. \A q \in Runs : \A id \in run[q].mapped : id \in Nat /\ id <= records
      BY LiveFacts DEF LiveInv, Past
    <3>2. QED
      BY <1>1, <1>4, <1>5, <3>1
  <2>3. \A q \in Runs : run'[q].stage = "idle" => run'[q].mapped = {}
    BY <1>5 DEF LiveInv, Past
  <2>4. \A q \in Runs : Upward(stream[q])' /\ (~Running(q)' => stream'[q] = <<>>)
    <3>1. \A q \in Runs : Upward(stream[q])'
      BY <1>3 DEF LiveInv, Past, Upward
    <3>2. Running(r)'
      BY <1>5 DEF Running
    <3>3. QED
      BY <1>3, <1>9, <3>1, <3>2 DEF LiveInv, Past
  <2>5. \A q \in Runs : \A m \in Waiting(q)' : m.id <= records' /\ m.id \notin run'[q].mapped
    BY <1>1, <1>4, <1>5, <1>8, LiveFacts DEF LiveInv, Past
  <2>6. /\ live' \in [Runs -> Seq(ItemSet)] /\ toolUses' \subseteq Turns \X Nat \X {"bash", "edit"}
        /\ \A u \in toolUses' : u[2] <= records' /\ \A q \in Runs : \A y \in SentBy(q)' : y.id <= records'
    BY <1>3, <1>8, <1>10 DEF LiveInv, Past
  <2>7. \A q \in Runs : \A y \in SentBy(q)' : y.id <= records'
    BY <1>8, <1>10
  <2>8. QED
    BY <2>1, <2>2, <2>3, <2>4, <2>5, <2>6, <2>7 DEF Past
<1>14. Forms'
  <2>1. \A x \in Sessions : Single(Filed(x)')
    <3>1. Single(Filed(s) \cup {rec})
      BY <1>2 DEF LiveInv, Forms, Single
    <3>2. QED
      BY <1>4, <3>1 DEF LiveInv, Forms
  <2>2. OneRole(rec)
    BY <1>2 DEF OneRole
  <2>3. \A x \in Sessions : \A y \in Filed(x)' : OneRole(y)
    BY <1>4, <2>2 DEF LiveInv, Forms
  <2>4. \A q \in Runs : Single(Waiting(q)')
    BY <1>8 DEF LiveInv, Forms
  <2>5. \A q \in Runs : \A m \in Waiting(q)' : OneRole(m) /\ ~m.text /\ m.use < m.id /\ (m.role = "user" => m.use # 0)
    BY <1>8 DEF LiveInv, Forms
  <2>6. QED
    BY <2>1, <2>3, <2>4, <2>5 DEF Forms
<1>15. SameRecord'
  BY <1>8, <1>10, <1>11 DEF LiveInv, SameRecord
<1>16. \A q \in Runs \ {r} : run[q].stage # "idle" => run'[q] = run[q] /\ run[q].session \in Sessions
  BY <1>5, LiveFacts
<1>17. StillFiled'
  <2> SUFFICES ASSUME NEW q \in Runs \ {r}, Running(q), NEW x \in Filed(run[q].session)', NEW m \in Waiting(q), x.id <= m.id
               PROVE  m \in Filed(run[q].session)'
    BY <1>8, <1>9 DEF StillFiled
  <2>1. run'[q] = run[q] /\ run[q].session \in Sessions
    BY <1>16 DEF Running
  <2>2. x # rec
    BY <1>2, <1>1, <1>10, LiveFacts
  <2>3. x \in Filed(run[q].session)
    BY <1>11, <2>1, <2>2
  <2>4. m \in Filed(run[q].session)
    BY <2>3 DEF LiveInv, StillFiled
  <2>5. QED
    BY <1>12, <2>1, <2>4
<1>18. KindsKept'
  BY <1>3, <1>8, <1>10, <1>11 DEF LiveInv, KindsKept
<1>19. MappedSent'
  <2> SUFFICES ASSUME NEW q \in Runs \ {r}, Alone(q), NEW x \in Filed(run[q].session)', x.id \in run'[q].mapped
               PROVE  Sent(q, x)'
    BY <1>5, <1>9 DEF MappedSent
  <2>1. run'[q] = run[q] /\ run[q].session \in Sessions
    BY <1>16 DEF Alone
  <2>2. x \in Filed(run[q].session)
    BY <1>10, <1>11, <2>1
  <2>3. Sent(q, x)
    BY <2>1, <2>2 DEF LiveInv, MappedSent
  <2>4. \A y \in Filed(run[q].session)' : y.id = x.use => y \in Filed(run[q].session)
    BY <1>1, <1>2, <1>11, <2>1, <2>2, LiveFacts
  <2>5. QED
    BY <1>8, <2>1, <2>3, <2>4 DEF Sent
<1>20. \A q \in Runs \ {r} : \A id, b : Awaits(q, id, b) => Awaits(q, id, b)'
  BY <1>3, <1>5, <1>8 DEF Awaits
<1>21. ResultsAwaited'
  <2> SUFFICES ASSUME NEW q \in Runs \ {r}, Alone(q), Running(q), NEW m \in Waiting(q), m.use # 0
               PROVE  /\ \E b \in {"bash", "edit"} : Awaits(q, m.use, b)'
                      /\ \A x \in Filed(run[q].session)' :
                           x.id = m.use /\ "bash" \in ToSet(x.blocks) => Awaits(q, m.use, "bash")'
    BY <1>8, <1>9 DEF ResultsAwaited
  <2>1. run'[q] = run[q] /\ run[q].session \in Sessions
    BY <1>16 DEF Running
  <2>2. m.use < m.id /\ m.id < rec.id /\ m.id \in Nat /\ m.use \in Nat
    BY <1>10, LiveFacts DEF LiveInv, Forms
  <2>3. \A y \in Filed(run[q].session)' : y.id = m.use => y \in Filed(run[q].session)
    BY <1>1, <1>2, <1>11, <2>1, <2>2
  <2>4. QED
    BY <1>20, <2>1, <2>3 DEF LiveInv, ResultsAwaited
<1>22. UsesAwait'
  <2> SUFFICES ASSUME NEW q \in Runs \ {r}, Alone(q), Running(q), NEW x \in Filed(run[q].session)',
                      NEW b \in {"bash", "edit"} \cap ToSet(x.blocks), x.id \in run'[q].mapped
               PROVE  <<run'[q].turn, x.id, b>> \in toolUses' \/ \E y \in Filed(run[q].session)' : y.use = x.id
    BY <1>5, <1>9 DEF UsesAwait
  <2>1. run'[q] = run[q] /\ run[q].session \in Sessions
    BY <1>16 DEF Running
  <2>2. x \in Filed(run[q].session)
    BY <1>10, <1>11, <2>1
  <2>3. QED
    BY <1>3, <1>12, <2>1, <2>2 DEF LiveInv, UsesAwait
<1>23. LastPrompt'
  <2>1. \A x \in Filed(s)' : x.id <= records + 1
    BY <1>1, <1>2, <1>4, LiveFacts
  <2>2. ASSUME NEW q \in Runs \ {r}, q \notin disturbed', Running(q), NEW x \in Filed(run[q].session)', x.text
        PROVE  x.id <= run'[q].prompt
    <3>1. run'[q] = run[q] /\ run[q].session \in Sessions /\ run[q].session # s /\ q \notin disturbed
      BY <1>6, <1>7, <1>16, <2>2 DEF Running
    <3>2. x \in Filed(run[q].session)
      BY <1>4, <2>2, <3>1
    <3>3. QED
      BY <2>2, <3>1, <3>2 DEF LiveInv, LastPrompt
  <2>3. QED
    BY <1>5, <1>9, <2>1, <2>2 DEF LastPrompt
<1>24. OwnTurn'
  <2> SUFFICES ASSUME NEW q \in Runs \ {r}, q \notin disturbed', NEW id \in run'[q].mapped \cup {m.id : m \in Waiting(q)}
               PROVE  /\ run'[q].prompt < id
                      /\ \A x \in Filed(run[q].session)' : x.text /\ run'[q].prompt < x.id => id < x.id
    BY <1>5, <1>8 DEF OwnTurn
  <2>1. run'[q] = run[q] /\ q \notin disturbed
    BY <1>5, <1>7
  <2>2. run[q].session \in Sessions
    <3>1. CASE run[q].stage = "idle"
      <4>1. run[q].mapped = {} /\ stream[q] = <<>>
        BY <3>1 DEF LiveInv, Past, Running
      <4>2. Waiting(q) = {}
        BY <4>1, ElementsOfNone DEF Waiting
      <4>3. QED
        BY <2>1, <4>1, <4>2
    <3>2. QED
      BY <3>1, LiveFacts
  <2>3. id < rec.id
    BY <1>10, <2>1
  <2>4. QED
    BY <1>11, <2>1, <2>2, <2>3 DEF LiveInv, OwnTurn
<1>25. QED
  BY <1>13, <1>14, <1>15, <1>17, <1>18, <1>19, <1>21, <1>22, <1>23, <1>24 DEF LiveInv

LEMMA LiveLocal ==
  ASSUME LiveInv, (Typed /\ Numbered /\ Order /\ OpenHaveMet)', NEW s \in Sessions, LocalPrompt(s)
  PROVE  LiveInv'
<1>1. PICK rec \in {Prompt(records + 1), LocalCommand(records + 1)} :
        /\ Write(s, rec)
        /\ disturbed' = disturbed \cup {r \in Runs : rec.text /\ Running(r) /\ run[r].session = s}
  BY DEF LocalPrompt
<1>2. UNCHANGED <<stream, run, live, toolUses, met>>
  BY DEF LocalPrompt, turnVars
<1>3. rec \in RecordSet
  BY LiveFacts, RecordTypes
<1>4. rec.id = records + 1 /\ OneRole(rec) /\ rec.use = 0
  BY DEF Prompt, LocalCommand, OneRole
<1>5. disturbed \subseteq disturbed' /\ (rec.text => \A r \in Runs : Running(r) /\ run[r].session = s => r \in disturbed')
  BY <1>1
<1> DEFINE W == {}
<1>6. W \in SUBSET Runs /\ (\A r \in W : FALSE) /\ W = {}
  OBVIOUS
<1> HIDE DEF W
<1>7. QED
  BY <1>1, <1>2, <1>3, <1>4, <1>5, <1>6, LiveWrites

LEMMA LiveAnswers ==
  ASSUME LiveInv, (Typed /\ Numbered /\ Order /\ OpenHaveMet)', NEW r \in Runs, Answer(r)
  PROVE  LiveInv'
<1> DEFINE W == {r}
<1>1. Running(r) /\ UNCHANGED <<run, live, toolUses, met, disturbed>>
  BY DEF Answer, ghosts
<1>2. W \in SUBSET Runs /\ W # {} /\ \A q \in W : q = r
  OBVIOUS
<1>3. run[r].session \in Sessions
  BY <1>1, LiveFacts DEF Running
<1>4. ASSUME NEW rec \in RecordSet, Streams(r, rec), rec.id = records + 1, OneRole(rec), ~rec.text,
             rec.use # 0 => rec.use \in OpenUses(r), rec.role = "user" => rec.use # 0
      PROVE  LiveInv'
  <2>1. Write(run[r].session, rec) /\ stream' = [stream EXCEPT ![r] = Append(@, rec)]
    BY <1>4 DEF Streams
  <2>2. stream \in [Runs -> Seq(RecordSet)]
    BY DEF LiveInv, Typed
  <2>3. /\ \A q \in W : Running(q) /\ run[q].session = run[r].session /\ stream'[q] = Append(stream[q], rec)
        /\ \A q \in Runs \ W : stream'[q] = stream[q]
        /\ rec.use # 0 => \A q \in Runs : q \in W => rec.use \in OpenUses(q)
    BY <1>1, <1>4, <2>1, <2>2
  <2> HIDE DEF W
  <2> DEFINE s == run[r].session
  <2>4. s \in Sessions /\ Write(s, rec) /\ \A q \in W : Running(q) /\ run[q].session = s /\ stream'[q] = Append(stream[q], rec)
    BY <1>3, <2>1, <2>3
  <2> HIDE DEF s
  <2>5. disturbed \subseteq disturbed' /\ (rec.text => W = {} /\ \A q \in Runs : Running(q) /\ run[q].session = s => q \in disturbed')
    BY <1>1, <1>4
  <2>6. QED
    BY <1>1, <1>2, <1>4, <2>3, <2>4, <2>5, LiveWrites
<1>5. CASE \E c \in Contents : Streams(r, Said(records + 1, c))
  <2> PICK c \in Contents : Streams(r, Said(records + 1, c))
    BY <1>5
  <2>1. Said(records + 1, c) \in RecordSet
    BY LiveFacts, RecordTypes
  <2> DEFINE rec == Said(records + 1, c)
  <2>2. rec.id = records + 1 /\ rec.use = 0 /\ rec.text = FALSE /\ rec.role = "assistant"
    BY DEF Said, LocalCommand, Prompt
  <2>3. rec \in RecordSet /\ Streams(r, rec)
    BY <2>1
  <2> HIDE DEF rec
  <2>4. OneRole(rec)
    BY <2>2 DEF OneRole
  <2>5. QED
    BY <1>4, <2>2, <2>3, <2>4
<1>6. CASE \E u \in OpenUses(r), failed \in BOOLEAN : Streams(r, ToolResult(records + 1, u, failed))
  <2> PICK u \in OpenUses(r), failed \in BOOLEAN : Streams(r, ToolResult(records + 1, u, failed))
    BY <1>6
  <2>1. u \in Nat \ {0}
    BY <1>1, OpenUse
  <2>2. ToolResult(records + 1, u, failed) \in RecordSet
    BY <2>1, LiveFacts, RecordTypes
  <2> DEFINE rec == ToolResult(records + 1, u, failed)
  <2>3. rec.id = records + 1 /\ rec.use = u /\ rec.text = FALSE /\ rec.role = "user" /\ rec.blocks = <<>>
    BY DEF ToolResult, LocalCommand, Prompt
  <2>4. rec \in RecordSet /\ Streams(r, rec)
    BY <2>2
  <2> HIDE DEF rec
  <2>5. OneRole(rec)
    BY <2>3 DEF OneRole
  <2>6. QED
    BY <1>4, <2>1, <2>3, <2>4, <2>5
<1>7. QED
  BY <1>5, <1>6 DEF Answer

\* A run that has something to map, or mapped something, is of a session.
LEMMA OwnRuns ==
  ASSUME LiveInv, NEW r \in Runs, run[r].mapped # {} \/ Waiting(r) # {}
  PROVE  run[r].stage # "idle" /\ run[r].session \in Sessions
<1>1. CASE run[r].stage = "idle"
  <2>1. run[r].mapped = {} /\ stream[r] = <<>>
    BY <1>1 DEF LiveInv, Past, Running
  <2>2. Waiting(r) = {}
    BY <2>1, ElementsOfNone DEF Waiting
  <2>3. QED
    BY <2>1, <2>2
<1>2. QED
  BY <1>1, LiveFacts

LEMMA LiveDeletes ==
  ASSUME LiveInv, (Typed /\ Numbered /\ Order /\ OpenHaveMet)', NEW s \in Sessions, DeleteThread(s)
  PROVE  LiveInv'
<1>1. UNCHANGED <<records, run, stream, live, toolUses, met, disturbed>>
  BY DEF DeleteThread, turnVars, ghosts
<1>2. \A x \in Sessions : Filed(x)' = Filed(x) \/ Filed(x)' = {}
  <2>1. file' = file \/ file' = [file EXCEPT ![s] = <<>>]
    BY DEF DeleteThread, Removed
  <2>2. \A x \in Sessions : file'[x] = file[x] \/ file'[x] = <<>>
    BY <2>1 DEF LiveInv, Typed
  <2>3. QED
    BY <2>2, ElementsOfNone DEF Filed
<1>3. \A r \in Runs : /\ Waiting(r)' = Waiting(r) /\ SentBy(r)' = SentBy(r) /\ Running(r)' = Running(r)
                      /\ Alone(r)' = Alone(r)
  BY <1>1 DEF Waiting, SentBy, Running, Alone
<1>4. \A r \in Runs : run[r].stage # "idle" => run[r].session \in Sessions
  BY LiveFacts
<1>5. Past'
  BY <1>1, <1>3 DEF LiveInv, Past, Upward
<1>6. Forms'
  <2>1. \A x \in Sessions : Single(Filed(x)') /\ \A y \in Filed(x)' : OneRole(y)
    BY <1>2 DEF LiveInv, Forms, Single
  <2>2. QED
    BY <1>3, <2>1 DEF LiveInv, Forms
<1>7. SameRecord'
  BY <1>2, <1>3 DEF LiveInv, SameRecord
<1>8. StillFiled'
  BY <1>1, <1>2, <1>3, <1>4 DEF LiveInv, StillFiled, Running
<1>9. KindsKept'
  BY <1>1, <1>2, <1>3 DEF LiveInv, KindsKept
<1>10. MappedSent'
  <2> SUFFICES ASSUME NEW r \in Runs, Alone(r), NEW x \in Filed(run[r].session)', x.id \in run[r].mapped
               PROVE  Sent(r, x)'
    BY <1>1, <1>3 DEF MappedSent
  <2>1. run[r].session \in Sessions
    BY <1>4 DEF Alone
  <2>2. Filed(run[r].session)' = Filed(run[r].session)
    BY <1>1, <1>2, <2>1
  <2>3. Sent(r, x)
    BY <2>2 DEF LiveInv, MappedSent
  <2>4. QED
    BY <1>1, <1>3, <2>2, <2>3 DEF Sent
<1>11. \A r \in Runs : \A id, b : Awaits(r, id, b)' = Awaits(r, id, b)
  BY <1>1, <1>3 DEF Awaits
<1>12. ResultsAwaited'
  <2> SUFFICES ASSUME NEW r \in Runs, Alone(r), Running(r), NEW m \in Waiting(r), m.use # 0
               PROVE  /\ \E b \in {"bash", "edit"} : Awaits(r, m.use, b)
                      /\ \A x \in Filed(run[r].session)' :
                           x.id = m.use /\ "bash" \in ToSet(x.blocks) => Awaits(r, m.use, "bash")
    BY <1>1, <1>3, <1>11 DEF ResultsAwaited
  <2>1. Filed(run[r].session)' \subseteq Filed(run[r].session)
    BY <1>1, <1>2, <1>4 DEF Running
  <2>2. QED
    BY <2>1 DEF LiveInv, ResultsAwaited
<1>13. UsesAwait'
  <2> SUFFICES ASSUME NEW r \in Runs, Alone(r), Running(r), NEW x \in Filed(run[r].session)',
                      NEW b \in {"bash", "edit"} \cap ToSet(x.blocks), x.id \in run[r].mapped
               PROVE  <<run[r].turn, x.id, b>> \in toolUses \/ \E y \in Filed(run[r].session)' : y.use = x.id
    BY <1>1, <1>3 DEF UsesAwait
  <2>1. Filed(run[r].session)' = Filed(run[r].session)
    BY <1>1, <1>2, <1>4 DEF Running
  <2>2. QED
    BY <2>1 DEF LiveInv, UsesAwait
<1>14. LastPrompt'
  <2> SUFFICES ASSUME NEW r \in Runs \ disturbed, Running(r), NEW x \in Filed(run[r].session)', x.text
               PROVE  x.id <= run[r].prompt
    BY <1>1, <1>3 DEF LastPrompt
  <2>1. x \in Filed(run[r].session)
    BY <1>1, <1>2, <1>4 DEF Running
  <2>2. QED
    BY <2>1 DEF LiveInv, LastPrompt
<1>15. OwnTurn'
  <2> SUFFICES ASSUME NEW r \in Runs \ disturbed, NEW id \in run[r].mapped \cup {m.id : m \in Waiting(r)}
               PROVE  /\ run[r].prompt < id
                      /\ \A x \in Filed(run[r].session)' : x.text /\ run[r].prompt < x.id => id < x.id
    BY <1>1, <1>3 DEF OwnTurn
  <2>1. run[r].session \in Sessions
    BY OwnRuns
  <2>2. Filed(run[r].session)' \subseteq Filed(run[r].session)
    BY <1>1, <1>2, <2>1
  <2>3. QED
    BY <2>2 DEF LiveInv, OwnTurn
<1>16. QED
  BY <1>5, <1>6, <1>7, <1>8, <1>9, <1>10, <1>12, <1>13, <1>14, <1>15 DEF LiveInv

\* Runs end, or are closed: what they were sent stays, and what the others wait for.
LEMMA LiveCloses ==
  ASSUME LiveInv, (Typed /\ Numbered /\ Order /\ OpenHaveMet)', UNCHANGED <<file, records, live, met, disturbed>>,
         \A q \in Runs : /\ run'[q].session = run[q].session /\ run'[q].turn = run[q].turn
                         /\ run'[q].prompt = run[q].prompt /\ run'[q].mapped = run[q].mapped
                         /\ run'[q].stage = "idle" <=> run[q].stage = "idle"
                         /\ Running(q)' => Running(q) /\ stream'[q] = stream[q]
                         /\ stream'[q] = stream[q] \/ stream'[q] = <<>>
                         /\ ~Running(q)' => stream'[q] = <<>>,
         toolUses' \subseteq toolUses,
         \A q \in Runs : Running(q) /\ Alone(q) => \A u \in toolUses : u[1] = run[q].turn => u \in toolUses'
  PROVE  LiveInv'
<1>1. /\ \A q \in Runs : SentBy(q)' = SentBy(q) /\ Alone(q)' = Alone(q) /\ Waiting(q)' \subseteq Waiting(q)
      /\ \A q \in Runs : Running(q)' => Running(q) /\ Waiting(q)' = Waiting(q)
  BY ElementsOfNone DEF Waiting, SentBy, Alone
<1>2. \A q \in Runs : Filed(run[q].session)' = Filed(run[q].session)
  BY DEF Filed
<1>3. \A s \in Sessions : Filed(s)' = Filed(s)
  BY DEF Filed
<1>4. Past'
  <2>1. \A q \in Runs : Upward(stream[q])'
    <3>1. Upward(<<>>)
      BY DEF Upward
    <3>2. \A q \in Runs : Upward(stream[q])
      BY DEF LiveInv, Past
    <3>3. \A q \in Runs : stream'[q] = stream[q] \/ stream'[q] = <<>>
      OBVIOUS
    <3>4. QED
      BY <3>1, <3>2, <3>3 DEF Upward
  <2>2. \A q \in Runs : ~Running(q)' => stream'[q] = <<>>
    OBVIOUS
  <2>3. \A q \in Runs : run'[q].prompt <= records' /\ \A id \in run'[q].mapped : id <= records'
    BY DEF LiveInv, Past
  <2>4. \A q \in Runs : run'[q].stage = "idle" => run'[q].mapped = {}
    BY DEF LiveInv, Past
  <2>5. \A q \in Runs : \A m \in Waiting(q)' : m.id <= records' /\ m.id \notin run'[q].mapped
    BY <1>1 DEF LiveInv, Past
  <2>6. /\ live' \in [Runs -> Seq(ItemSet)] /\ toolUses' \subseteq Turns \X Nat \X {"bash", "edit"}
        /\ \A u \in toolUses' : u[2] <= records'
    BY DEF LiveInv, Past
  <2>7. \A q \in Runs : \A y \in SentBy(q)' : y.id <= records'
    BY <1>1 DEF LiveInv, Past
  <2>8. QED
    BY <2>1, <2>2, <2>3, <2>4, <2>5, <2>6, <2>7 DEF Past
<1>5. Forms'
  BY <1>1, <1>3 DEF LiveInv, Forms, Single
<1>6. SameRecord'
  BY <1>1, <1>3 DEF LiveInv, SameRecord
<1>7. StillFiled'
  BY <1>1, <1>2 DEF LiveInv, StillFiled
<1>8. KindsKept'
  BY <1>1, <1>3 DEF LiveInv, KindsKept
<1>9. MappedSent'
  <2> SUFFICES ASSUME NEW q \in Runs, Alone(q), NEW x \in Filed(run[q].session), x.id \in run[q].mapped
               PROVE  Sent(q, x)'
    BY <1>1, <1>2 DEF MappedSent
  <2>1. Sent(q, x)
    BY DEF LiveInv, MappedSent
  <2>2. QED
    BY <1>1, <1>2, <2>1 DEF Sent
<1>10. \A q \in Runs : Running(q)' /\ Alone(q) => \A id, b : Awaits(q, id, b) => Awaits(q, id, b)'
  <2> SUFFICES ASSUME NEW q \in Runs, Running(q)', Alone(q), NEW id, NEW b, Awaits(q, id, b)
               PROVE  Awaits(q, id, b)'
    OBVIOUS
  <2>1. <<run[q].turn, id, b>> \in toolUses => <<run'[q].turn, id, b>> \in toolUses'
    OBVIOUS
  <2>2. QED
    BY <1>1, <2>1 DEF Awaits
<1>11. ResultsAwaited'
  <2> SUFFICES ASSUME NEW q \in Runs, Alone(q), Running(q)', Running(q), NEW m \in Waiting(q), m.use # 0
               PROVE  /\ \E b \in {"bash", "edit"} : Awaits(q, m.use, b)'
                      /\ \A x \in Filed(run[q].session) :
                           x.id = m.use /\ "bash" \in ToSet(x.blocks) => Awaits(q, m.use, "bash")'
    BY <1>1, <1>2 DEF ResultsAwaited
  <2>1. QED
    BY <1>10 DEF LiveInv, ResultsAwaited
<1>12. UsesAwait'
  <2> SUFFICES ASSUME NEW q \in Runs, Alone(q), Running(q), NEW x \in Filed(run[q].session),
                      NEW b \in {"bash", "edit"} \cap ToSet(x.blocks), x.id \in run[q].mapped
               PROVE  <<run[q].turn, x.id, b>> \in toolUses' \/ \E y \in Filed(run[q].session) : y.use = x.id
    BY <1>1, <1>2 DEF UsesAwait
  <2>1. <<run[q].turn, x.id, b>> \in toolUses \/ \E y \in Filed(run[q].session) : y.use = x.id
    BY DEF LiveInv, UsesAwait
  <2>2. QED
    BY <2>1
<1>13. LastPrompt'
  BY <1>1, <1>2 DEF LiveInv, LastPrompt
<1>14. OwnTurn'
  <2> SUFFICES ASSUME NEW q \in Runs \ disturbed, NEW id \in run[q].mapped \cup {m.id : m \in Waiting(q)'}
               PROVE  /\ run[q].prompt < id
                      /\ \A x \in Filed(run[q].session) : x.text /\ run[q].prompt < x.id => id < x.id
    BY <1>2 DEF OwnTurn
  <2>1. id \in run[q].mapped \cup {m.id : m \in Waiting(q)}
    BY <1>1
  <2>2. QED
    BY <2>1 DEF LiveInv, OwnTurn
<1>15. QED
  BY <1>4, <1>5, <1>6, <1>7, <1>8, <1>9, <1>11, <1>12, <1>13, <1>14 DEF LiveInv

LEMMA LiveEnds ==
  ASSUME LiveInv, (Typed /\ Numbered /\ Order /\ OpenHaveMet)', NEW r \in Runs, Running(r),
         NEW st, st \notin {"idle", "running"}, Ends(r, st)
  PROVE  LiveInv'
<1>1. run \in [Runs -> RunSet] /\ stream \in [Runs -> Seq(RecordSet)]
  BY DEF LiveInv, Typed
<1>2. /\ run' = [run EXCEPT ![r].stage = st] /\ stream' = [stream EXCEPT ![r] = <<>>]
      /\ UNCHANGED <<file, records, live, met, disturbed, toolUses>>
  BY DEF Ends, files, ghosts
<1>3. \A q \in Runs : /\ run'[q].session = run[q].session /\ run'[q].turn = run[q].turn
                      /\ run'[q].prompt = run[q].prompt /\ run'[q].mapped = run[q].mapped
                      /\ run'[q].stage = IF q = r THEN st ELSE run[q].stage
  BY <1>1, <1>2 DEF RunSet
<1>4. stream'[r] = <<>> /\ \A q \in Runs \ {r} : stream'[q] = stream[q]
  BY <1>1, <1>2
<1>5. \A q \in Runs : ~Running(q) => stream[q] = <<>>
  BY DEF LiveInv, Past
<1>6. \A q \in Runs : /\ Running(q)' => Running(q) /\ stream'[q] = stream[q]
                      /\ stream'[q] = stream[q] \/ stream'[q] = <<>>
                      /\ ~Running(q)' => stream'[q] = <<>>
                      /\ run'[q].stage = "idle" <=> run[q].stage = "idle"
  BY <1>3, <1>4, <1>5 DEF Running
<1>7. QED
  BY <1>2, <1>3, <1>6, LiveCloses

LEMMA LiveForgets ==
  ASSUME LiveInv, (Typed /\ Numbered /\ Order /\ OpenHaveMet)', NEW r \in Runs, Finally(r)
  PROVE  LiveInv'
<1>1. run \in [Runs -> RunSet]
  BY DEF LiveInv, Typed
<1>2. /\ run[r].open /\ ~Running(r) /\ run' = [run EXCEPT ![r].open = FALSE]
      /\ toolUses' = {x \in toolUses : x[1] # run[r].turn}
      /\ UNCHANGED <<file, records, live, met, disturbed, stream>>
  BY DEF Finally, files, ghosts
<1>3. \A q \in Runs : /\ run'[q].session = run[q].session /\ run'[q].turn = run[q].turn
                      /\ run'[q].prompt = run[q].prompt /\ run'[q].mapped = run[q].mapped
                      /\ run'[q].stage = run[q].stage
  BY <1>1, <1>2 DEF RunSet
<1>4. \A q \in Runs : ~Running(q) => stream[q] = <<>>
  BY DEF LiveInv, Past
<1>5. \A q \in Runs : /\ Running(q)' => Running(q) /\ stream'[q] = stream[q]
                      /\ stream'[q] = stream[q] \/ stream'[q] = <<>>
                      /\ ~Running(q)' => stream'[q] = <<>>
                      /\ run'[q].stage = "idle" <=> run[q].stage = "idle"
  BY <1>2, <1>3, <1>4 DEF Running
<1>6. toolUses' \subseteq toolUses
  BY <1>2
<1>7. ASSUME NEW q \in Runs, Running(q), Alone(q), NEW u \in toolUses, u[1] = run[q].turn PROVE u \in toolUses'
  <2>1. run[q].open /\ q # r /\ <<q, r>> \notin met
    BY <1>2, <1>7 DEF LiveInv, Order, Alone
  <2>2. run[q].turn # run[r].turn
    BY <1>2, <2>1 DEF LiveInv, OpenHaveMet
  <2>3. QED
    BY <1>2, <1>7, <2>2
<1>8. QED
  BY <1>2, <1>3, <1>5, <1>6, <1>7, LiveCloses

\* A run maps the next record of its stream: it sends some items, and tool uses are added to
\* the table and taken from it.
LEMMA LiveMaps ==
  ASSUME LiveInv, (Typed /\ Numbered /\ Order /\ OpenHaveMet)', UNCHANGED <<file, records, met, disturbed>>,
         NEW r \in Runs, Running(r), NEW m, m \in Waiting(r), Waiting(r)' = Waiting(r) \ {m},
         \A x \in Waiting(r) : x # m => m.id < x.id, Upward(stream[r])',
         \A q \in Runs \ {r} : run'[q] = run[q] /\ stream'[q] = stream[q] /\ live'[q] = live[q],
         run'[r].session = run[r].session, run'[r].turn = run[r].turn, run'[r].prompt = run[r].prompt,
         run'[r].stage = run[r].stage, run'[r].mapped = run[r].mapped \cup {m.id},
         live' \in [Runs -> Seq(ItemSet)], NEW N, SentBy(r)' = SentBy(r) \cup N,
         toolUses' \subseteq Turns \X Nat \X {"bash", "edit"},
         \A u \in toolUses' : u \in toolUses \/ (u[2] = m.id /\ u[3] \in ToSet(m.blocks)),
         \A u \in toolUses : u \in toolUses' \/ (u[1] = run[r].turn /\ u[2] = m.use /\ m.use # 0),
         \A b \in Tools : b \in ToSet(m.blocks) => <<run[r].turn, m.id, b>> \in toolUses',
         \A y \in N : y.id = m.id \/ \E u \in toolUses : u[2] = y.id,
         \A y \in N : y.kind # "file" => \/ y.id = m.id /\ Block(y.kind) \in ToSet(m.blocks)
                                         \/ \E u \in toolUses : u[2] = y.id /\ u[3] = Block(y.kind),
         \A b \in ToSet(m.blocks) : ToSet(Event(b, m.id)) \subseteq N,
         m.use # 0 => \A u \in toolUses : u[1] = run[r].turn /\ u[2] = m.use =>
                        Item(IF u[3] = "bash" THEN "command" ELSE "file", m.use, Status(m.error)) \in N
  PROVE  LiveInv'
<1>1. /\ \A q \in Runs : Running(q)' = Running(q) /\ Alone(q)' = Alone(q) /\ Filed(run[q].session)' = Filed(run[q].session)
      /\ \A s \in Sessions : Filed(s)' = Filed(s)
  BY DEF Running, Alone, Filed
<1>2. /\ \A q \in Runs \ {r} : Waiting(q)' = Waiting(q) /\ SentBy(q)' = SentBy(q)
      /\ \A q \in Runs : Waiting(q)' \subseteq Waiting(q) /\ SentBy(q) \subseteq SentBy(q)'
  BY DEF Waiting, SentBy
<1>3. /\ m \in RecordSet /\ m.id \in Nat /\ m.use \in Nat /\ m.id <= records /\ m.id \notin run[r].mapped
      /\ m.use < m.id /\ OneRole(m) /\ run[r].session \in Sessions
  BY LiveFacts DEF LiveInv, Past, Forms, Running
<1>4. \A x \in Waiting(r) : x.id \in Nat /\ x.use \in Nat /\ (x # m => x.id # m.id /\ x.id # m.use) /\ m.id # m.use
  <2>1. \A x \in Waiting(r) : x.id \in Nat /\ x.use \in Nat
    BY LiveFacts
  <2>2. QED
    BY <1>3, <2>1
<1>5. \A x \in Filed(run[r].session) : x.id = m.id => x = m
  BY <1>3 DEF LiveInv, SameRecord
<1>6. Past'
  <2>1. \A q \in Runs : Upward(stream[q])'
    BY DEF LiveInv, Past, Upward
  <2>2. \A q \in Runs : ~Running(q)' => stream'[q] = <<>>
    BY <1>1 DEF LiveInv, Past
  <2>3. \A q \in Runs : run'[q].prompt <= records' /\ \A id \in run'[q].mapped : id <= records'
    <3>1. \A q \in Runs : run[q].prompt <= records /\ \A id \in run[q].mapped : id <= records
      BY DEF LiveInv, Past
    <3>2. run'[r].prompt <= records' /\ \A id \in run'[r].mapped : id <= records'
      BY <1>3, <3>1
    <3>3. QED
      BY <3>1, <3>2
  <2>4. \A q \in Runs : run'[q].stage = "idle" => run'[q].mapped = {}
    <3>1. \A q \in Runs : run[q].stage = "idle" => run[q].mapped = {}
      BY DEF LiveInv, Past
    <3>2. run'[r].stage # "idle"
      BY DEF Running
    <3>3. QED
      BY <3>1, <3>2
  <2>5. \A q \in Runs : \A x \in Waiting(q)' : x.id <= records' /\ x.id \notin run'[q].mapped
    BY <1>2, <1>4 DEF LiveInv, Past
  <2>6. \A u \in toolUses' : u[2] <= records'
    BY <1>3 DEF LiveInv, Past
  <2>7. \A q \in Runs : \A y \in SentBy(q)' : y.id <= records'
    <3>1. \A y \in N : y.id <= records
      BY <1>3 DEF LiveInv, Past
    <3>2. \A q \in Runs : \A y \in SentBy(q) : y.id <= records
      BY DEF LiveInv, Past
    <3>3. \A q \in Runs : SentBy(q)' \subseteq SentBy(q) \cup N
      BY <1>2
    <3>4. QED
      BY <3>1, <3>2, <3>3
  <2>8. QED
    BY <2>1, <2>2, <2>3, <2>4, <2>5, <2>6, <2>7 DEF Past
<1>7. Forms'
  BY <1>1, <1>2 DEF LiveInv, Forms, Single
<1>8. SameRecord'
  BY <1>1, <1>2 DEF LiveInv, SameRecord
<1>9. StillFiled'
  BY <1>1, <1>2 DEF LiveInv, StillFiled
<1>10. ASSUME NEW s \in Sessions, NEW x \in Filed(s), x.id = m.id PROVE x = m
  BY <1>10 DEF LiveInv, SameRecord
<1>11. KindsKept'
  <2> SUFFICES ASSUME NEW s \in Sessions, NEW x \in Filed(s)
               PROVE  /\ \A u \in toolUses' : u[2] = x.id => u[3] \in ToSet(x.blocks)
                      /\ \A q \in Runs : \A y \in SentBy(q)' :
                           y.kind # "file" /\ y.id = x.id => Block(y.kind) \in ToSet(x.blocks)
    BY <1>1 DEF KindsKept
  <2>1. /\ \A u \in toolUses : u[2] = x.id => u[3] \in ToSet(x.blocks)
        /\ \A q \in Runs : \A y \in SentBy(q) : y.kind # "file" /\ y.id = x.id => Block(y.kind) \in ToSet(x.blocks)
    BY DEF LiveInv, KindsKept
  <2>2. \A y \in N : y.kind # "file" /\ y.id = x.id => Block(y.kind) \in ToSet(x.blocks)
    BY <1>10, <2>1
  <2>3. ASSUME NEW u \in toolUses', u[2] = x.id PROVE u[3] \in ToSet(x.blocks)
    <3>1. CASE u \in toolUses
      BY <2>1, <2>3, <3>1
    <3>2. CASE u[2] = m.id /\ u[3] \in ToSet(m.blocks)
      BY <1>10, <2>3, <3>2
    <3>3. QED
      BY <3>1, <3>2
  <2>4. \A q \in Runs : SentBy(q)' \subseteq SentBy(q) \cup N
    BY <1>2
  <2>5. QED
    BY <2>1, <2>2, <2>3, <2>4
<1>12. ASSUME NEW q \in Runs \ {r}, Running(q), Alone(q) PROVE run[q].turn # run[r].turn
  <2>1. run[q].open /\ run[r].open /\ <<q, r>> \notin met
    BY <1>12 DEF LiveInv, Order, Alone
  <2>2. QED
    BY <2>1 DEF LiveInv, OpenHaveMet
<1>13. ASSUME NEW b, <<run[r].turn, m.use, b>> \in toolUses, m.use # 0
       PROVE  Item(IF b = "bash" THEN "command" ELSE "file", m.use, Status(m.error)) \in SentBy(r)'
  <2> DEFINE u == <<run[r].turn, m.use, b>>
  <2>1. u \in toolUses /\ u[1] = run[r].turn /\ u[2] = m.use /\ u[3] = b
    BY <1>13
  <2> HIDE DEF u
  <2>2. QED
    BY <1>13, <2>1
<1>14. \A id, b : <<run[r].turn, id, b>> \in toolUses /\ id # m.use => <<run[r].turn, id, b>> \in toolUses'
  OBVIOUS
<1>15. MappedSent'
  <2> SUFFICES ASSUME NEW q \in Runs, Alone(q), NEW x \in Filed(run[q].session), x.id \in run'[q].mapped
               PROVE  Sent(q, x)'
    BY <1>1 DEF MappedSent
  <2>1. CASE x.id \in run[q].mapped
    <3>1. Sent(q, x)
      BY <2>1 DEF LiveInv, MappedSent
    <3>2. QED
      BY <1>1, <1>2, <3>1 DEF Sent
  <2>2. CASE x.id \notin run[q].mapped
    <3>1. q = r /\ x = m
      BY <1>5, <2>2
    <3>2. \A b \in ToSet(m.blocks) : ToSet(Event(b, m.id)) \subseteq SentBy(r)'
      OBVIOUS
    <3>3. ASSUME m.use # 0, NEW b \in {"bash", "edit"}, Awaits(r, m.use, b)
          PROVE  Item(IF b = "bash" THEN "command" ELSE "file", m.use, Status(m.error)) \in SentBy(r)'
      <4>1. <<run[r].turn, m.use, b>> \in toolUses
        BY <1>4, <3>3 DEF Awaits
      <4>2. QED
        BY <1>13, <3>3, <4>1
    <3>4. ASSUME m.use # 0
          PROVE  /\ \E kind \in {"command", "file"} : Item(kind, m.use, Status(m.error)) \in SentBy(r)'
                 /\ \A y \in Filed(run[r].session) : y.id = m.use /\ "bash" \in ToSet(y.blocks) =>
                      Item("command", m.use, Status(m.error)) \in SentBy(r)'
      <4>1. /\ \E b \in {"bash", "edit"} : Awaits(r, m.use, b)
            /\ \A y \in Filed(run[r].session) : y.id = m.use /\ "bash" \in ToSet(y.blocks) => Awaits(r, m.use, "bash")
        BY <3>1, <3>4 DEF LiveInv, ResultsAwaited
      <4>2. QED
        BY <3>3, <3>4, <4>1
    <3>5. QED
      BY <1>1, <3>1, <3>2, <3>4 DEF Sent
  <2>3. QED
    BY <2>1, <2>2
<1>16. ASSUME NEW q \in Runs \ {r}, Running(q), Alone(q), NEW id, NEW b, <<run[q].turn, id, b>> \in toolUses
       PROVE  <<run'[q].turn, id, b>> \in toolUses'
  BY <1>12, <1>16
<1>17. ResultsAwaited'
  <2> SUFFICES ASSUME NEW q \in Runs, Alone(q), Running(q), NEW x \in Waiting(q)', x.use # 0, NEW b \in {"bash", "edit"},
                      Awaits(q, x.use, b)
               PROVE  Awaits(q, x.use, b)'
    <3>1. ASSUME NEW q \in Runs, Alone(q), Running(q), NEW x \in Waiting(q)', x.use # 0
          PROVE  /\ \E b \in {"bash", "edit"} : Awaits(q, x.use, b)
                 /\ \A y \in Filed(run[q].session) : y.id = x.use /\ "bash" \in ToSet(y.blocks) => Awaits(q, x.use, "bash")
      BY <1>2, <3>1 DEF LiveInv, ResultsAwaited
    <3>2. QED
      BY <1>1, <3>1 DEF ResultsAwaited
  <2>1. CASE q # r
    BY <1>2, <1>16, <2>1 DEF Awaits
  <2>2. CASE q = r
    <3>1. x \in Waiting(r) /\ x # m
      BY <2>2
    <3>2. x.use # m.use
      BY <3>1 DEF LiveInv, Forms, Single
    <3>3. CASE <<run[r].turn, x.use, b>> \in toolUses
      BY <1>14, <2>2, <3>2, <3>3 DEF Awaits
    <3>4. ASSUME NEW y \in Waiting(r), y.id = x.use, b \in ToSet(y.blocks) PROVE Awaits(r, x.use, b)'
      <4>1. CASE y = m
        BY <3>4, <4>1 DEF Awaits, Tools
      <4>2. CASE y # m
        BY <3>4, <4>2 DEF Awaits
      <4>3. QED
        BY <4>1, <4>2
    <3>5. QED
      BY <2>2, <3>3, <3>4 DEF Awaits
  <2>3. QED
    BY <2>1, <2>2
<1>18. UsesAwait'
  <2> SUFFICES ASSUME NEW q \in Runs, Alone(q), Running(q), NEW x \in Filed(run[q].session),
                      NEW b \in {"bash", "edit"} \cap ToSet(x.blocks), x.id \in run'[q].mapped
               PROVE  <<run'[q].turn, x.id, b>> \in toolUses' \/ \E y \in Filed(run[q].session) : y.use = x.id
    BY <1>1 DEF UsesAwait
  <2>1. CASE x.id \in run[q].mapped
    <3>1. <<run[q].turn, x.id, b>> \in toolUses \/ \E y \in Filed(run[q].session) : y.use = x.id
      BY <2>1 DEF LiveInv, UsesAwait
    <3>2. CASE q # r
      BY <1>16, <3>1, <3>2
    <3>3. CASE q = r /\ x.id # m.use
      BY <1>14, <3>1, <3>3
    <3>4. CASE q = r /\ x.id = m.use
      <4>1. m \in Filed(run[r].session)
        BY <1>3, <3>4 DEF LiveInv, StillFiled
      <4>2. QED
        BY <3>4, <4>1
    <3>5. QED
      BY <3>2, <3>3, <3>4
  <2>2. CASE x.id \notin run[q].mapped
    <3>1. q = r /\ x = m
      BY <1>5, <2>2
    <3>2. QED
      BY <3>1 DEF Tools
  <2>3. QED
    BY <2>1, <2>2
<1>19. LastPrompt'
  BY <1>1 DEF LiveInv, LastPrompt
<1>20. OwnTurn'
  <2> SUFFICES ASSUME NEW q \in Runs \ disturbed, NEW id \in run'[q].mapped \cup {x.id : x \in Waiting(q)'}
               PROVE  /\ run[q].prompt < id
                      /\ \A x \in Filed(run[q].session) : x.text /\ run[q].prompt < x.id => id < x.id
    <3>1. \A q \in Runs : run'[q].prompt = run[q].prompt
      OBVIOUS
    <3>2. QED
      BY <1>1, <3>1 DEF OwnTurn
  <2>1. id \in run[q].mapped \cup {x.id : x \in Waiting(q)}
    BY <1>2
  <2>2. QED
    BY <2>1 DEF LiveInv, OwnTurn
<1>21. QED
  BY <1>6, <1>7, <1>8, <1>9, <1>11, <1>15, <1>17, <1>18, <1>19, <1>20 DEF LiveInv

\* The first record of a stream, and the rest.
LEMMA FirstOf ==
  ASSUME NEW s \in Seq(RecordSet), s # <<>>, Upward(s)
  PROVE  /\ Head(s) \in ToSet(s) /\ Tail(s) \in Seq(RecordSet) /\ Upward(Tail(s))
         /\ ToSet(Tail(s)) = ToSet(s) \ {Head(s)}
         /\ \A x \in ToSet(s) : x # Head(s) => Head(s).id < x.id
<1> DEFINE n == Len(s)
           t == Tail(s)
<1>1. /\ n \in Nat \ {0} /\ t \in Seq(RecordSet) /\ Len(t) = n - 1 /\ Head(s) = s[1]
      /\ \A i \in 1..Len(t) : t[i] = s[i + 1]
  OBVIOUS
<1>2. \A i \in 1..n : s[i] \in RecordSet /\ s[i].id \in Nat
  <2>1. \A i \in 1..n : s[i] \in RecordSet
    OBVIOUS
  <2>2. QED
    BY <2>1 DEF RecordSet
<1>3. ToSet(s) = {s[i] : i \in 1..n} /\ ToSet(t) = {t[i] : i \in 1..Len(t)}
  <2>1. ToSet(s) = {s[i] : i \in 1..n}
    BY ElementsOf
  <2> HIDE DEF t
  <2>2. ToSet(t) = {t[i] : i \in 1..Len(t)}
    BY <1>1, ElementsOf
  <2>3. QED
    BY <2>1, <2>2
<1>4. \A i, j \in 1..n : i < j => s[i].id < s[j].id
  BY DEF Upward
<1> HIDE DEF n, t
<1>5. 1 \in 1..n /\ \A i \in 2..n : i \in 1..n /\ i - 1 \in 1..Len(t) /\ t[i - 1] = s[i]
  <2>1. \A i \in 2..n : i \in 1..n /\ i - 1 \in 1..Len(t) /\ (i - 1) + 1 = i
    BY <1>1
  <2>2. QED
    BY <1>1, <2>1
<1>6. \A i \in 2..n : s[1].id < s[i].id /\ s[i].id \in Nat /\ s[1].id \in Nat
  <2>1. \A i \in 2..n : i \in 1..n /\ 1 \in 1..n /\ 1 < i
    BY <1>1
  <2>2. QED
    BY <1>2, <1>4, <2>1
<1>7. \A i \in 1..n : i = 1 \/ i \in 2..n
  BY <1>1
<1>8. \A x \in ToSet(s) : x # Head(s) => Head(s).id < x.id
  BY <1>1, <1>3, <1>6, <1>7
<1>9. ToSet(t) = ToSet(s) \ {Head(s)}
  <2>1. ASSUME NEW x \in ToSet(t) PROVE x \in ToSet(s) /\ x # Head(s)
    <3>1. PICK i \in 1..Len(t) : x = t[i]
      BY <1>3, <2>1
    <3>2. i + 1 \in 2..n /\ i + 1 \in 1..n
      BY <1>1, <3>1
    <3>3. s[1].id < s[i + 1].id /\ s[i + 1].id \in Nat /\ s[1].id \in Nat
      BY <1>6, <3>2
    <3>4. s[i + 1] # s[1]
      BY <3>3
    <3>5. QED
      BY <1>1, <1>3, <3>1, <3>2, <3>4
  <2>2. ASSUME NEW x \in ToSet(s), x # Head(s) PROVE x \in ToSet(t)
    <3>1. PICK i \in 1..n : x = s[i]
      BY <1>3
    <3>2. i \in 2..n
      BY <1>1, <1>7, <2>2, <3>1
    <3>3. QED
      BY <1>3, <1>5, <3>1, <3>2
  <2>3. QED
    BY <2>1, <2>2
<1>10. Upward(t)
  <2>1. ASSUME NEW i \in 1..Len(t), NEW j \in 1..Len(t), i < j PROVE t[i].id < t[j].id
    <3>1. i + 1 \in 1..n /\ j + 1 \in 1..n /\ i + 1 < j + 1
      BY <1>1, <2>1
    <3>2. s[i + 1].id < s[j + 1].id
      BY <1>4, <3>1
    <3>3. QED
      BY <1>1, <3>2
  <2>2. QED
    BY <2>1 DEF Upward
<1>11. Head(s) \in ToSet(s)
  BY <1>1, <1>3, <1>5
<1>12. QED
  BY <1>1, <1>8, <1>9, <1>10, <1>11 DEF t

\* What a result sends: the end of the tool use it is about.
EndsOf(r, m) == {Item(IF x[3] = "bash" THEN "command" ELSE "file", x[2], Status(m.error)) : x \in UsesOf(r, m)}

LEMMA EndsSent ==
  ASSUME NEW r \in Runs, NEW m \in RecordSet, toolUses \subseteq Turns \X Nat \X {"bash", "edit"},
         NEW old \in Seq(ItemSet)
  PROVE  /\ old \o SetToSeq(EndsOf(r, m)) \in Seq(ItemSet)
         /\ ToSet(old \o SetToSeq(EndsOf(r, m))) = ToSet(old) \cup EndsOf(r, m)
<1> DEFINE st == Status(m.error)
           S == EndsOf(r, m)
           a == Item("command", m.use, st)
           b == Item("file", m.use, st)
<1>1. m.use \in Nat /\ st \in {"failed", "completed"}
  BY DEF RecordSet, Status
<1>2. a \in ItemSet /\ b \in ItemSet
  BY <1>1 DEF Item, ItemSet
<1>3. S \subseteq {a, b}
  BY DEF EndsOf, UsesOf
<1> HIDE DEF a, b, S, st
<1>4. IsFiniteSet({a, b})
  <2>1. IsFiniteSet({a})
    BY FS_Singleton
  <2>2. IsFiniteSet({a} \cup {b})
    BY <2>1, FS_AddElement
  <2>3. {a, b} = {a} \cup {b}
    OBVIOUS
  <2>4. QED
    BY <2>2, <2>3
<1>5. IsFiniteSet(S)
  BY <1>3, <1>4, FS_Subset
<1>6. SetToSeq(S) \in Seq(S) /\ ToSet(SetToSeq(S)) = S
  BY <1>5, ElementsOfSet
<1>7. S \subseteq ItemSet
  BY <1>2, <1>3
<1> DEFINE q == SetToSeq(S)
<1> HIDE DEF q
<1>8. q \in Seq(ItemSet)
  BY <1>6, <1>7 DEF q
<1>9. old \o q \in Seq(ItemSet) /\ ToSet(old \o q) = ToSet(old) \cup ToSet(q)
  BY <1>8, ElementsOfCat
<1>10. QED
  BY <1>6, <1>9 DEF q, S

LEMMA LiveMapped ==
  ASSUME LiveInv, (Typed /\ Numbered /\ Order /\ OpenHaveMet)', NEW r \in Runs, MapMessage(r)
  PROVE  LiveInv'
<1>1. /\ run \in [Runs -> RunSet] /\ stream \in [Runs -> Seq(RecordSet)] /\ live \in [Runs -> Seq(ItemSet)]
      /\ toolUses \subseteq Turns \X Nat \X {"bash", "edit"}
  BY DEF LiveInv, Typed, Past
<1>2. Running(r) /\ stream[r] # <<>> /\ UNCHANGED <<file, records, met, disturbed>>
  BY DEF MapMessage, files
<1>3. PICK m : m = Head(stream[r])
  OBVIOUS
<1>4. stream[r] \in Seq(RecordSet) /\ Upward(stream[r])
  BY <1>1 DEF LiveInv, Past
<1>5. /\ stream' = [stream EXCEPT ![r] = Tail(stream[r])] /\ run' = [run EXCEPT ![r].mapped = @ \cup {m.id}]
      /\ (m.role = "assistant" /\ MapAssistant(r, m)) \/ (m.role = "user" /\ MapResult(r, m))
  BY <1>3 DEF MapMessage
<1>6. /\ stream'[r] = Tail(stream[r])
      /\ \A q \in Runs \ {r} : run'[q] = run[q] /\ stream'[q] = stream[q]
      /\ run'[r].session = run[r].session /\ run'[r].turn = run[r].turn /\ run'[r].prompt = run[r].prompt
      /\ run'[r].stage = run[r].stage /\ run'[r].mapped = run[r].mapped \cup {m.id}
  BY <1>1, <1>5 DEF RunSet
<1>7. /\ m \in Waiting(r) /\ Waiting(r)' = Waiting(r) \ {m} /\ \A x \in Waiting(r) : x # m => m.id < x.id
      /\ Upward(stream[r])'
  BY <1>2, <1>3, <1>4, <1>6, FirstOf DEF Waiting, Upward
<1>8. m \in RecordSet /\ m.id \in Nat /\ m.use \in Nat /\ OneRole(m) /\ m.blocks \in Seq(Blocks)
  BY <1>7, LiveFacts DEF LiveInv, Forms, RecordSet
<1>9. run[r].turn \in Turns
  BY <1>2 DEF LiveInv, Typed, Running
<1>10. CASE m.role = "assistant" /\ MapAssistant(r, m)
  <2>1. PICK N : N = EventsOf(m.id, ToSet(m.blocks))
    OBVIOUS
  <2>2. /\ live' = [live EXCEPT ![r] = Streamed(live[r], m.id, m.blocks)]
        /\ toolUses' = toolUses \cup {<<run[r].turn, m.id, b>> : b \in ToSet(m.blocks) \cap {"bash", "edit"}}
    BY <1>10 DEF MapAssistant, Streamed
  <2>3. /\ Streamed(live[r], m.id, m.blocks) \in Seq(ItemSet)
        /\ ToSet(Streamed(live[r], m.id, m.blocks)) = ToSet(live[r]) \cup N
    BY <1>1, <1>8, <2>1, StreamedIs
  <2>4. live' \in [Runs -> Seq(ItemSet)] /\ \A q \in Runs \ {r} : live'[q] = live[q]
    BY <1>1, <2>2, <2>3
  <2>5. SentBy(r)' = SentBy(r) \cup N
    BY <1>1, <2>2, <2>3 DEF SentBy
  <2>6. toolUses' \subseteq Turns \X Nat \X {"bash", "edit"}
    BY <1>1, <1>8, <1>9, <2>2
  <2>7. /\ \A u \in toolUses' : u \in toolUses \/ (u[2] = m.id /\ u[3] \in ToSet(m.blocks))
        /\ toolUses \subseteq toolUses'
    BY <2>2
  <2>8. \A b \in Tools : b \in ToSet(m.blocks) => <<run[r].turn, m.id, b>> \in toolUses'
    BY <2>2 DEF Tools
  <2>9. m.use = 0
    BY <1>8, <1>10 DEF OneRole
  <2>10. ASSUME NEW y \in N
         PROVE  y.id = m.id /\ (y.kind # "file" => Block(y.kind) \in ToSet(m.blocks))
    <3>1. PICK b \in ToSet(m.blocks) : y \in ToSet(Event(b, m.id))
      BY <2>1 DEF EventsOf
    <3>2. b \in Blocks
      BY <1>8, <3>1, ElementsOf
    <3>3. y = Item(CASE b = "text" -> "message" [] b = "thinking" -> "reasoning"
                     [] b = "bash" -> "command" [] OTHER -> "file", m.id,
                   IF b \in {"text", "thinking"} THEN "completed" ELSE "running")
      BY <1>8, <3>1, <3>2, EventTypes
    <3>4. y.id = m.id
      BY <3>3 DEF Item
    <3>5. y.kind = CASE b = "text" -> "message" [] b = "thinking" -> "reasoning"
                     [] b = "bash" -> "command" [] OTHER -> "file"
      BY <3>3 DEF Item
    <3>6. y.kind # "file" => Block(y.kind) = b
      BY <3>5 DEF Block
    <3>7. QED
      BY <3>1, <3>4, <3>6
  <2>11. \A b \in ToSet(m.blocks) : ToSet(Event(b, m.id)) \subseteq N
    BY <2>1 DEF EventsOf
  <2>12. QED
    BY <1>2, <1>6, <1>7, <2>4, <2>5, <2>6, <2>7, <2>8, <2>9, <2>10, <2>11, LiveMaps
<1>11. CASE m.role = "user" /\ MapResult(r, m)
  <2>1. PICK N : N = EndsOf(r, m)
    OBVIOUS
  <2>2. live' = [live EXCEPT ![r] = @ \o SetToSeq(EndsOf(r, m))] /\ toolUses' = toolUses \ UsesOf(r, m)
    BY <1>11 DEF MapResult, EndsOf
  <2>3. /\ live[r] \o SetToSeq(EndsOf(r, m)) \in Seq(ItemSet)
        /\ ToSet(live[r] \o SetToSeq(EndsOf(r, m))) = ToSet(live[r]) \cup N
    BY <1>1, <1>8, <2>1, EndsSent
  <2>4. live' \in [Runs -> Seq(ItemSet)] /\ \A q \in Runs \ {r} : live'[q] = live[q]
    BY <1>1, <2>2, <2>3
  <2>5. SentBy(r)' = SentBy(r) \cup N
    BY <1>1, <2>2, <2>3 DEF SentBy
  <2>6. toolUses' \subseteq Turns \X Nat \X {"bash", "edit"} /\ toolUses' \subseteq toolUses
    BY <1>1, <2>2
  <2>7. m.blocks = <<>> /\ m.use # 0
    BY <1>7, <1>8, <1>11 DEF OneRole, LiveInv, Forms
  <2>8. ToSet(m.blocks) = {}
    BY <2>7, ElementsOfNone
  <2>9. \A u \in toolUses : u \in toolUses' \/ (u[1] = run[r].turn /\ u[2] = m.use /\ m.use # 0)
    BY <2>2, <2>7 DEF UsesOf
  <2>10. ASSUME NEW y \in N
         PROVE  \E u \in toolUses : u[2] = y.id /\ (y.kind # "file" => u[3] = Block(y.kind))
    <3>1. PICK u \in UsesOf(r, m) : y = Item(IF u[3] = "bash" THEN "command" ELSE "file", u[2], Status(m.error))
      BY <2>1 DEF EndsOf
    <3>2. u \in toolUses
      BY <3>1 DEF UsesOf
    <3>3. y.id = u[2] /\ y.kind = IF u[3] = "bash" THEN "command" ELSE "file"
      BY <3>1 DEF Item
    <3>4. y.kind # "file" => u[3] = Block(y.kind)
      BY <3>3 DEF Block
    <3>5. QED
      BY <3>2, <3>3, <3>4
  <2>11. \A u \in toolUses : u[1] = run[r].turn /\ u[2] = m.use =>
           Item(IF u[3] = "bash" THEN "command" ELSE "file", m.use, Status(m.error)) \in N
    <3>1. \A u \in toolUses : u[1] = run[r].turn /\ u[2] = m.use => u \in UsesOf(r, m)
      BY DEF UsesOf
    <3>2. \A u \in UsesOf(r, m) : Item(IF u[3] = "bash" THEN "command" ELSE "file", u[2], Status(m.error)) \in N
      BY <2>1 DEF EndsOf
    <3> HIDE DEF Item
    <3>3. QED
      BY <3>1, <3>2
  <2>12. /\ \A u \in toolUses' : u \in toolUses \/ (u[2] = m.id /\ u[3] \in ToSet(m.blocks))
         /\ \A b \in Tools : b \in ToSet(m.blocks) => <<run[r].turn, m.id, b>> \in toolUses'
         /\ \A b \in ToSet(m.blocks) : ToSet(Event(b, m.id)) \subseteq N
    BY <2>6, <2>8
  <2>13. /\ \A y \in N : y.id = m.id \/ \E u \in toolUses : u[2] = y.id
         /\ \A y \in N : y.kind # "file" => \/ y.id = m.id /\ Block(y.kind) \in ToSet(m.blocks)
                                         \/ \E u \in toolUses : u[2] = y.id /\ u[3] = Block(y.kind)
    BY <2>10
  <2>14. QED
    BY <1>2, <1>6, <1>7, <2>4, <2>5, <2>6, <2>9, <2>11, <2>12, <2>13, LiveMaps
<1>12. QED
  BY <1>5, <1>10, <1>11
------------------------------------------------------------------------------
(* The invariant                                                           *)

LEMMA LiveInit == Init => LiveInv
<1> SUFFICES ASSUME Init PROVE LiveInv
  OBVIOUS
<1>1. \A r \in Runs : run[r] = Idle /\ stream[r] = <<>> /\ live[r] = <<>>
  BY DEF Init
<1>2. \A s \in Sessions : file[s] = <<>>
  BY DEF Init
<1>3. toolUses = {} /\ met = {} /\ records = 0 /\ disturbed = {}
  BY DEF Init
<1>4. Idle.stage = "idle" /\ Idle.mapped = {} /\ Idle.prompt = 0
  BY DEF Idle
<1> HIDE DEF Idle
<1>5. Typed /\ Numbered /\ Order /\ OpenHaveMet
  BY TypedInit, NumberedInit, AuthInit DEF Auth
<1>6. /\ \A r \in Runs : Waiting(r) = {} /\ SentBy(r) = {} /\ ~Running(r) /\ ~Alone(r)
      /\ \A s \in Sessions : Filed(s) = {}
  BY <1>1, <1>2, <1>4, ElementsOfNone DEF Waiting, SentBy, Running, Alone, Filed
<1>7. Past
  <2>1. Upward(<<>>)
    BY DEF Upward
  <2>2. live \in [Runs -> Seq(ItemSet)]
    <3>1. <<>> \in Seq(ItemSet)
      OBVIOUS
    <3>2. QED
      BY <3>1 DEF Init
  <2>3. QED
    BY <1>1, <1>3, <1>4, <1>6, <2>1, <2>2 DEF Past
<1>8. Forms /\ SameRecord /\ StillFiled /\ KindsKept
  BY <1>6 DEF Forms, SameRecord, StillFiled, KindsKept, Single
<1>9. MappedSent /\ ResultsAwaited /\ UsesAwait /\ LastPrompt
  BY <1>6 DEF MappedSent, ResultsAwaited, UsesAwait, LastPrompt
<1>10. OwnTurn
  BY <1>1, <1>4, <1>6 DEF OwnTurn
<1>11. QED
  BY <1>5, <1>7, <1>8, <1>9, <1>10 DEF LiveInv

LEMMA LiveStutters ==
  ASSUME LiveInv, (Typed /\ Numbered /\ Order /\ OpenHaveMet)', UNCHANGED vars
  PROVE  LiveInv'
<1>1. UNCHANGED <<file, records, run, stream, live, toolUses, met, disturbed>>
  BY DEF vars, files, turnVars, ghosts
<1>2. \A q \in Runs : Running(q)' = Running(q) /\ (~Running(q) => stream[q] = <<>>)
  BY <1>1 DEF LiveInv, Past, Running
<1>3. QED
  BY <1>1, <1>2, LiveCloses

LEMMA LiveNext ==
  ASSUME Auth, LiveInv, [Next]_vars
  PROVE  LiveInv'
<1>1. (Typed /\ Numbered /\ Order /\ OpenHaveMet)'
  <2>1. Typed' /\ Numbered'
    BY TypedNext, NumberedNext DEF LiveInv
  <2>2. Auth'
    BY AuthNext
  <2>3. QED
    BY <2>1, <2>2 DEF Auth
<1>2. ASSUME NEW s \in Sessions, LocalPrompt(s) PROVE LiveInv'
  BY <1>1, <1>2, LiveLocal
<1>3. ASSUME NEW s \in Sessions, DeleteThread(s) PROVE LiveInv'
  BY <1>1, <1>3, LiveDeletes
<1>4. ASSUME NEW r \in Runs, NEW s \in Sessions, NEW t \in Turns, StartRun(r, s, t) PROVE LiveInv'
  BY <1>1, <1>4, LiveStarts
<1>5. ASSUME NEW r \in Runs, Answer(r) PROVE LiveInv'
  BY <1>1, <1>5, LiveAnswers
<1>6. ASSUME NEW r \in Runs, MapMessage(r) PROVE LiveInv'
  BY <1>1, <1>6, LiveMapped
<1>7. ASSUME NEW r \in Runs, MapResultMessage(r) PROVE LiveInv'
  <2>1. PICK isError \in BOOLEAN :
          Ends(r, IF run[r].turn \in authTurns THEN "auth" ELSE IF isError THEN "failed" ELSE "completed")
    BY <1>7 DEF MapResultMessage
  <2>2. PICK st : st = IF run[r].turn \in authTurns THEN "auth" ELSE IF isError THEN "failed" ELSE "completed"
    OBVIOUS
  <2>3. Running(r) /\ Ends(r, st) /\ st \notin {"idle", "running"}
    BY <1>7, <2>1, <2>2 DEF MapResultMessage
  <2>4. QED
    BY <1>1, <2>3, LiveEnds
<1>8. ASSUME NEW r \in Runs, Abort(r) PROVE LiveInv'
  <2>1. Running(r) /\ Ends(r, "aborted") /\ "aborted" \notin {"idle", "running"}
    BY <1>8 DEF Abort
  <2>2. QED
    BY <1>1, <2>1, LiveEnds
<1>9. ASSUME NEW r \in Runs, Finally(r) PROVE LiveInv'
  BY <1>1, <1>9, LiveForgets
<1>10. CASE UNCHANGED vars
  BY <1>1, <1>10, LiveStutters
<1>11. QED
  BY <1>2, <1>3, <1>4, <1>5, <1>6, <1>7, <1>8, <1>9, <1>10 DEF Next

\* What the history of a turn shows is what its live stream sent, and a command or an edit
\* ended there in the same way, for any number of sessions, runs and records, and any content
\* of a message: LiveMatchesHistory (map_message and its helpers,
\* claude_agent_sdk.py:1240-1271 and 1435-1621, against _messages_to_history_turns, 514-576).
THEOREM LiveAsHistory == Spec => []LiveMatchesHistory
<1>1. Init => Auth /\ LiveInv
  BY AuthInit, LiveInit
<1>2. Auth /\ LiveInv /\ [Next]_vars => (Auth /\ LiveInv)'
  BY AuthNext, LiveNext
<1>3. Auth /\ LiveInv => LiveMatchesHistory
  BY LiveMatches
<1>4. QED
  BY <1>1, <1>2, <1>3, PTL DEF Spec
================================================================================
