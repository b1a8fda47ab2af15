-------------------------- MODULE TraceGraphProofs ---------------------------
(***************************************************************************)
(* Proofs about TraceGraph for headers of any length.                      *)
(***************************************************************************)
EXTENDS TraceGraph, WellFoundedInduction, TLAPS

-----------------------------------------------------------------------------
\* A set with 0 that is closed under successor has all natural numbers.
LEMMA SetInduction ==
    ASSUME NEW S, 0 \in S, \A n \in Nat : n \in S => n + 1 \in S
    PROVE  Nat \subseteq S
<1> DEFINE T == Nat \ S
           R == {p \in Nat \X Nat : p[1] < p[2]}
<1>1. IsWellFoundedOn(R, Nat)
  BY NatLessThanWellFounded, Zenon DEF OpToRel
<1>2. ASSUME T # {} PROVE FALSE
  <2>1. PICK x \in T : \A y \in T : ~ (<<y, x>> \in R)
    <3>1. T \subseteq Nat
      OBVIOUS
    <3> HIDE DEF R, T
    <3> QED
      BY <1>1, <1>2, <3>1, WFMin
  <2>2. PICK y \in Nat : x = y + 1
    <3>1. x \in Nat /\ x # 0
      OBVIOUS
    <3>2. x - 1 \in Nat /\ x = (x - 1) + 1
      BY <3>1
    <3> QED
      BY <3>2
  <2>3. <<y, x>> \in R
    BY <2>2
  <2>4. y \in S
    BY <2>1, <2>3
  <2> QED
    BY <2>2, <2>4
<1> QED
  BY <1>2

\* A loop over 1 .. m that starts with c, and what it has after each of its steps.
LoopExists(V, c, m, step) ==
    \E g \in [0 .. m -> V] : g[0] = c /\ \A n \in 1 .. m : g[n] = step[n][g[n - 1]]

LEMMA LoopDefined ==
    ASSUME NEW V, NEW c \in V, NEW m \in Nat, NEW step \in [1 .. m -> [V -> V]]
    PROVE  LoopExists(V, c, m, step)
<1> DEFINE UpTo(k) == {g \in [0 .. k -> V] : /\ g[0] = c
                                             /\ \A n \in 1 .. k : g[n] = step[n][g[n - 1]]}
           S == {k \in Nat : k <= m => UpTo(k) # {}}
<1>1. 0 \in S
  <2>1. [n \in 0 .. 0 |-> c] \in UpTo(0)
    OBVIOUS
  <2> QED
    BY <2>1
<1>2. ASSUME NEW k \in Nat, k \in S, k + 1 <= m PROVE UpTo(k + 1) # {}
  <2>1. k <= m
    BY <1>2
  <2>2. PICK g : g \in UpTo(k)
    BY <1>2, <2>1
  <2> DEFINE h == [n \in 0 .. k + 1 |-> IF n = k + 1 THEN step[k + 1][g[k]] ELSE g[n]]
  <2>3. step[k + 1][g[k]] \in V
    <3>1. g[k] \in V /\ k + 1 \in 1 .. m
      BY <2>2, <1>2
    <3> QED
      BY <3>1
  <2>4. h \in [0 .. k + 1 -> V] /\ h[0] = c
    BY <2>2, <2>3
  <2>5. ASSUME NEW n \in 1 .. k + 1 PROVE h[n] = step[n][h[n - 1]]
    BY <2>2
  <2>6. h \in UpTo(k + 1)
    BY <2>4, <2>5
  <2> QED
    BY <2>6
<1>3. \A k \in Nat : k \in S => k + 1 \in S
  <2> HIDE DEF UpTo
  <2> QED
    BY <1>2
<1>4. m \in S
  <2> HIDE DEF S
  <2> QED
    BY <1>1, <1>3, SetInduction
<1>5. PICK g : g \in UpTo(m)
  BY <1>4
<1> QED
  BY <1>5 DEF LoopExists

\* What a loop starts with and each step keeps, holds after every step.
LEMMA LoopKeeps ==
    ASSUME NEW m \in Nat, NEW S, 0 \in S, \A n \in 1 .. m : n - 1 \in S => n \in S
    PROVE  0 .. m \subseteq S
<1> DEFINE T == {n \in Nat : n <= m => n \in S}
<1>1. 0 \in T
  OBVIOUS
<1>2. ASSUME NEW n \in Nat, n \in T PROVE n + 1 \in T
  <2>1. CASE n + 1 <= m
    <3>1. n + 1 \in 1 .. m /\ (n + 1) - 1 = n /\ n \in S
      BY <1>2, <2>1
    <3>2. n + 1 \in S
      BY <3>1
    <3> QED
      BY <3>2
  <2> QED
    BY <2>1
<1>3. Nat \subseteq T
  <2> HIDE DEF T
  <2> QED
    BY <1>1, <1>2, SetInduction
<1> QED
  BY <1>3

LEMMA LoopType ==
    ASSUME NEW V, NEW m \in Nat, NEW f, f[0] \in V,
           \A n \in 1 .. m : f[n - 1] \in V => f[n] \in V
    PROVE  \A n \in 0 .. m : f[n] \in V
<1> DEFINE S == {n \in Int : f[n] \in V}
<1>1. 0 \in S /\ \A n \in 1 .. m : n - 1 \in S => n \in S
  OBVIOUS
<1>2. 0 .. m \subseteq S
  <2> HIDE DEF S
  <2> QED
    BY <1>1, LoopKeeps
<1> QED
  BY <1>2

-----------------------------------------------------------------------------
\* The edges of a word are pairs of names.
LEMMA SegmentsType ==
    ASSUME NEW word \in Seq(Token)
    PROVE  /\ Segments(word) \in Seq(Token \X Token)
           /\ word = << >> => Len(Segments(word)) = 0
           /\ word # << >> => Len(Segments(word)) = Len(word) - 1
           /\ \A j \in 1 .. Len(word) - 1 : Segments(word)[j] = <<word[j], word[j + 1]>>
<1>1. \A j \in 1 .. Len(word) - 1 : <<word[j], word[j + 1]>> \in Token \X Token
  OBVIOUS
<1>2. CASE word = << >>
  <2>1. Segments(word) = << >>
    BY <1>2 DEF Segments
  <2>2. << >> \in Seq(Token \X Token) /\ Len(<< >>) = 0 /\ 1 .. Len(word) - 1 = {}
    BY <1>2
  <2> QED
    BY <1>2, <2>1, <2>2
<1>3. CASE word # << >>
  <2>1. Len(word) - 1 \in Nat
    BY <1>3
  <2> QED
    BY <1>1, <1>3, <2>1 DEF Segments
<1> QED
  BY <1>2, <1>3

\* EdgesUpTo is what its recursion says.
LEMMA EdgesUnfold ==
    ASSUME NEW paths \in Seq(Seq(Token))
    PROVE  /\ EdgesUpTo(paths)[0] = << >>
           /\ \A n \in 1 .. Len(paths) :
                EdgesUpTo(paths)[n] = IF n \in Words(paths)
                                      THEN EdgesUpTo(paths)[n - 1] \o Segments(paths[n])
                                      ELSE EdgesUpTo(paths)[n - 1]
           /\ \A n \in 0 .. Len(paths) : EdgesUpTo(paths)[n] \in Seq(Token \X Token)
<1> DEFINE m == Len(paths)
           V == Seq(Token \X Token)
           More(n, x) == IF n \in Words(paths) THEN x \o Segments(paths[n]) ELSE x
           step == [n \in 1 .. m |-> [x \in V |-> More(n, x)]]
<1>1. \A n \in 1 .. m, x \in V : More(n, x) \in V
  BY SegmentsType
<1>2. m \in Nat /\ << >> \in V
  OBVIOUS
<1>3. step \in [1 .. m -> [V -> V]]
  <2> HIDE DEF V, More
  <2> QED
    BY <1>1
<1>4. PICK g \in [0 .. m -> V] : g[0] = << >> /\ \A n \in 1 .. m : g[n] = step[n][g[n - 1]]
  <2>1. LoopExists(V, << >>, m, step)
    <3> HIDE DEF V, step, m
    <3> QED
      BY <1>2, <1>3, LoopDefined
  <2> QED
    BY <2>1 DEF LoopExists
<1> DEFINE Loop(f) == f = [n \in 0 .. m |-> IF n = 0 THEN << >> ELSE More(n, f[n - 1])]
<1>5. Loop(g)
  <2>1. ASSUME NEW n \in 1 .. m PROVE g[n] = More(n, g[n - 1])
    <3> HIDE DEF V, More, m
    <3>1. g[n - 1] \in V
      BY <1>2
    <3> QED
      BY <1>4, <3>1
  <2> HIDE DEF V, More, m, step
  <2> QED
    BY <1>2, <1>4, <2>1
<1> DEFINE e == EdgesUpTo(paths)
<1>6. e = CHOOSE f : Loop(f)
  BY Zenon DEF EdgesUpTo
<1>7. Loop(e)
  <2> HIDE DEF Loop, e
  <2> QED
    BY <1>5, <1>6, Zenon
<1>8. e[0] = << >> /\ \A n \in 1 .. m : e[n] = More(n, e[n - 1])
  <2> HIDE DEF e, More, m
  <2>1. \A n \in 0 .. m : e[n] = IF n = 0 THEN << >> ELSE More(n, e[n - 1])
    BY <1>7, Zenon
  <2>2. 0 \in 0 .. m /\ \A n \in 1 .. m : n \in 0 .. m /\ n # 0
    BY <1>2
  <2> QED
    BY <2>1, <2>2, Zenon
<1>9. \A n \in 0 .. m : e[n] \in V
  <2>1. e[0] \in V /\ \A n \in 1 .. m : e[n - 1] \in V => e[n] \in V
    <3> HIDE DEF e, More, V, m
    <3> QED
      BY <1>1, <1>2, <1>8
  <2> HIDE DEF e, V, m
  <2> QED
    BY <1>2, <2>1, LoopType
<1> QED
  BY <1>8, <1>9

LEMMA ConcatSet ==
    ASSUME NEW S, NEW s \in Seq(S), NEW t \in Seq(S)
    PROVE  ToSet(s \o t) = ToSet(s) \cup ToSet(t)
<1> DEFINE m == Len(s)
           n == Len(t)
           c == s \o t
<1>1. /\ m \in Nat /\ n \in Nat /\ DOMAIN s = 1 .. m /\ DOMAIN t = 1 .. n
      /\ DOMAIN c = 1 .. m + n
  OBVIOUS
<1>2. /\ \A i \in 1 .. m : c[i] = s[i] /\ i \in 1 .. m + n
      /\ \A i \in 1 .. n : c[m + i] = t[i] /\ m + i \in 1 .. m + n
  OBVIOUS
<1>3. \A i \in 1 .. m + n : i \in 1 .. m \/ (i - m \in 1 .. n /\ m + (i - m) = i)
  BY <1>1
<1> HIDE DEF c, m, n
<1>4. ASSUME NEW x \in ToSet(c) PROVE x \in ToSet(s) \cup ToSet(t)
  <2>1. PICK i \in 1 .. m + n : x = c[i]
    BY <1>1, <1>4 DEF ToSet
  <2>2. CASE i \in 1 .. m
    BY <1>1, <1>2, <2>1, <2>2 DEF ToSet
  <2>3. CASE i - m \in 1 .. n /\ m + (i - m) = i
    <3>1. x = t[i - m]
      BY <1>2, <2>1, <2>3
    <3> QED
      BY <1>1, <2>3, <3>1 DEF ToSet
  <2> QED
    BY <1>3, <2>2, <2>3
<1>5. ToSet(s) \cup ToSet(t) \subseteq ToSet(c)
  BY <1>1, <1>2 DEF ToSet
<1> QED
  BY <1>4, <1>5 DEF c

\* The edges are the steps between neighbours in a word, no others.
LEMMA EdgesAreSteps ==
    ASSUME NEW h, h.paths \in Seq(Seq(Token)), NEW u, NEW v
    PROVE  <<u, v>> \in ToSet(EdgesUpTo(h.paths)[Len(h.paths)]) <=> Follows(h, u, v)
<1> DEFINE paths == h.paths
<1>0. paths \in Seq(Seq(Token))
  OBVIOUS
<1> HIDE DEF paths
<1> DEFINE m == Len(paths)
           e == EdgesUpTo(paths)
           InWord(i) == \E j \in 1 .. Len(paths[i]) - 1 : paths[i][j] = u /\ paths[i][j + 1] = v
           S == {n \in Int : <<u, v>> \in ToSet(e[n]) <=> \E i \in 1 .. n : InWord(i)}
<1>1. m \in Nat /\ DOMAIN paths = 1 .. m
  BY <1>0
<1>2. ASSUME NEW i \in 1 .. m PROVE <<u, v>> \in ToSet(Segments(paths[i])) <=> InWord(i)
  <2> DEFINE w == paths[i]
             t == Segments(w)
  <2>1. w \in Seq(Token)
    BY <1>0
  <2> HIDE DEF w
  <2>2. DOMAIN t = 1 .. Len(w) - 1
    BY <2>1 DEF Segments
  <2>3. \A j \in 1 .. Len(w) - 1 : t[j] = <<w[j], w[j + 1]>>
    BY DEF Segments
  <2>4. <<u, v>> \in ToSet(t) <=> \E j \in 1 .. Len(w) - 1 : t[j] = <<u, v>>
    BY <2>2 DEF ToSet
  <2> HIDE DEF t
  <2>5. \A j \in 1 .. Len(w) - 1 : t[j] = <<u, v>> <=> w[j] = u /\ w[j + 1] = v
    BY <2>3
  <2>6. <<u, v>> \in ToSet(t) <=> \E j \in 1 .. Len(w) - 1 : w[j] = u /\ w[j + 1] = v
    BY <2>4, <2>5
  <2> QED
    BY <2>6, Zenon DEF t, w
<1>3. 0 \in S
  <2>1. ToSet(<< >>) = {} /\ 1 .. 0 = {}
    BY DEF ToSet
  <2>2. e[0] = << >>
    BY <1>0, EdgesUnfold
  <2> HIDE DEF e, InWord
  <2> QED
    BY <2>1, <2>2
<1>4. ASSUME NEW n \in 1 .. m, n - 1 \in S PROVE n \in S
  <2>1. e[n] = IF n \in Words(paths) THEN e[n - 1] \o Segments(paths[n]) ELSE e[n - 1]
    BY <1>0, EdgesUnfold
  <2>2. e[n - 1] \in Seq(Token \X Token) /\ Segments(paths[n]) \in Seq(Token \X Token)
    <3>1. n - 1 \in 0 .. m /\ paths[n] \in Seq(Token)
      BY <1>0, <1>1
    <3> QED
      BY <1>0, <3>1, EdgesUnfold, SegmentsType
  <2> HIDE DEF e, InWord
  <2>3. \A i : i \in 1 .. n <=> i \in 1 .. n - 1 \/ i = n
    BY <1>1
  <2>4. <<u, v>> \in ToSet(e[n]) <=> <<u, v>> \in ToSet(e[n - 1]) \/ InWord(n)
    <3>1. CASE n \in Words(paths)
      <4>1. ToSet(e[n]) = ToSet(e[n - 1]) \cup ToSet(Segments(paths[n]))
        BY <3>1, <2>1, <2>2, ConcatSet
      <4> QED
        BY <4>1, <1>2
    <3>2. CASE n \notin Words(paths)
      <4>1. paths[n] = << >>
        BY <1>1, <3>2 DEF Words
      <4>2. ~ InWord(n)
        BY <4>1 DEF InWord
      <4> QED
        BY <3>2, <2>1, <4>2
    <3> QED
      BY <3>1, <3>2
  <2>5. (\E i \in 1 .. n : InWord(i)) <=> (\E i \in 1 .. n - 1 : InWord(i)) \/ InWord(n)
    BY <2>3
  <2> QED
    BY <1>4, <2>4, <2>5
<1>5. m \in S
  <2>1. m \in 0 .. m
    BY <1>1
  <2> HIDE DEF S, m
  <2>2. 0 .. m \subseteq S
    BY <1>1, <1>3, <1>4, LoopKeeps
  <2> QED
    BY <2>1, <2>2
<1>6. <<u, v>> \in ToSet(e[m]) <=> \E i \in DOMAIN paths : InWord(i)
  <2> HIDE DEF e, InWord, m
  <2> QED
    BY <1>1, <1>5
<1> QED
  BY <1>6, Zenon DEF Follows, paths

-----------------------------------------------------------------------------
\* What a property that is not malformed is split into.
LEMMA TokenTypes ==
    ASSUME NEW p \in Properties
    PROVE  /\ Tokens(p) \in Seq(Token)
           /\ ~ Malformed(p) => /\ Tokens(p) # << >> /\ Key(p) \in Seq(Token)
                                /\ Last(Tokens(p)) \in Token
<1> DEFINE t == Tokens(p)
<1>1. p.vertex \in Token /\ p.name \in Seq(Token) /\ p.value \in Seq(Token)
  <2>1. Token \ {EmptyName} \subseteq Token
    OBVIOUS
  <2>2. \A s \in Seq(Token \ {EmptyName}) : s \in Seq(Token)
    BY <2>1
  <2> QED
    BY <2>2 DEF Properties
<1>2. t \in Seq(Token)
  BY <1>1 DEF Tokens
<1>3. ASSUME ~ Malformed(p) PROVE Len(t) - 1 \in Nat /\ Len(t) >= 2
  BY <1>2, <1>3 DEF Malformed
<1> HIDE DEF t
<1>4. ASSUME ~ Malformed(p) PROVE Front(t) \in Seq(Token) /\ Len(Front(t)) = Len(t) - 1
  BY <1>2, <1>3, <1>4 DEF Front
<1>5. ASSUME ~ Malformed(p) PROVE Key(p) \in Seq(Token)
  BY <1>3, <1>4, <1>5 DEF Key, t
<1>6. ASSUME ~ Malformed(p) PROVE t # << >> /\ Last(t) \in Token
  BY <1>2, <1>3, <1>6 DEF Last
<1> QED
  BY <1>2, <1>5, <1>6 DEF t

\* The maps of properties of a vertex.
PropertyMaps == UNION {[D -> Token] : D \in SUBSET Seq(Token)}

LEMMA EntryType ==
    ASSUME NEW old \in PropertyMaps, NEW key \in Seq(Token), NEW value \in Token
    PROVE  Entry(old, key, value) \in PropertyMaps
<1>1. PICK D \in SUBSET Seq(Token) : old \in [D -> Token]
  BY DEF PropertyMaps
<1>2. Entry(old, key, value) \in [D \cup {key} -> Token]
  BY <1>1 DEF Entry
<1>3. D \cup {key} \in SUBSET Seq(Token)
  OBVIOUS
<1> QED
  BY <1>2, <1>3 DEF PropertyMaps

\* PropertiesUpTo is what its recursion says.
LEMMA PropertiesUnfold ==
    ASSUME NEW v, NEW properties \in Seq(Properties),
           \A i \in DOMAIN properties : ~ Malformed(properties[i])
    PROVE  /\ PropertiesUpTo(v, properties)[0] = << >>
           /\ \A n \in 1 .. Len(properties) :
                PropertiesUpTo(v, properties)[n] =
                  IF Tokens(properties[n])[1] = v
                  THEN Entry(PropertiesUpTo(v, properties)[n - 1], Key(properties[n]),
                             Last(Tokens(properties[n])))
                  ELSE PropertiesUpTo(v, properties)[n - 1]
<1> DEFINE m == Len(properties)
           V == PropertyMaps
           More(n, x) == IF Tokens(properties[n])[1] = v
                         THEN Entry(x, Key(properties[n]), Last(Tokens(properties[n])))
                         ELSE x
           step == [n \in 1 .. m |-> [x \in V |-> More(n, x)]]
<1>1. ASSUME NEW n \in 1 .. m, NEW x \in V PROVE More(n, x) \in V
  <2>1. properties[n] \in Properties /\ ~ Malformed(properties[n])
    OBVIOUS
  <2> QED
    BY <2>1, TokenTypes, EntryType
<1>2. m \in Nat /\ << >> \in V
  <2>1. m \in Nat
    OBVIOUS
  <2>2. << >> \in [{} -> Token]
    OBVIOUS
  <2>3. {} \in SUBSET Seq(Token)
    OBVIOUS
  <2>4. << >> \in PropertyMaps
    BY <2>2, <2>3, Zenon DEF PropertyMaps
  <2> QED
    BY <2>1, <2>4
<1>3. step \in [1 .. m -> [V -> V]]
  <2> HIDE DEF V, More
  <2> QED
    BY <1>1
<1>4. PICK g \in [0 .. m -> V] : g[0] = << >> /\ \A n \in 1 .. m : g[n] = step[n][g[n - 1]]
  <2>1. LoopExists(V, << >>, m, step)
    <3> HIDE DEF V, step, m
    <3> QED
      BY <1>2, <1>3, LoopDefined
  <2> QED
    BY <2>1 DEF LoopExists
<1> DEFINE Loop(f) == f = [n \in 0 .. m |-> IF n = 0 THEN << >> ELSE More(n, f[n - 1])]
<1>5. Loop(g)
  <2>1. ASSUME NEW n \in 1 .. m PROVE g[n] = More(n, g[n - 1])
    <3> HIDE DEF V, More, m
    <3>1. g[n - 1] \in V
      BY <1>2
    <3> QED
      BY <1>4, <3>1
  <2> HIDE DEF V, More, m, step
  <2> QED
    BY <1>2, <1>4, <2>1
<1> DEFINE e == PropertiesUpTo(v, properties)
<1>6. e = CHOOSE f : Loop(f)
  BY Zenon DEF PropertiesUpTo
<1>7. Loop(e)
  <2> HIDE DEF Loop, e
  <2> QED
    BY <1>5, <1>6, Zenon
<1>8. e[0] = << >> /\ \A n \in 1 .. m : e[n] = More(n, e[n - 1])
  <2> HIDE DEF e, More, m
  <2>1. \A n \in 0 .. m : e[n] = IF n = 0 THEN << >> ELSE More(n, e[n - 1])
    BY <1>7, Zenon
  <2>2. 0 \in 0 .. m /\ \A n \in 1 .. m : n \in 0 .. m /\ n # 0
    BY <1>2
  <2> QED
    BY <2>1, <2>2, Zenon
<1> QED
  BY <1>8

\* The i-th property is the first one that says something of name k at v.
FirstFor(properties, v, k, i) ==
    /\ Tokens(properties[i])[1] = v /\ Key(properties[i]) = k
    /\ \A j \in 1 .. i - 1 : ~ (Tokens(properties[j])[1] = v /\ Key(properties[j]) = k)

\* A vertex has the value that the first property with its name gives it.
LEMMA PropertiesAreFirst ==
    ASSUME NEW v, NEW properties \in Seq(Properties),
           \A i \in DOMAIN properties : ~ Malformed(properties[i])
    PROVE  LET map == PropertiesUpTo(v, properties)[Len(properties)] IN
           /\ \A k \in DOMAIN map : \E i \in DOMAIN properties :
                FirstFor(properties, v, k, i) /\ map[k] = Last(Tokens(properties[i]))
           /\ \A i \in DOMAIN properties : \A k :
                FirstFor(properties, v, k, i)
                => k \in DOMAIN map /\ map[k] = Last(Tokens(properties[i]))
<1> DEFINE m == Len(properties)
           e == PropertiesUpTo(v, properties)
           At(i, k) == Tokens(properties[i])[1] = v /\ Key(properties[i]) = k
           Value(i) == Last(Tokens(properties[i]))
           First(i, k) == At(i, k) /\ \A j \in 1 .. i - 1 : ~ At(j, k)
           Good(n) == /\ \A k \in DOMAIN e[n] : \E i \in 1 .. n : First(i, k) /\ e[n][k] = Value(i)
                      /\ \A i \in 1 .. n : \A k : At(i, k) => k \in DOMAIN e[n]
           S == {n \in Int : Good(n)}
<1>1. m \in Nat /\ DOMAIN properties = 1 .. m
  OBVIOUS
<1>2. /\ e[0] = << >>
      /\ \A n \in 1 .. m : e[n] = IF Tokens(properties[n])[1] = v
                                 THEN Entry(e[n - 1], Key(properties[n]), Value(n))
                                 ELSE e[n - 1]
  BY PropertiesUnfold
<1> HIDE DEF e, m, Value
<1>3. 0 \in S
  <2>1. DOMAIN << >> = {} /\ 1 .. 0 = {}
    OBVIOUS
  <2> HIDE DEF First, At
  <2> QED
    BY <1>2, <2>1
<1>4. ASSUME NEW n \in 1 .. m, n - 1 \in S PROVE n \in S
  <2>1. \A i : i \in 1 .. n <=> i \in 1 .. n - 1 \/ i = n
    BY <1>1
  <2>2. CASE Tokens(properties[n])[1] # v
    <3>1. e[n] = e[n - 1] /\ \A k : ~ At(n, k)
      BY <1>2, <2>2
    <3> HIDE DEF First, At
    <3> QED
      BY <1>4, <2>1, <3>1
  <2>3. CASE Tokens(properties[n])[1] = v
    <3> DEFINE key == Key(properties[n])
               old == e[n - 1]
    <3>1. e[n] = Entry(old, key, Value(n))
      BY <1>2, <2>3
    <3>2. \A k : At(n, k) <=> k = key
      BY <2>3
    <3> HIDE DEF key, old, At
    <3>3. /\ DOMAIN e[n] = DOMAIN old \cup {key}
          /\ \A k \in DOMAIN old : e[n][k] = old[k]
          /\ key \notin DOMAIN old => e[n][key] = Value(n)
      BY <3>1 DEF Entry
    <3>4. Good(n - 1)
      BY <1>4
    <3>5. key \notin DOMAIN old => First(n, key)
      BY <3>2, <3>4 DEF old
    <3> HIDE DEF First
    <3>6. ASSUME NEW k \in DOMAIN e[n] PROVE \E i \in 1 .. n : First(i, k) /\ e[n][k] = Value(i)
      BY <3>3, <3>4, <3>5, <2>1 DEF old
    <3>7. ASSUME NEW i \in 1 .. n, NEW k, At(i, k) PROVE k \in DOMAIN e[n]
      BY <3>2, <3>3, <3>4, <3>7, <2>1 DEF old
    <3> QED
      BY <3>6, <3>7
  <2> QED
    BY <2>2, <2>3
<1>5. Good(m)
  <2>1. m \in 0 .. m
    BY <1>1
  <2>2. m \in S
    <3> HIDE DEF S
    <3>1. 0 .. m \subseteq S
      BY <1>1, <1>3, <1>4, LoopKeeps
    <3> QED
      BY <2>1, <3>1
  <2> QED
    BY <2>2
<1>6. ASSUME NEW i \in 1 .. m, NEW k, First(i, k) PROVE k \in DOMAIN e[m] /\ e[m][k] = Value(i)
  <2>1. k \in DOMAIN e[m]
    BY <1>5, <1>6
  <2>2. PICK j \in 1 .. m : First(j, k) /\ e[m][k] = Value(j)
    BY <1>5, <2>1
  <2>3. ~ (i < j) /\ ~ (j < i)
    <3> HIDE DEF At
    <3>1. i < j => i \in 1 .. j - 1
      BY <1>1
    <3>2. j < i => j \in 1 .. i - 1
      BY <1>1
    <3> QED
      BY <1>6, <2>2, <3>1, <3>2
  <2>4. i = j
    BY <1>1, <2>3
  <2> QED
    BY <2>1, <2>2, <2>4
<1>7. \A i, k : FirstFor(properties, v, k, i) <=> First(i, k)
  BY DEF FirstFor
<1> QED
  BY <1>1, <1>5, <1>6, <1>7 DEF e, m, Value

-----------------------------------------------------------------------------
LEMMA SameElements ==
    ASSUME NEW S, NEW a \in Seq(S), NEW b \in Seq(S), Len(a) = Len(b),
           \A i \in 1 .. Len(a) : a[i] = b[i]
    PROVE  a = b
  OBVIOUS

\* What is before and what is after the last token.
LEMMA TokensSplit ==
    ASSUME NEW p \in Properties, ~ Malformed(p), NEW v \in Token, NEW k \in Seq(Token)
    PROVE  /\ Tokens(p)[1] = v /\ Key(p) = k <=> Front(Tokens(p)) = <<v>> \o k
           /\ Tail(Tokens(p)) = Key(p) \o <<Last(Tokens(p))>>
           /\ Tokens(p)[1] \in Token
<1> DEFINE t == Tokens(p)
           m == Len(t)
           f == Front(t)
<1>1. t \in Seq(Token) /\ m \in Nat /\ m >= 2
  <2>1. t \in Seq(Token)
    BY TokenTypes
  <2> QED
    BY <2>1 DEF Malformed
<1>2. Key(p) = Tail(f) /\ Last(t) = t[m]
  BY DEF Key, Last
<1> HIDE DEF t
<1>3. f \in Seq(Token) /\ Len(f) = m - 1 /\ \A i \in 1 .. m - 1 : f[i] = t[i]
  BY <1>1 DEF Front
<1> HIDE DEF f, m
<1>4. /\ Tail(f) \in Seq(Token) /\ Len(Tail(f)) = m - 2
      /\ \A i \in 1 .. m - 2 : Tail(f)[i] = t[i + 1]
  BY <1>1, <1>3
<1>5. f = <<t[1]>> \o Tail(f)
  <2> DEFINE g == <<t[1]>> \o Tail(f)
  <2>1. g \in Seq(Token) /\ Len(g) = m - 1
    BY <1>1, <1>4 DEF m
  <2>2. g[1] = t[1] /\ \A i \in 2 .. m - 1 : g[i] = Tail(f)[i - 1]
    BY <1>1, <1>4
  <2>3. \A i \in 2 .. m - 1 : Tail(f)[i - 1] = t[i]
    BY <1>1, <1>4
  <2> HIDE DEF g
  <2> QED
    BY <1>1, <1>3, <2>1, <2>2, <2>3 DEF g
<1>6. Tail(t) = Tail(f) \o <<t[m]>>
  <2> DEFINE g == Tail(f) \o <<t[m]>>
  <2>1. t[m] \in Token
    BY <1>1 DEF m
  <2>2. /\ g \in Seq(Token) /\ Len(g) = m - 1
        /\ \A i \in 1 .. m - 2 : g[i] = t[i + 1]
        /\ g[m - 1] = t[m]
    BY <1>1, <1>4, <2>1
  <2>3. /\ Tail(t) \in Seq(Token) /\ Len(Tail(t)) = m - 1
        /\ \A i \in 1 .. m - 1 : Tail(t)[i] = t[i + 1]
    BY <1>1 DEF m
  <2> HIDE DEF g
  <2>4. \A i \in 1 .. m - 1 : g[i] = Tail(t)[i]
    <3>1. \A i \in 1 .. m - 1 : i \in 1 .. m - 2 \/ i = m - 1
      BY <1>1
    <3>2. (m - 1) + 1 = m
      BY <1>1
    <3> QED
      BY <2>2, <2>3, <3>1, <3>2
  <2>5. Tail(t) = g
    <3> DEFINE r == Tail(t)
    <3> HIDE DEF r
    <3> QED
      BY <1>1, <2>2, <2>3, <2>4, SameElements DEF r
  <2> QED
    BY <2>5 DEF g
<1>7. t[1] \in Token
  BY <1>1 DEF m
<1>8. ASSUME f = <<v>> \o k PROVE t[1] = v /\ Tail(f) = k
  <2>1. Tail(<<v>> \o k) = k /\ (<<v>> \o k)[1] = v
    OBVIOUS
  <2> QED
    BY <1>1, <1>3, <1>8, <2>1
<1> QED
  BY <1>2, <1>5, <1>6, <1>7, <1>8 DEF t, f

\* A property with a vertex and a value of one token is read as it was meant.
LEMMA TokensAsMeant ==
    ASSUME NEW p \in Properties, NEW x, p.vertex # EmptyName, p.value = <<x>>
    PROVE  /\ ~ Malformed(p) /\ x \in Token
           /\ Tokens(p)[1] = p.vertex /\ Key(p) = p.name /\ Last(Tokens(p)) = x
<1> DEFINE t == Tokens(p)
           n == p.name
<1>1. p.vertex \in Token /\ n \in Seq(Token) /\ x \in Token
  <2>1. p.vertex \in Token /\ n \in Seq(Token \ {EmptyName})
        /\ p.value \in Seq(Token \ {EmptyName})
    BY DEF Properties
  <2>2. p.value[1] = x /\ 1 \in DOMAIN p.value
    OBVIOUS
  <2> QED
    BY <2>1, <2>2
<1>2. t = <<p.vertex>> \o n \o <<x>>
  BY DEF Tokens
<1> HIDE DEF t, n
<1>3. t \in Seq(Token) /\ Len(t) = Len(n) + 2 /\ t[1] = p.vertex /\ t[Len(t)] = x
  BY <1>1, <1>2
<1>4. Front(t) = <<p.vertex>> \o n
  BY <1>1, <1>2, <1>3 DEF Front
<1>5. Tail(Front(t)) = n
  BY <1>1, <1>4
<1>6. ~ (Len(t) < 2)
  <2>1. Len(n) \in Nat
    BY <1>1
  <2> QED
    BY <1>3, <2>1
<1>7. ~ Malformed(p)
  BY <1>6 DEF Malformed, t
<1>8. Key(p) = n /\ Last(Tokens(p)) = x
  BY <1>3, <1>5 DEF Key, Last, t
<1> QED
  BY <1>1, <1>3, <1>7, <1>8 DEF t, n

-----------------------------------------------------------------------------
\* A pair of headers as str_split can take them apart, with no malformed property.
Sound(h) == /\ h.paths \in Seq(Seq(Token)) /\ h.properties \in Seq(Properties)
            /\ \A i \in DOMAIN h.properties : ~ Malformed(h.properties[i])

LEMMA HeaderType ==
    ASSUME NEW h \in Headers \cup Queries
    PROVE  h.paths \in Seq(Seq(Token)) /\ h.properties \in Seq(Properties)
  BY HeaderAssumption

LEMMA NamesType ==
    ASSUME NEW h, h.paths \in Seq(Seq(Token))
    PROVE  Names(h) \subseteq Token
<1>1. ASSUME NEW i \in DOMAIN h.paths PROVE ToSet(h.paths[i]) \subseteq Token
  <2>1. h.paths[i] \in Seq(Token)
    OBVIOUS
  <2> QED
    BY <2>1 DEF ToSet
<1> QED
  BY <1>1 DEF Names

\* The graph of a pair of headers: its vertices are the names on the paths, empty
\* words add none; its edges are the steps of the paths; and the values of a vertex
\* are those of the first property with its name.
LEMMA GraphFacts ==
    ASSUME NEW h, Sound(h)
    PROVE  /\ Vertices(Graph(h)) = Names(h)
           /\ \A u, v : <<u, v>> \in ToSet(Graph(h).edges) <=> Follows(h, u, v)
           /\ \A v \in Names(h) :
                Graph(h).properties[v] = PropertiesUpTo(v, h.properties)[Len(h.properties)]
<1> DEFINE vertices == UNION {ToSet(h.paths[i]) : i \in Words(h.paths)}
<1>1. vertices = Names(h)
  <2>1. \A i \in DOMAIN h.paths : i \notin Words(h.paths) => ToSet(h.paths[i]) = {}
    <3>1. ToSet(<< >>) = {}
      BY DEF ToSet
    <3> QED
      BY <3>1 DEF Words
  <2>2. Words(h.paths) \subseteq DOMAIN h.paths
    BY DEF Words
  <2> QED
    BY <2>1, <2>2, Zenon DEF Names
<1>2. /\ Vertices(Graph(h)) = vertices
      /\ \A v \in vertices :
           Graph(h).properties[v] = PropertiesUpTo(v, h.properties)[Len(h.properties)]
  BY DEF Graph, Vertices
<1>3. \A u, v : <<u, v>> \in ToSet(Graph(h).edges) <=> Follows(h, u, v)
  <2>1. Graph(h).edges = EdgesUpTo(h.paths)[Len(h.paths)] /\ h.paths \in Seq(Seq(Token))
    BY DEF Graph, Sound
  <2> QED
    BY <2>1, EdgesAreSteps
<1> HIDE DEF vertices
<1> QED
  BY <1>1, <1>2, <1>3

\* What a header says, its graph has.
LEMMA SaidIsThere ==
    ASSUME NEW h, Sound(h), NEW v \in Names(h), NEW n, NEW x, Says(h, v, n, x)
    PROVE  n \in DOMAIN Graph(h).properties[v] /\ Graph(h).properties[v][n] = x
<1>1. PICK i \in DOMAIN h.properties :
        /\ h.properties[i] = [vertex |-> v, name |-> n, value |-> <<x>>]
        /\ \A j \in 1 .. i - 1 : Front(Tokens(h.properties[j])) # <<v>> \o n
  BY DEF Says
<1>2. v # EmptyName /\ v \in Token
  BY NamesType DEF Says, Sound
<1>3. h.properties[i] \in Properties
  BY DEF Sound
<1>4. n \in Seq(Token)
  <2>1. n \in Seq(Token \ {EmptyName})
    BY <1>1, <1>3 DEF Properties
  <2> QED
    BY <2>1
<1>5. /\ Tokens(h.properties[i])[1] = v /\ Key(h.properties[i]) = n
      /\ Last(Tokens(h.properties[i])) = x
  BY <1>1, <1>2, <1>3, TokensAsMeant
<1>6. ASSUME NEW j \in 1 .. i - 1
      PROVE  ~ (Tokens(h.properties[j])[1] = v /\ Key(h.properties[j]) = n)
  <2>1. j \in DOMAIN h.properties
    BY DEF Sound
  <2> DEFINE q == h.properties[j]
  <2>2. q \in Properties /\ ~ Malformed(q)
    BY <2>1 DEF Sound
  <2>3. Front(Tokens(q)) # <<v>> \o n
    BY <1>1
  <2> HIDE DEF q
  <2>4. ~ (Tokens(q)[1] = v /\ Key(q) = n)
    BY <1>2, <1>4, <2>2, <2>3, TokensSplit
  <2> QED
    BY <2>4 DEF q
<1>7. FirstFor(h.properties, v, n, i)
  BY <1>5, <1>6 DEF FirstFor
<1> DEFINE map == PropertiesUpTo(v, h.properties)[Len(h.properties)]
<1>8. n \in DOMAIN map /\ map[n] = Last(Tokens(h.properties[i]))
  <2>1. h.properties \in Seq(Properties) /\ \A j \in DOMAIN h.properties : ~ Malformed(h.properties[j])
    BY DEF Sound
  <2> QED
    BY <1>7, <2>1, PropertiesAreFirst
<1>9. Graph(h).properties[v] = map
  BY GraphFacts
<1> QED
  BY <1>5, <1>8, <1>9

\* What a graph has, some property of the header gave it.
LEMMA ThereWasSaid ==
    ASSUME NEW h, Sound(h), NEW v \in Names(h), NEW k \in DOMAIN Graph(h).properties[v]
    PROVE  \E i \in DOMAIN h.properties :
             /\ FirstFor(h.properties, v, k, i)
             /\ Graph(h).properties[v][k] = Last(Tokens(h.properties[i]))
  BY PropertiesAreFirst, GraphFacts DEF Sound

-----------------------------------------------------------------------------
\* After the graphs are made the program knows that no property was malformed, and
\* it is trapped only by one that is.
IInv ==
    /\ query \in Queries /\ trace \in Headers
    /\ stage \in {"headers", "graphs", "trapped", "mapped"}
    /\ stage # "mapped" => mapping = << >>
    /\ stage \in {"graphs", "mapped"} => /\ small = Graph(query) /\ large = Graph(trace)
                                         /\ Sound(query) /\ Sound(trace)
    /\ stage = "trapped" => ~ Sound(query) \/ ~ Sound(trace)
    /\ stage = "mapped" => \/ mapping \in Embeddings
                           \/ /\ mapping = << >>
                              /\ Embeddings = {} \/ Parallel(small) \/ Parallel(large)

LEMMA InductiveInvariant == Spec => []IInv
<1>1. Init => IInv
  BY DEF Init, IInv
<1>2. ASSUME IInv, [Next]_vars PROVE IInv'
  <2>1. CASE Generate
    <3>1. /\ query.paths \in Seq(Seq(Token)) /\ query.properties \in Seq(Properties)
          /\ trace.paths \in Seq(Seq(Token)) /\ trace.properties \in Seq(Properties)
      BY <1>2, HeaderType DEF IInv
    <3>2. /\ stage' \in {"trapped", "graphs"}
          /\ stage' = "graphs" <=> Sound(query) /\ Sound(trace)
          /\ stage' = "graphs" => small' = Graph(query) /\ large' = Graph(trace)
          /\ query' = query /\ trace' = trace /\ mapping' = mapping /\ mapping = << >>
      BY <1>2, <2>1, <3>1 DEF Generate, IInv, Sound
    <3> QED
      BY <1>2, <3>2 DEF IInv
  <2>2. CASE GetSubGraphMapping
    <3>1. /\ stage = "graphs" /\ stage' = "mapped"
          /\ UNCHANGED <<query, trace, small, large>>
      BY <2>2 DEF GetSubGraphMapping
    <3>2. Embeddings' = Embeddings
      BY <3>1 DEF Embeddings, Vertices, SameEdges
    <3>3. \/ mapping' \in Embeddings
          \/ mapping' = << >> /\ (Embeddings = {} \/ Parallel(small) \/ Parallel(large))
      BY <2>2, Zenon DEF GetSubGraphMapping
    <3>4. Parallel(small)' = Parallel(small) /\ Parallel(large)' = Parallel(large)
      BY <3>1
    <3> QED
      BY <1>2, <3>1, <3>2, <3>3, <3>4 DEF IInv
  <2>3. CASE UNCHANGED vars
    <3>1. Embeddings' = Embeddings
      BY <2>3 DEF vars, Embeddings, Vertices, SameEdges
    <3> QED
      BY <1>2, <2>3, <3>1 DEF vars, IInv
  <2> QED
    BY <1>2, <2>1, <2>2, <2>3 DEF Next
<1> QED
  BY <1>1, <1>2, PTL DEF Spec

\* The trace's graph is as the header says (graph_utils.cc:40-74).
THEOREM GraphsAreAsWritten == Spec => []GraphIsAsWritten
<1>1. ASSUME IInv PROVE GraphIsAsWritten
  <2> SUFFICES ASSUME stage \in {"graphs", "mapped"} PROVE GraphIsAsWritten
    BY DEF GraphIsAsWritten
  <2>1. large = Graph(trace) /\ Sound(trace)
    BY <1>1 DEF IInv
  <2>2. /\ Vertices(large) = Names(trace)
        /\ \A u, v : <<u, v>> \in ToSet(large.edges) <=> Follows(trace, u, v)
    BY <2>1, GraphFacts
  <2>3. ASSUME NEW i \in DOMAIN trace.properties, NEW v \in Names(trace), NEW n, NEW x,
               Says(trace, v, n, x)
        PROVE  Subset([m \in {n} |-> x], large.properties[v])
    <3>1. n \in DOMAIN large.properties[v] /\ large.properties[v][n] = x
      BY <2>1, <2>3, SaidIsThere
    <3> QED
      BY <3>1 DEF Subset
  <2> QED
    BY <2>2, <2>3 DEF GraphIsAsWritten
<1> QED
  BY <1>1, InductiveInvariant, PTL

\* A mapping other than the empty one is a true answer (graph_utils.h:83-85).
THEOREM MappingsAnswer == Spec => []MappingAnswersQuery
<1>1. ASSUME IInv PROVE MappingAnswersQuery
  <2> SUFFICES ASSUME mapping # << >> PROVE MappingAnswersQuery
    BY DEF MappingAnswersQuery
  <2>1. /\ mapping \in Embeddings /\ small = Graph(query) /\ large = Graph(trace)
        /\ Sound(query) /\ Sound(trace)
    BY <1>1 DEF IInv
  <2>2. /\ mapping \in [Names(query) -> Names(trace)]
        /\ \A v \in Names(query) : Subset(small.properties[v], large.properties[mapping[v]])
        /\ \A u, v \in Names(query) :
             <<u, v>> \in ToSet(small.edges) <=> <<mapping[u], mapping[v]>> \in ToSet(large.edges)
    BY <2>1, GraphFacts DEF Embeddings, SameEdges, Injection
  <2>3. \A u, v \in DOMAIN mapping :
          Follows(query, u, v) <=> Follows(trace, mapping[u], mapping[v])
    BY <2>1, <2>2, GraphFacts
  <2>4. ASSUME NEW i \in DOMAIN query.properties, NEW p, p = query.properties[i],
               p.vertex \in Names(query), NEW x, p.value = <<x>>, Says(query, p.vertex, p.name, x)
        PROVE  \E j \in DOMAIN trace.properties :
                 /\ Tokens(trace.properties[j])[1] = mapping[p.vertex]
                 /\ Tail(Tokens(trace.properties[j])) = p.name \o p.value
    <3> DEFINE v == p.vertex
               w == mapping[v]
               k == p.name
    <3>1. k \in DOMAIN small.properties[v] /\ small.properties[v][k] = x
      BY <2>1, <2>4, SaidIsThere
    <3>2. w \in Names(trace) /\ k \in DOMAIN large.properties[w] /\ large.properties[w][k] = x
      BY <2>2, <2>4, <3>1 DEF Subset
    <3>3. PICK j \in DOMAIN trace.properties :
            /\ FirstFor(trace.properties, w, k, j)
            /\ large.properties[w][k] = Last(Tokens(trace.properties[j]))
      BY <2>1, <3>2, ThereWasSaid
    <3> DEFINE q == trace.properties[j]
    <3>4. Tokens(q)[1] = w /\ Key(q) = k /\ Last(Tokens(q)) = x
      BY <3>2, <3>3 DEF FirstFor
    <3>5. q \in Properties /\ ~ Malformed(q)
      BY <2>1 DEF Sound
    <3>6. w \in Token
      BY <2>1, <3>2, NamesType DEF Sound
    <3>7. k \in Seq(Token)
      BY <3>4, <3>5, TokenTypes
    <3> HIDE DEF q, w
    <3>8. Tail(Tokens(q)) = k \o <<x>>
      BY <3>4, <3>5, <3>6, <3>7, TokensSplit
    <3> QED
      BY <2>4, <3>4, <3>8 DEF q, w
  <2>5. ASSUME NEW i \in DOMAIN query.properties, NEW p, p = query.properties[i],
               p.vertex \in DOMAIN mapping, Len(p.value) = 1, Says(query, p.vertex, p.name, p.value[1])
        PROVE  \E j \in DOMAIN trace.properties :
                 /\ Tokens(trace.properties[j])[1] = mapping[p.vertex]
                 /\ Tail(Tokens(trace.properties[j])) = p.name \o p.value
    <3>1. p \in Properties
      BY <2>1, <2>5 DEF Sound
    <3>2. p.value \in Seq(Token \ {EmptyName})
      BY <3>1 DEF Properties
    <3>3. p.value = <<p.value[1]>>
      BY <2>5, <3>2
    <3>4. p.vertex \in Names(query)
      BY <2>2, <2>5
    <3> QED
      BY <2>4, <2>5, <3>3, <3>4
  <2> QED
    BY <2>2, <2>3, <2>5 DEF MappingAnswersQuery
<1> QED
  BY <1>1, InductiveInvariant, PTL

\* For well-formed headers the program goes on, and finds what the trace shows unless
\* a step is repeated (graph_utils.cc:57-71, 115-125).
THEOREM WhatIsThereIsAlwaysFound == Spec => []WhatIsThereIsFound
<1>1. ASSUME IInv PROVE WhatIsThereIsFound
  <2> SUFFICES ASSUME WellFormed(query), WellFormed(trace) PROVE WhatIsThereIsFound
    BY DEF WhatIsThereIsFound
  <2>1. \A h \in {query, trace} : h.paths \in Seq(Seq(Token)) /\ h.properties \in Seq(Properties)
    BY <1>1, HeaderType DEF IInv
  <2>2. ASSUME NEW h \in {query, trace}, NEW i \in DOMAIN h.properties
        PROVE  /\ h.properties[i] \in Properties /\ h.properties[i].vertex # EmptyName
               /\ h.properties[i].value = <<h.properties[i].value[1]>>
    <3> DEFINE p == h.properties[i]
    <3>1. p \in Properties
      BY <2>1
    <3>2. p.vertex # EmptyName /\ Len(p.value) = 1
      BY DEF WellFormed
    <3> HIDE DEF p
    <3>3. p.value \in Seq(Token \ {EmptyName})
      BY <3>1 DEF Properties
    <3>4. p.value = <<p.value[1]>>
      BY <3>2, <3>3
    <3> QED
      BY <3>1, <3>2, <3>4 DEF p
  <2>3. Sound(query) /\ Sound(trace)
    <3>1. ASSUME NEW h \in {query, trace}, NEW i \in DOMAIN h.properties
          PROVE  ~ Malformed(h.properties[i])
      BY <2>2, TokensAsMeant
    <3> QED
      BY <2>1, <3>1 DEF Sound
  <2>4. stage # "trapped"
    BY <1>1, <2>3 DEF IInv
  <2>5. ASSUME stage = "mapped", mapping = << >>, ~ Parallel(small), ~ Parallel(large),
               Names(query) # {}, NEW f \in Injection(Names(query), Names(trace)), Shows(f)
        PROVE  FALSE
    <3>1. small = Graph(query) /\ large = Graph(trace)
      BY <1>1, <2>5 DEF IInv
    <3>2. Vertices(small) = Names(query) /\ Vertices(large) = Names(trace)
      BY <2>3, <3>1, GraphFacts
    <3>3. SameEdges(f)
      <4>1. \A u, v \in Names(query) : Follows(query, u, v) <=> Follows(trace, f[u], f[v])
        BY <2>5 DEF Shows
      <4> QED
        BY <2>3, <3>1, <3>2, <4>1, GraphFacts DEF SameEdges
    <3>4. ASSUME NEW v \in Names(query)
          PROVE  Subset(small.properties[v], large.properties[f[v]])
      <4>1. f[v] \in Names(trace)
        BY DEF Injection
      <4>2. ASSUME NEW k \in DOMAIN small.properties[v]
            PROVE  /\ k \in DOMAIN large.properties[f[v]]
                   /\ large.properties[f[v]][k] = small.properties[v][k]
        <5>1. PICK i \in DOMAIN query.properties :
                /\ FirstFor(query.properties, v, k, i)
                /\ small.properties[v][k] = Last(Tokens(query.properties[i]))
          BY <2>3, <3>1, ThereWasSaid
        <5> DEFINE p == query.properties[i]
                   x == p.value[1]
        <5>2. p \in Properties /\ p.vertex # EmptyName /\ p.value = <<x>>
          BY <2>2
        <5>3. Tokens(p)[1] = p.vertex /\ Key(p) = p.name /\ Last(Tokens(p)) = x
          <6> HIDE DEF p, x
          <6> QED
            BY <5>2, TokensAsMeant
        <5>4. p.vertex = v /\ p.name = k /\ small.properties[v][k] = x
          BY <5>1, <5>3 DEF FirstFor
        <5>5. v \in Token /\ k \in Seq(Token)
          BY <5>2, <5>4, NamesType, <2>1 DEF Properties
        <5>6. ASSUME NEW j \in 1 .. i - 1
              PROVE  Front(Tokens(query.properties[j])) # <<v>> \o k
          <6> DEFINE q == query.properties[j]
          <6>1. j \in DOMAIN query.properties
            BY <2>1
          <6>2. q \in Properties /\ ~ Malformed(q)
            BY <2>3, <6>1 DEF Sound
          <6>3. ~ (Tokens(q)[1] = v /\ Key(q) = k)
            BY <5>1 DEF FirstFor
          <6> HIDE DEF q
          <6>4. Front(Tokens(q)) # <<v>> \o k
            BY <5>5, <6>2, <6>3, TokensSplit
          <6> QED
            BY <6>4 DEF q
        <5>7. p = [vertex |-> v, name |-> k, value |-> <<x>>]
          <6> HIDE DEF p, x
          <6> QED
            BY <5>2, <5>4 DEF Properties
        <5>8. Says(query, v, k, x)
          BY <5>2, <5>4, <5>6, <5>7 DEF Says
        <5>9. Says(trace, f[v], k, x)
          BY <2>5, <5>4, <5>8 DEF Shows
        <5>10. k \in DOMAIN large.properties[f[v]] /\ large.properties[f[v]][k] = x
          BY <2>3, <3>1, <4>1, <5>9, SaidIsThere
        <5> QED
          BY <5>4, <5>10
      <4> QED
        BY <4>2 DEF Subset
    <3>5. f \in Embeddings
      BY <2>5, <3>2, <3>3, <3>4 DEF Embeddings
    <3>6. mapping \in Embeddings
      BY <1>1, <2>5, <3>5 DEF IInv
    <3>7. DOMAIN mapping = Names(query)
      BY <3>2, <3>6 DEF Embeddings, Injection
    <3> QED
      BY <2>5, <3>7
  <2> QED
    BY <2>4, <2>5 DEF WhatIsThereIsFound
<1> QED
  BY <1>1, InductiveInvariant, PTL
=============================================================================
