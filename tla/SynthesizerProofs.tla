-------------------------- MODULE SynthesizerProofs --------------------------
(***************************************************************************)
(* Theorems about Synthesizer, for every walk, every repository and every   *)
(* content of dist/. The loops of findManifests, parseKustomization and     *)
(* parseManifests append to lists; the property says what the lists are in   *)
(* terms of the whole tree, as concatenations (FlattenSeq). The module has,  *)
(* in this order: FlattenSeq one element at a time, what each loop has       *)
(* collected as a function of the tree and of how far it is, the inductive   *)
(* invariant, and one lemma per action.                                     *)
(***************************************************************************)
EXTENDS Synthesizer, SequenceTheorems, WellFoundedInduction, TLAPS

-----------------------------------------------------------------------------
(* Induction over the naturals, said of a set: the least number outside of  *)
(* it would have a predecessor in it.                                       *)
LEMMA NatSetInduction ==
  ASSUME NEW T, 0 \in T, \A n \in Nat : n \in T => n + 1 \in T
  PROVE  Nat \subseteq T
<1> DEFINE R == {pair \in Nat \X Nat : pair[1] < pair[2]}
           U == Nat \ T
<1>1. SUFFICES ASSUME U # {} PROVE FALSE
  OBVIOUS
<1>2. PICK x \in U : \A y \in U : <<y, x>> \notin R
  <2>1. IsWellFoundedOn(R, Nat)
    BY NatLessThanWellFounded DEF OpToRel
  <2>2. U \subseteq Nat
    OBVIOUS
  <2> HIDE DEF U, R
  <2> QED BY <1>1, <2>1, <2>2, WFMin
<1>3. x - 1 \in Nat /\ (x - 1) + 1 = x
  OBVIOUS
<1>4. <<x - 1, x>> \in R
  BY <1>3
<1> QED BY <1>2, <1>3, <1>4

-----------------------------------------------------------------------------
(* FlattenSeq concatenates along a recursive function f: f[i] is the         *)
(* concatenation of the first i sequences.                                  *)
OfLength(s, n) == DOMAIN s = 1..n /\ Len(s) = n

Pieces(s, n, S) == s \in [1..n -> Seq(S)]

Agree(s, t, n) == \A i \in 1..n : s[i] = t[i]

Flattens(f, s, n) ==
  /\ f = [i \in 1..n |-> f[i]]
  /\ \A i \in 1..n : f[i] = IF i = 1 THEN s[i] ELSE f[i-1] \o s[i]

(* The recursion, at one index.                                             *)
LEMMA FlattensStep ==
  ASSUME NEW f, NEW s, NEW n \in Nat, Flattens(f, s, n), NEW i \in 1..n
  PROVE  f[i] = IF i = 1 THEN s[i] ELSE f[i-1] \o s[i]
<1>1. \A j \in 1..n : f[j] = IF j = 1 THEN s[j] ELSE f[j-1] \o s[j]
  BY DEF Flattens
<1> QED BY ONLY <1>1, i \in 1..n

(* There is such a function: it can be extended by one element.             *)
LEMMA FlattensExists ==
  ASSUME NEW s, NEW n \in Nat
  PROVE  \E f : Flattens(f, s, n)
<1> DEFINE T == {m \in Nat : \E f : Flattens(f, s, m)}
<1>1. 0 \in T
  <2>1. Flattens([i \in {} |-> s], s, 0)
    BY DEF Flattens
  <2> QED BY <2>1
<1>2. ASSUME NEW m \in Nat, m \in T PROVE m + 1 \in T
  <2>1. PICK f : Flattens(f, s, m)
    BY <1>2
  <2> DEFINE g == [i \in 1..(m + 1) |-> IF i <= m THEN f[i]
                     ELSE IF i = 1 THEN s[i] ELSE f[i-1] \o s[i]]
  <2>2. ASSUME NEW i \in 1..(m + 1)
        PROVE  g[i] = IF i = 1 THEN s[i] ELSE g[i-1] \o s[i]
    <3>1. CASE i <= m
      <4>1. f[i] = IF i = 1 THEN s[i] ELSE f[i-1] \o s[i]
        <5>1. i \in 1..m
          BY <3>1
        <5> HIDE DEF g, T
        <5> QED BY <2>1, <5>1, FlattensStep
      <4>2. i # 1 => g[i-1] = f[i-1]
        BY <3>1
      <4> QED BY <3>1, <4>1, <4>2
    <3>2. CASE ~(i <= m)
      <4>1. i # 1 => g[i-1] = f[i-1]
        BY <3>2
      <4> QED BY <3>2, <4>1
    <3> QED BY <3>1, <3>2
  <2>3. g = [i \in 1..(m + 1) |-> g[i]]
    OBVIOUS
  <2>5. Flattens(g, s, m + 1)
    <3> HIDE DEF g
    <3> QED BY <2>2, <2>3 DEF Flattens
  <2> QED BY <2>5
<1>3. Nat \subseteq T
  <2> HIDE DEF T
  <2> QED BY <1>1, <1>2, NatSetInduction
<1> QED BY <1>3

(* Of the sequences that agree up to n, the concatenations agree up to n.   *)
LEMMA FlattensAgree ==
  ASSUME NEW n \in Nat, NEW k \in Nat, n <= k,
         NEW s, NEW t, Agree(s, t, n),
         NEW f, NEW g, Flattens(f, s, n), Flattens(g, t, k)
  PROVE  Agree(f, g, n)
<1> DEFINE T == {i \in Nat : i \in 1..n => f[i] = g[i]}
<1>1. 0 \in T
  OBVIOUS
<1>2. ASSUME NEW i \in Nat, i \in T PROVE i + 1 \in T
  <2>1. SUFFICES ASSUME i + 1 <= n PROVE f[i + 1] = g[i + 1]
    OBVIOUS
  <2>2. /\ f[i + 1] = IF i + 1 = 1 THEN s[i + 1] ELSE f[i] \o s[i + 1]
        /\ g[i + 1] = IF i + 1 = 1 THEN t[i + 1] ELSE g[i] \o t[i + 1]
    <3>1. i + 1 \in 1..n /\ i + 1 \in 1..k /\ (i + 1) - 1 = i
      BY <2>1
    <3>2. f[i + 1] = IF i + 1 = 1 THEN s[i + 1] ELSE f[(i + 1) - 1] \o s[i + 1]
      BY <3>1, FlattensStep
    <3>3. g[i + 1] = IF i + 1 = 1 THEN t[i + 1] ELSE g[(i + 1) - 1] \o t[i + 1]
      BY <3>1, FlattensStep
    <3> QED BY <3>1, <3>2, <3>3
  <2>3. i # 0 => f[i] = g[i]
    BY <1>2, <2>1
  <2>4. s[i + 1] = t[i + 1]
    BY <2>1 DEF Agree
  <2> QED BY <2>2, <2>3, <2>4
<1>3. Nat \subseteq T
  <2> HIDE DEF T
  <2> QED BY <1>1, <1>2, NatSetInduction
<1> QED BY <1>3 DEF Agree

(* FlattenSeq is the last value of any such function: the one it chooses    *)
(* agrees with it.                                                          *)
LEMMA FlattenIsLast ==
  ASSUME NEW n \in Nat \ {0}, NEW s, OfLength(s, n),
         NEW f, Flattens(f, s, n)
  PROVE  FlattenSeq(s) = f[n]
<1> DEFINE c == CHOOSE h : h = [i \in 1..n |-> IF i = 1 THEN s[i] ELSE h[i-1] \o s[i]]
<1>1. FlattenSeq(s) = c[n]
  BY DEF FlattenSeq, OfLength
<1>2. \E h : h = [i \in 1..n |-> IF i = 1 THEN s[i] ELSE h[i-1] \o s[i]]
  <2>1. PICK h : Flattens(h, s, n)
    BY FlattensExists
  <2> DEFINE e(i) == IF i = 1 THEN s[i] ELSE h[i-1] \o s[i]
  <2>2. h = [i \in 1..n |-> h[i]] /\ \A i \in 1..n : h[i] = e(i)
    BY <2>1 DEF Flattens
  <2>3. h = [i \in 1..n |-> e(i)]
    <3> HIDE DEF e
    <3> QED BY <2>2
  <2> QED BY <2>3
<1> DEFINE e(i) == IF i = 1 THEN s[i] ELSE c[i-1] \o s[i]
<1>3. c = [i \in 1..n |-> e(i)]
  BY <1>2
<1>4. c = [i \in 1..n |-> c[i]] /\ \A i \in 1..n : c[i] = e(i)
  <2> HIDE DEF e, c
  <2> QED BY <1>3
<1>5. Flattens(c, s, n)
  <2> HIDE DEF c
  <2> QED BY <1>4 DEF Flattens
<1>6. Agree(s, s, n) /\ n \in 1..n
  BY DEF Agree
<1> HIDE DEF c
<1>7. Agree(f, c, n)
  BY <1>5, <1>6, FlattensAgree
<1>8. f[n] = c[n]
  BY <1>6, <1>7 DEF Agree
<1> QED BY <1>1, <1>8

(* Concatenations of no sequence, of one and of one more.                   *)
LEMMA FlattenEmpty == FlattenSeq(<<>>) = <<>>
BY DEF FlattenSeq

LEMMA FlattenOne ==
  ASSUME NEW s, OfLength(s, 1)
  PROVE  FlattenSeq(s) = s[1]
<1>1. PICK f : Flattens(f, s, 1)
  BY FlattensExists
<1>2. f[1] = s[1]
  BY <1>1, FlattensStep
<1> QED BY <1>1, <1>2, FlattenIsLast

LEMMA FlattenMore ==
  ASSUME NEW n \in Nat \ {0}, NEW m \in Nat, m = n + 1,
         NEW s, OfLength(s, m), NEW t, OfLength(t, n), Agree(t, s, n)
  PROVE  FlattenSeq(s) = FlattenSeq(t) \o s[m]
<1>1. PICK f : Flattens(f, s, m)
  BY FlattensExists
<1>2. PICK g : Flattens(g, t, n)
  BY FlattensExists
<1>3. FlattenSeq(s) = f[m] /\ FlattenSeq(t) = g[n]
  BY <1>1, <1>2, FlattenIsLast
<1>4. Agree(g, f, n)
  BY <1>1, <1>2, FlattensAgree
<1>5. f[m] = IF m = 1 THEN s[m] ELSE f[m-1] \o s[m]
  BY <1>1, FlattensStep
<1>6. m # 1 /\ m - 1 = n /\ n \in 1..n
  OBVIOUS
<1>7. g[n] = f[n]
  BY <1>4, <1>6 DEF Agree
<1> QED BY <1>3, <1>5, <1>6, <1>7

(* The concatenation grows with its last sequence.                          *)
LEMMA FlattenSnoc ==
  ASSUME NEW S, NEW n \in Nat, NEW m \in Nat, m = n + 1,
         NEW s, Pieces(s, m, S), NEW t, Pieces(t, n, S), Agree(t, s, n),
         FlattenSeq(t) \in Seq(S)
  PROVE  /\ FlattenSeq(s) = FlattenSeq(t) \o s[m]
         /\ FlattenSeq(s) \in Seq(S)
<1>1. OfLength(s, m) /\ s[m] \in Seq(S)
  BY DEF OfLength, Pieces
<1>2. OfLength(t, n)
  BY DEF OfLength, Pieces
<1>3. CASE n = 0
  <2>1. t = <<>>
    BY <1>3 DEF Pieces
  <2>2. FlattenSeq(t) = <<>>
    BY <2>1, FlattenEmpty
  <2>3. FlattenSeq(s) = s[m]
    BY <1>1, <1>3, FlattenOne
  <2> QED BY <1>1, <2>2, <2>3, ConcatEmptySeq
<1>4. CASE n # 0
  <2>1. FlattenSeq(s) = FlattenSeq(t) \o s[m]
    BY <1>1, <1>2, <1>4, FlattenMore
  <2> QED BY <1>1, <2>1
<1> QED BY <1>3, <1>4

(* A concatenation of sequences over a set is a sequence over that set.     *)
LEMMA FlattenType ==
  ASSUME NEW S, NEW n \in Nat, NEW s, Pieces(s, n, S)
  PROVE  FlattenSeq(s) \in Seq(S)
<1> DEFINE T == {m \in Nat : \A q : Pieces(q, m, S) => FlattenSeq(q) \in Seq(S)}
<1>1. 0 \in T
  <2>1. ASSUME NEW q, Pieces(q, 0, S) PROVE FlattenSeq(q) \in Seq(S)
    <3>1. q = <<>>
      BY <2>1 DEF Pieces
    <3>2. <<>> \in Seq(S)
      OBVIOUS
    <3> QED BY <3>1, <3>2, FlattenEmpty
  <2> QED BY <2>1
<1>2. ASSUME NEW k \in Nat, k \in T PROVE k + 1 \in T
  <2>1. ASSUME NEW q, Pieces(q, k + 1, S) PROVE FlattenSeq(q) \in Seq(S)
    <3> DEFINE r == [i \in 1..k |-> q[i]]
               m == k + 1
    <3>1. Pieces(r, k, S) /\ Agree(r, q, k)
      BY <2>1 DEF Agree, Pieces
    <3>2. FlattenSeq(r) \in Seq(S)
      BY <1>2, <3>1
    <3>3. m \in Nat /\ m = k + 1 /\ Pieces(q, m, S)
      BY <2>1
    <3> HIDE DEF r, m, T
    <3> QED BY <3>1, <3>2, <3>3, FlattenSnoc
  <2> QED BY <2>1
<1>3. Nat \subseteq T
  <2> HIDE DEF T
  <2> QED BY <1>1, <1>2, NatSetInduction
<1> QED BY <1>3

Prefix(s, n) == [i \in 1..n |-> s[i]]

(* What a loop has appended after n of m rounds.                            *)
LEMMA FlattenPrefix ==
  ASSUME NEW S, NEW m \in Nat, NEW s, Pieces(s, m, S), NEW n \in 0..m
  PROVE  /\ FlattenSeq(Prefix(s, 0)) = <<>>
         /\ FlattenSeq(Prefix(s, n)) \in Seq(S)
         /\ n < m => FlattenSeq(Prefix(s, n + 1)) = FlattenSeq(Prefix(s, n)) \o s[n + 1]
<1>1. ASSUME NEW k \in 0..m PROVE Pieces(Prefix(s, k), k, S)
  BY DEF Pieces, Prefix
<1>2. ASSUME NEW k \in 0..m PROVE FlattenSeq(Prefix(s, k)) \in Seq(S)
  <2>1. k \in Nat
    OBVIOUS
  <2> QED BY <1>1, <2>1, FlattenType
<1>3. Prefix(s, 0) = <<>>
  BY DEF Prefix
<1>4. ASSUME n < m PROVE FlattenSeq(Prefix(s, n + 1)) = FlattenSeq(Prefix(s, n)) \o s[n + 1]
  <2> DEFINE k == n + 1
             e == Prefix(s, k)[k]
  <2>1. k \in 0..m /\ k \in Nat /\ n \in Nat /\ k = n + 1
    BY <1>4
  <2>2. Agree(Prefix(s, n), Prefix(s, k), n) /\ e = s[k]
    BY <2>1 DEF Agree, Prefix
  <2>3. FlattenSeq(Prefix(s, k)) = FlattenSeq(Prefix(s, n)) \o e
    <3>1. Pieces(Prefix(s, k), k, S) /\ Pieces(Prefix(s, n), n, S)
      BY <1>1, <2>1
    <3>2. FlattenSeq(Prefix(s, n)) \in Seq(S)
      BY <1>2, <2>1
    <3> HIDE DEF k
    <3> QED BY <2>1, <2>2, <3>1, <3>2, FlattenSnoc
  <2> QED BY <2>2, <2>3
<1> QED BY <1>2, <1>3, <1>4, FlattenEmpty

-----------------------------------------------------------------------------
(* What the call has found, read and decoded, as functions of the tree d    *)
(* under dist/ and of how far the loop is that collects it.                 *)
PathsOf(d, name) == {path \in Paths : d[path] # Missing /\ Named[path] = name}

Pick(d, name, path) ==
  IF d[path] # Missing /\ Named[path] = name THEN <<path>> ELSE <<>>

Visited(d, name, n) == FlattenSeq([i \in 1..n |-> Pick(d, name, Walk[i])])

Kustomizations(d) == Visited(d, "kustomization", Len(Walk))

Listed(d, n) == FlattenSeq([i \in 1..n |-> d[Kustomizations(d)[i]].lists])

Chosen(d) ==
  IF Kustomizations(d) = <<>> THEN Visited(d, "manifest", Len(Walk))
  ELSE Listed(d, Len(Kustomizations(d)))

PickObject(d, path, i) == IF d[path].docs[i] = "object" THEN <<<<path, i>>>> ELSE <<>>

Decoded(d, path, n) == FlattenSeq([i \in 1..n |-> PickObject(d, path, i)])

Contents(d, path) == Decoded(d, path, Len(d[path].docs))

Emitted(d, n) == FlattenSeq([i \in 1..n |-> Contents(d, Chosen(d)[i])])

-----------------------------------------------------------------------------
(* The inductive invariant.                                                 *)
Proper(d) == d \in [Paths -> {Missing} \cup Files] /\ d # Missing /\ d # None

Parsable(d, n) == \A i \in 1..n : d[Kustomizations(d)[i]].lists # Unparsable

Decodable(d, path, n) == \A i \in 1..n : d[path].docs[i] # "bad"

Readable(d, path) == d[path] # Missing /\ Decodable(d, path, Len(d[path].docs))

AllReadable(d, n) == \A i \in 1..n : Readable(d, Chosen(d)[i])

SoundTree(d) ==
  /\ Proper(d)
  /\ Parsable(d, Len(Kustomizations(d)))
  /\ AllReadable(d, Len(Chosen(d)))

(* What is left of a sequence after n elements have been taken from it.     *)
Left(rest, all, n) == n \in 0..Len(all) /\ rest = SubSeq(all, n + 1, Len(all))

BeforeWalk ==
  /\ pc \in {"type", "npm", "synth"} =>
       dist = None /\ walked = 0 /\ kustomizeFiles = <<>> /\ regularManifests = <<>>
  /\ pc \in {"type", "npm", "synth", "walk"} => todo = <<>>
  /\ pc \in {"type", "npm", "synth", "walk", "kustomize"} => parsed = <<>>
  /\ pc # "done" => ~err

WalkInv ==
  pc = "walk" =>
    /\ dist # None
    /\ dist # Missing =>
         /\ kustomizeFiles = Visited(dist, "kustomization", walked)
         /\ regularManifests = Visited(dist, "manifest", walked)

KustomizeInv ==
  pc = "kustomize" =>
    /\ Proper(dist)
    /\ \E n \in Nat :
         /\ n < Len(Kustomizations(dist)) /\ Left(kustomizeFiles, Kustomizations(dist), n)
         /\ Parsable(dist, n) /\ todo = Listed(dist, n)

ReadInv ==
  pc = "read" =>
    /\ Proper(dist) /\ Parsable(dist, Len(Kustomizations(dist)))
    /\ \E n \in Nat :
         /\ Left(todo, Chosen(dist), n)
         /\ AllReadable(dist, n) /\ parsed = Emitted(dist, n)

DecodeInv ==
  pc = "decode" =>
    /\ Proper(dist) /\ Parsable(dist, Len(Kustomizations(dist)))
    /\ current \in Paths /\ dist[current] # Missing
    /\ \E n \in Nat, k \in Nat :
         /\ n < Len(Chosen(dist)) /\ current = Chosen(dist)[n + 1]
         /\ Left(todo, Chosen(dist), n + 1)
         /\ AllReadable(dist, n)
         /\ Left(docs, dist[current].docs, k)
         /\ Decodable(dist, current, k)
         /\ parsed = Emitted(dist, n) \o Decoded(dist, current, k)

DoneInv ==
  pc = "done" =>
    /\ err <=> ~SoundTree(dist)
    /\ ~err => parsed = Emitted(dist, Len(Chosen(dist)))

SelectionInv ==
  /\ TypeOK /\ BeforeWalk /\ WalkInv /\ KustomizeInv /\ ReadInv /\ DecodeInv /\ DoneInv

-----------------------------------------------------------------------------
(* The functions of the tree, one element at a time.                        *)
LEMMA VisitedSteps ==
  ASSUME NEW d, Proper(d), NEW name, NEW n \in 0..Len(Walk)
  PROVE  /\ Visited(d, name, 0) = <<>>
         /\ Visited(d, name, n) \in Seq(PathsOf(d, name))
         /\ n < Len(Walk) =>
              Visited(d, name, n + 1) = Visited(d, name, n) \o Pick(d, name, Walk[n + 1])
<1> DEFINE S == PathsOf(d, name)
           m == Len(Walk)
           s == [i \in 1..m |-> Pick(d, name, Walk[i])]
<1>1. m \in Nat /\ n \in 0..m
  BY SynthesizerConstants
<1>2. Pieces(s, m, S)
  <2>1. ASSUME NEW i \in 1..m PROVE Pick(d, name, Walk[i]) \in Seq(S)
    <3> DEFINE path == Walk[i]
    <3>1. path \in Paths
      BY SynthesizerConstants
    <3> HIDE DEF path, S, s, m
    <3>2. CASE d[path] # Missing /\ Named[path] = name
      <4>1. path \in S
        BY <3>1, <3>2 DEF PathsOf, S
      <4>2. <<path>> \in Seq(S)
        BY <4>1
      <4>3. Pick(d, name, path) = <<path>>
        BY <3>2 DEF Pick
      <4> QED BY <4>2, <4>3 DEF path
    <3>3. CASE ~(d[path] # Missing /\ Named[path] = name)
      <4>1. Pick(d, name, path) = <<>>
        BY <3>3 DEF Pick
      <4>2. <<>> \in Seq(S)
        OBVIOUS
      <4> QED BY <4>1, <4>2 DEF path
    <3> QED BY <3>2, <3>3
  <2> HIDE DEF S, m
  <2> QED BY <2>1 DEF Pieces
<1>3. ASSUME NEW k \in 0..m PROVE Visited(d, name, k) = FlattenSeq(Prefix(s, k))
  <2>1. [i \in 1..k |-> Pick(d, name, Walk[i])] = Prefix(s, k)
    BY <1>1 DEF Prefix
  <2> QED BY <2>1 DEF Visited
<1>4. n < m => n + 1 \in 0..m /\ s[n + 1] = Pick(d, name, Walk[n + 1])
  BY <1>1
<1>5. 0 \in 0..m
  BY <1>1
<1> HIDE DEF S, m, s
<1> QED BY <1>1, <1>2, <1>3, <1>4, <1>5, FlattenPrefix DEF m, S

LEMMA KustomizationsType ==
  ASSUME NEW d, Proper(d)
  PROVE  /\ Kustomizations(d) \in Seq(PathsOf(d, "kustomization"))
         /\ Len(Kustomizations(d)) \in Nat
         /\ \A i \in 1..Len(Kustomizations(d)) :
              Kustomizations(d)[i] \in Paths /\ d[Kustomizations(d)[i]] \in Files
<1>1. Len(Walk) \in 0..Len(Walk)
  BY SynthesizerConstants
<1>2. Kustomizations(d) \in Seq(PathsOf(d, "kustomization"))
  BY <1>1, VisitedSteps DEF Kustomizations
<1>3. \A path \in PathsOf(d, "kustomization") : path \in Paths /\ d[path] \in Files
  BY DEF PathsOf, Proper
<1>4. \A i \in 1..Len(Kustomizations(d)) :
        Kustomizations(d)[i] \in PathsOf(d, "kustomization")
  BY <1>2
<1> QED BY <1>2, <1>3, <1>4

LEMMA ListedSteps ==
  ASSUME NEW d, Proper(d), NEW m \in 0..Len(Kustomizations(d)), Parsable(d, m), NEW n \in 0..m
  PROVE  /\ Listed(d, 0) = <<>>
         /\ Listed(d, n) \in Seq(Paths)
         /\ n < m => Listed(d, n + 1) = Listed(d, n) \o d[Kustomizations(d)[n + 1]].lists
<1> DEFINE s == [i \in 1..m |-> d[Kustomizations(d)[i]].lists]
<1>1. m \in Nat
  BY KustomizationsType
<1>2. Pieces(s, m, Paths)
  <2>1. ASSUME NEW i \in 1..m PROVE d[Kustomizations(d)[i]].lists \in Seq(Paths)
    <3>1. i \in 1..Len(Kustomizations(d))
      BY KustomizationsType
    <3>2. d[Kustomizations(d)[i]] \in Files
      BY <3>1, KustomizationsType
    <3>3. d[Kustomizations(d)[i]].lists # Unparsable
      BY DEF Parsable
    <3> QED BY <3>2, <3>3 DEF Files
  <2> QED BY <2>1 DEF Pieces
<1>3. ASSUME NEW k \in 0..m PROVE Listed(d, k) = FlattenSeq(Prefix(s, k))
  <2>1. [i \in 1..k |-> d[Kustomizations(d)[i]].lists] = Prefix(s, k)
    BY <1>1 DEF Prefix
  <2> QED BY <2>1 DEF Listed
<1>4. n < m => n + 1 \in 0..m /\ s[n + 1] = d[Kustomizations(d)[n + 1]].lists
  BY <1>1
<1>5. 0 \in 0..m
  BY <1>1
<1> HIDE DEF s
<1> QED BY <1>1, <1>2, <1>3, <1>4, <1>5, FlattenPrefix

LEMMA ChosenType ==
  ASSUME NEW d, Proper(d), Parsable(d, Len(Kustomizations(d)))
  PROVE  Chosen(d) \in Seq(Paths) /\ Len(Chosen(d)) \in Nat
<1>1. Len(Walk) \in 0..Len(Walk)
  BY SynthesizerConstants
<1>2. Visited(d, "manifest", Len(Walk)) \in Seq(Paths)
  <2>1. Visited(d, "manifest", Len(Walk)) \in Seq(PathsOf(d, "manifest"))
    BY <1>1, VisitedSteps
  <2>2. PathsOf(d, "manifest") \subseteq Paths
    BY DEF PathsOf
  <2> QED BY <2>1, <2>2, SeqMonotonic
<1>3. Listed(d, Len(Kustomizations(d))) \in Seq(Paths)
  <2>1. Len(Kustomizations(d)) \in 0..Len(Kustomizations(d))
    BY KustomizationsType
  <2> QED BY <2>1, ListedSteps
<1>4. Chosen(d) \in Seq(Paths)
  BY <1>2, <1>3 DEF Chosen
<1> QED BY <1>4

Positions == Paths \X (Nat \ {0})

LEMMA DecodedSteps ==
  ASSUME NEW d, Proper(d), NEW path \in Paths, d[path] # Missing, NEW n \in 0..Len(d[path].docs)
  PROVE  /\ Decoded(d, path, 0) = <<>>
         /\ Decoded(d, path, n) \in Seq(Positions)
         /\ n < Len(d[path].docs) =>
              Decoded(d, path, n + 1) = Decoded(d, path, n) \o PickObject(d, path, n + 1)
<1> DEFINE m == Len(d[path].docs)
           s == [i \in 1..m |-> PickObject(d, path, i)]
<1>1. m \in Nat /\ n \in 0..m
  BY DEF Proper, Files
<1>2. Pieces(s, m, Positions)
  <2>1. ASSUME NEW i \in 1..m PROVE PickObject(d, path, i) \in Seq(Positions)
    <3>1. <<path, i>> \in Positions
      BY <1>1 DEF Positions
    <3> QED BY <3>1 DEF PickObject
  <2> HIDE DEF m
  <2> QED BY <2>1 DEF Pieces
<1>3. ASSUME NEW k \in 0..m PROVE Decoded(d, path, k) = FlattenSeq(Prefix(s, k))
  <2>1. [i \in 1..k |-> PickObject(d, path, i)] = Prefix(s, k)
    <3> HIDE DEF m
    <3> QED BY <1>1 DEF Prefix
  <2> QED BY <2>1 DEF Decoded
<1>4. n < m => n + 1 \in 0..m /\ s[n + 1] = PickObject(d, path, n + 1)
  BY <1>1
<1>5. 0 \in 0..m
  BY <1>1
<1> HIDE DEF m, s
<1> QED BY <1>1, <1>2, <1>3, <1>4, <1>5, FlattenPrefix DEF m

LEMMA EmittedSteps ==
  ASSUME NEW d, Proper(d), Parsable(d, Len(Kustomizations(d))),
         NEW m \in 0..Len(Chosen(d)), AllReadable(d, m), NEW n \in 0..m
  PROVE  /\ Emitted(d, 0) = <<>>
         /\ Emitted(d, n) \in Seq(Positions)
         /\ n < m => Emitted(d, n + 1) = Emitted(d, n) \o Contents(d, Chosen(d)[n + 1])
<1> DEFINE s == [i \in 1..m |-> Contents(d, Chosen(d)[i])]
<1>1. m \in Nat
  BY ChosenType
<1>2. Pieces(s, m, Positions)
  <2>1. ASSUME NEW i \in 1..m PROVE Contents(d, Chosen(d)[i]) \in Seq(Positions)
    <3> DEFINE path == Chosen(d)[i]
    <3>1. path \in Paths
      BY ChosenType
    <3>2. d[path] # Missing
      BY DEF AllReadable, Readable
    <3>3. Len(d[path].docs) \in 0..Len(d[path].docs)
      BY <3>1, <3>2 DEF Proper, Files
    <3> HIDE DEF path
    <3>4. Contents(d, path) \in Seq(Positions)
      BY <3>1, <3>2, <3>3, DecodedSteps DEF Contents
    <3> QED BY <3>4 DEF path
  <2> QED BY <2>1 DEF Pieces
<1>3. ASSUME NEW k \in 0..m PROVE Emitted(d, k) = FlattenSeq(Prefix(s, k))
  <2>1. [i \in 1..k |-> Contents(d, Chosen(d)[i])] = Prefix(s, k)
    BY <1>1 DEF Prefix
  <2> QED BY <2>1 DEF Emitted
<1>4. n < m => n + 1 \in 0..m /\ s[n + 1] = Contents(d, Chosen(d)[n + 1])
  BY <1>1
<1>5. 0 \in 0..m
  BY <1>1
<1> HIDE DEF s
<1> QED BY <1>1, <1>2, <1>3, <1>4, <1>5, FlattenPrefix

(* What is left of a sequence: its head is the next element.                *)
LEMMA LeftSteps ==
  ASSUME NEW S, NEW all \in Seq(S), NEW rest, NEW n \in Nat, Left(rest, all, n)
  PROVE  /\ rest \in Seq(S) /\ Len(rest) = Len(all) - n
         /\ rest = <<>> <=> n = Len(all)
         /\ n < Len(all) => Head(rest) = all[n + 1] /\ Left(Tail(rest), all, n + 1)
<1>1. n \in 0..Len(all) /\ rest = SubSeq(all, n + 1, Len(all))
  BY DEF Left
<1>2. rest \in Seq(S) /\ Len(rest) = Len(all) - n
  BY <1>1
<1>3. ASSUME n < Len(all) PROVE Head(rest) = all[n + 1] /\ Left(Tail(rest), all, n + 1)
  <2>1. n + 1 \in 1..Len(all) /\ Len(all) \in (n + 1)..Len(all)
    BY <1>3
  <2>2. Head(rest) = all[n + 1] /\ Tail(rest) = SubSeq(all, (n + 1) + 1, Len(all))
    BY <1>1, <2>1, HeadTailOfSubSeq
  <2> QED BY <2>1, <2>2 DEF Left
<1>4. rest = <<>> <=> Len(rest) = 0
  BY <1>2, EmptySeq
<1>5. Len(all) \in Nat
  OBVIOUS
<1>6. rest = <<>> <=> n = Len(all)
  BY <1>2, <1>4, <1>5
<1> QED BY <1>2, <1>3, <1>6

(* Before the first element is taken, all are left.                         *)
LEMMA LeftAll ==
  ASSUME NEW S, NEW all \in Seq(S)
  PROVE  Left(all, all, 0)
BY DEF Left

(* A loop appends one element where a concatenation has one more sequence.  *)
LEMMA AppendConcat ==
  ASSUME NEW S, NEW s \in Seq(S), NEW e \in S
  PROVE  Append(s, e) = s \o <<e>>
OBVIOUS

-----------------------------------------------------------------------------
(* Every step keeps the invariant.                                          *)
LEMMA DistProper ==
  ASSUME dist \in Dists, dist # Missing
  PROVE  Proper(dist)
BY SynthesizerConstants DEF Proper

LEMMA InitSelection == Init => SelectionInv
<1> SUFFICES ASSUME Init PROVE SelectionInv
  OBVIOUS
<1>1. TypeOK
  <2>1. Len(Walk) \in Nat
    BY SynthesizerConstants
  <2>2. walked = 0 /\ pc = "type" /\ err \in BOOLEAN
    BY ZenonT(20) DEF Init
  <2>6. walked \in 0..Len(Walk)
    BY <2>1, <2>2
  <2>3. root \in Listings /\ dist = None /\ current = None /\ todo = <<>> /\ docs = <<>>
    BY DEF Init
  <2>4. parsed = <<>> /\ kustomizeFiles = <<>> /\ regularManifests = <<>>
    BY DEF Init
  <2>5. \A S : <<>> \in Seq(S)
    BY EmptySeq
  <2> HIDE DEF Init
  <2> QED BY <2>2, <2>3, <2>4, <2>5, <2>6 DEF TypeOK
<1>2. BeforeWalk /\ WalkInv /\ KustomizeInv /\ ReadInv /\ DecodeInv /\ DoneInv
  BY DEF Init, BeforeWalk, WalkInv, KustomizeInv, ReadInv, DecodeInv, DoneInv
<1> QED BY <1>1, <1>2 DEF SelectionInv

LEMMA DetermineTypeStep ==
  ASSUME SelectionInv, DetermineType
  PROVE  SelectionInv'
<1> USE DEF DetermineType, found
<1>1. TypeOK'
  BY DEF SelectionInv, TypeOK
<1>2. BeforeWalk'
  BY DEF SelectionInv, BeforeWalk
<1>3. WalkInv' /\ KustomizeInv' /\ ReadInv' /\ DecodeInv' /\ DoneInv'
  BY DEF WalkInv, KustomizeInv, ReadInv, DecodeInv, DoneInv
<1> QED BY <1>1, <1>2, <1>3 DEF SelectionInv

LEMMA NpmInstallStep ==
  ASSUME SelectionInv, NpmInstall
  PROVE  SelectionInv'
<1> USE DEF NpmInstall, found
<1>1. TypeOK'
  BY DEF SelectionInv, TypeOK
<1>2. BeforeWalk'
  BY DEF SelectionInv, BeforeWalk
<1>3. WalkInv' /\ KustomizeInv' /\ ReadInv' /\ DecodeInv' /\ DoneInv'
  BY DEF WalkInv, KustomizeInv, ReadInv, DecodeInv, DoneInv
<1> QED BY <1>1, <1>2, <1>3 DEF SelectionInv

LEMMA SynthStep ==
  ASSUME SelectionInv, Synth
  PROVE  SelectionInv'
<1> USE DEF Synth, Return, found
<1>1. TypeOK'
  BY DEF SelectionInv, TypeOK
<1>2. BeforeWalk'
  BY DEF SelectionInv, BeforeWalk
<1>3. WalkInv'
  <2> SUFFICES ASSUME pc' = "walk", dist' # Missing
               PROVE  /\ kustomizeFiles' = Visited(dist', "kustomization", walked')
                      /\ regularManifests' = Visited(dist', "manifest", walked')
    BY SynthesizerConstants DEF WalkInv
  <2>1. Proper(dist')
    BY SynthesizerConstants DEF Proper
  <2>2. 0 \in 0..Len(Walk)
    BY SynthesizerConstants
  <2>3. walked' = 0 /\ kustomizeFiles' = <<>> /\ regularManifests' = <<>>
    BY DEF SelectionInv, BeforeWalk
  <2> QED BY <2>1, <2>2, <2>3, VisitedSteps
<1>4. KustomizeInv' /\ ReadInv' /\ DecodeInv'
  BY DEF KustomizeInv, ReadInv, DecodeInv
<1>5. DoneInv'
  BY DEF SelectionInv, BeforeWalk, DoneInv, SoundTree, Proper
<1> QED BY <1>1, <1>2, <1>3, <1>4, <1>5 DEF SelectionInv

LEMMA VisitStep ==
  ASSUME SelectionInv, Visit
  PROVE  SelectionInv'
<1> DEFINE path == Walk[walked + 1]
<1>1. /\ pc = "walk" /\ pc' = pc /\ dist # Missing /\ dist' = dist /\ walked < Len(Walk)
      /\ walked' = walked + 1 /\ root' = root /\ todo' = todo /\ docs' = docs
      /\ current' = current /\ parsed' = parsed /\ err' = err
  BY DEF Visit
<1>2. Proper(dist) /\ walked \in 0..Len(Walk) /\ walked' \in 0..Len(Walk)
  <2>1. dist \in Dists /\ walked \in 0..Len(Walk) /\ Len(Walk) \in Nat
    BY <1>1, SynthesizerConstants DEF SelectionInv, TypeOK, WalkInv
  <2>2. Proper(dist)
    BY <1>1, <2>1, DistProper
  <2>3. walked' \in 0..Len(Walk)
    BY <1>1, <2>1
  <2> QED BY <2>1, <2>2, <2>3
<1>3. path \in Paths
  BY <1>1, <1>2, SynthesizerConstants
<1>4. ASSUME NEW name, NEW list \in Seq(Paths), NEW list1,
             list1 = IF dist[path] # Missing /\ Named[path] = name THEN Append(list, path)
                     ELSE list,
             list = Visited(dist, name, walked)
      PROVE  list1 \in Seq(Paths) /\ list1 = Visited(dist, name, walked + 1)
  <2>1. Visited(dist, name, walked + 1) = list \o Pick(dist, name, path)
    BY <1>1, <1>2, <1>4, VisitedSteps
  <2> HIDE DEF path
  <2>2. Append(list, path) = list \o <<path>> /\ list \o <<>> = list
    BY <1>3, AppendConcat, ConcatEmptySeq
  <2>3. Append(list, path) \in Seq(Paths)
    BY <1>3
  <2> QED BY <1>4, <2>1, <2>2, <2>3 DEF Pick
<1>5. /\ kustomizeFiles = Visited(dist, "kustomization", walked) /\ kustomizeFiles \in Seq(Paths)
      /\ regularManifests = Visited(dist, "manifest", walked) /\ regularManifests \in Seq(Paths)
  BY <1>1 DEF SelectionInv, WalkInv, TypeOK
<1>6. /\ kustomizeFiles' = IF dist[path] # Missing /\ Named[path] = "kustomization"
                           THEN Append(kustomizeFiles, path) ELSE kustomizeFiles
      /\ regularManifests' = IF dist[path] # Missing /\ Named[path] = "manifest"
                             THEN Append(regularManifests, path) ELSE regularManifests
  BY DEF Visit
<1> HIDE DEF path
<1>7. kustomizeFiles' \in Seq(Paths) /\ kustomizeFiles' = Visited(dist, "kustomization", walked + 1)
  BY <1>4, <1>5, <1>6
<1>8. regularManifests' \in Seq(Paths) /\ regularManifests' = Visited(dist, "manifest", walked + 1)
  BY <1>4, <1>5, <1>6
<1>9. TypeOK'
  BY <1>1, <1>2, <1>7, <1>8 DEF SelectionInv, TypeOK
<1>10. BeforeWalk'
  BY <1>1 DEF SelectionInv, BeforeWalk
<1>11. WalkInv'
  BY <1>1, <1>2, <1>7, <1>8 DEF WalkInv, Proper
<1>12. KustomizeInv' /\ ReadInv' /\ DecodeInv' /\ DoneInv'
  BY <1>1 DEF KustomizeInv, ReadInv, DecodeInv, DoneInv
<1> QED BY <1>9, <1>10, <1>11, <1>12 DEF SelectionInv

LEMMA EndWalkStep ==
  ASSUME SelectionInv, EndWalk
  PROVE  SelectionInv'
<1>1. /\ pc = "walk" /\ dist' = dist /\ walked' = walked /\ root' = root
      /\ kustomizeFiles' = kustomizeFiles /\ regularManifests' = regularManifests
      /\ docs' = docs /\ current' = current /\ parsed' = parsed
  BY DEF EndWalk, found
<1>2. todo = <<>> /\ parsed = <<>> /\ ~err
  BY <1>1 DEF SelectionInv, BeforeWalk
<1>3. CASE dist = Missing /\ Return(TRUE) /\ UNCHANGED todo
  <2> USE <1>1, <1>3 DEF Return
  <2>1. TypeOK'
    BY DEF SelectionInv, TypeOK
  <2>2. DoneInv'
    BY DEF DoneInv, SoundTree, Proper
  <2>3. BeforeWalk' /\ WalkInv' /\ KustomizeInv' /\ ReadInv' /\ DecodeInv'
    BY DEF BeforeWalk, WalkInv, KustomizeInv, ReadInv, DecodeInv
  <2> QED BY <2>1, <2>2, <2>3 DEF SelectionInv
<1>4. CASE /\ dist # Missing /\ walked = Len(Walk)
           /\ IF kustomizeFiles # <<>> THEN pc' = "kustomize" /\ UNCHANGED todo
                                       ELSE pc' = "read" /\ todo' = regularManifests
           /\ UNCHANGED err
  <2>1. Proper(dist)
    BY <1>1, <1>4, DistProper DEF SelectionInv, TypeOK, WalkInv
  <2>2. /\ kustomizeFiles = Kustomizations(dist)
        /\ regularManifests = Visited(dist, "manifest", Len(Walk))
    BY <1>1, <1>4 DEF SelectionInv, WalkInv, Kustomizations
  <2>3. /\ Kustomizations(dist) \in Seq(Paths) /\ Len(Kustomizations(dist)) \in Nat
    BY <2>1, <2>2, KustomizationsType DEF SelectionInv, TypeOK
  <2>4. TypeOK'
    BY <1>1, <1>4 DEF SelectionInv, TypeOK
  <2>5. BeforeWalk' /\ WalkInv' /\ DecodeInv' /\ DoneInv'
    BY <1>1, <1>2, <1>4 DEF BeforeWalk, WalkInv, DecodeInv, DoneInv
  <2>6. KustomizeInv'
    <3> SUFFICES ASSUME pc' = "kustomize" PROVE KustomizeInv'
      BY DEF KustomizeInv
    <3>1. kustomizeFiles # <<>> /\ todo' = todo
      BY <1>4
    <3>2. 0 < Len(Kustomizations(dist)) /\ 0 \in 0..Len(Kustomizations(dist))
      BY <2>2, <2>3, <3>1, EmptySeq
    <3>3. Left(kustomizeFiles, Kustomizations(dist), 0)
      BY <2>2, <2>3, LeftAll
    <3>4. Parsable(dist, 0)
      BY DEF Parsable
    <3>5. todo' = Listed(dist, 0)
      <4>1. 0 \in 0..0
        OBVIOUS
      <4> QED BY <1>2, <2>1, <3>1, <3>2, <3>4, <4>1, ListedSteps
    <3> QED BY <1>1, <2>1, <3>2, <3>3, <3>4, <3>5 DEF KustomizeInv
  <2>7. ReadInv'
    <3> SUFFICES ASSUME pc' = "read" PROVE ReadInv'
      BY DEF ReadInv
    <3>1. kustomizeFiles = <<>> /\ todo' = regularManifests
      BY <1>4
    <3>2. Parsable(dist, Len(Kustomizations(dist)))
      BY <2>2, <3>1 DEF Parsable
    <3>3. todo' = Chosen(dist)
      BY <2>2, <3>1 DEF Chosen
    <3>4. Left(todo', Chosen(dist), 0)
      BY <2>1, <3>2, <3>3, ChosenType, LeftAll
    <3>5. AllReadable(dist, 0)
      BY DEF AllReadable
    <3>6. Emitted(dist, 0) = <<>>
      <4>1. 0 \in 0..Len(Chosen(dist)) /\ 0 \in 0..0
        BY <2>1, <3>2, ChosenType
      <4> QED BY <2>1, <3>2, <3>5, <4>1, EmittedSteps
    <3> QED BY <1>1, <1>2, <2>1, <3>2, <3>4, <3>5, <3>6 DEF ReadInv
  <2> QED BY <2>4, <2>5, <2>6, <2>7 DEF SelectionInv
<1> QED BY <1>3, <1>4 DEF EndWalk

LEMMA ParseKustomizationStep ==
  ASSUME SelectionInv, ParseKustomization
  PROVE  SelectionInv'
<1> DEFINE K == Kustomizations(dist)
           lists == dist[Head(kustomizeFiles)].lists
<1>1. /\ pc = "kustomize" /\ dist' = dist /\ walked' = walked /\ root' = root
      /\ regularManifests' = regularManifests
      /\ docs' = docs /\ current' = current /\ parsed' = parsed
  BY DEF ParseKustomization
<1>2. Proper(dist) /\ parsed = <<>> /\ ~err
  BY <1>1 DEF SelectionInv, BeforeWalk, KustomizeInv
<1>3. PICK n \in Nat : /\ n < Len(K) /\ Left(kustomizeFiles, K, n)
                       /\ Parsable(dist, n) /\ todo = Listed(dist, n)
  BY <1>1 DEF SelectionInv, KustomizeInv
<1>4. K \in Seq(Paths) /\ Len(K) \in Nat
  <2>1. K \in Seq(PathsOf(dist, "kustomization")) /\ Len(K) \in Nat
    BY <1>2, KustomizationsType
  <2>2. PathsOf(dist, "kustomization") \subseteq Paths
    BY DEF PathsOf
  <2> HIDE DEF K
  <2> QED BY <2>1, <2>2, SeqMonotonic
<1>5. /\ Head(kustomizeFiles) = K[n + 1] /\ Left(Tail(kustomizeFiles), K, n + 1)
      /\ Len(kustomizeFiles) = Len(K) - n /\ n + 1 \in 1..Len(K)
  <2> HIDE DEF K
  <2> QED BY <1>3, <1>4, LeftSteps
<1>6. CASE lists = Unparsable
  <2>1. /\ Return(TRUE) /\ UNCHANGED <<kustomizeFiles, todo>>
    BY <1>6 DEF ParseKustomization
  <2>2. TypeOK'
    BY <1>1, <2>1 DEF SelectionInv, TypeOK, Return
  <2>3. ~Parsable(dist, Len(K))
    BY <1>5, <1>6 DEF Parsable
  <2>4. DoneInv'
    BY <1>1, <2>1, <2>3 DEF DoneInv, SoundTree, Return
  <2>5. BeforeWalk' /\ WalkInv' /\ KustomizeInv' /\ ReadInv' /\ DecodeInv'
    BY <2>1 DEF BeforeWalk, WalkInv, KustomizeInv, ReadInv, DecodeInv, Return
  <2> QED BY <2>2, <2>4, <2>5 DEF SelectionInv
<1>7. CASE lists # Unparsable
  <2>1. /\ todo' = todo \o lists /\ kustomizeFiles' = Tail(kustomizeFiles)
        /\ pc' = IF Len(kustomizeFiles) = 1 THEN "read" ELSE pc
        /\ err' = err
    BY <1>7 DEF ParseKustomization
  <2>2. Parsable(dist, n + 1)
    <3> SUFFICES ASSUME NEW i \in 1..(n + 1) PROVE dist[K[i]].lists # Unparsable
      BY DEF Parsable
    <3>1. CASE i = n + 1
      BY <1>5, <1>7, <3>1
    <3>2. CASE i # n + 1
      <4>1. i \in 1..n
        BY <1>3, <3>2
      <4> QED BY <1>3, <4>1 DEF Parsable
    <3> QED BY <3>1, <3>2
  <2>3. todo' = Listed(dist, n + 1) /\ todo' \in Seq(Paths)
    <3> DEFINE k == n + 1
    <3>1. k \in 0..Len(K) /\ n \in 0..k /\ k \in 0..k /\ n < k
      BY <1>3, <1>5
    <3>2. Parsable(dist, k)
      BY <2>2
    <3>3. Listed(dist, n + 1) = Listed(dist, n) \o dist[K[n + 1]].lists
      <4> HIDE DEF k
      <4> QED BY <1>2, <3>1, <3>2, ListedSteps
    <3>4. Listed(dist, k) \in Seq(Paths)
      <4> HIDE DEF k
      <4> QED BY <1>2, <3>1, <3>2, ListedSteps
    <3>5. todo' = Listed(dist, n) \o dist[K[n + 1]].lists
      BY <1>3, <1>5, <2>1
    <3> QED BY <3>3, <3>4, <3>5
  <2>4. kustomizeFiles' \in Seq(Paths) /\ Len(kustomizeFiles') = Len(K) - (n + 1)
    <3> DEFINE k == n + 1
    <3>1. k \in Nat /\ Left(kustomizeFiles', K, k)
      BY <1>5, <2>1
    <3> HIDE DEF K, k
    <3>2. kustomizeFiles' \in Seq(Paths) /\ Len(kustomizeFiles') = Len(K) - k
      BY <1>4, <3>1, LeftSteps
    <3> QED BY <3>2 DEF k
  <2>5. DoneInv' /\ BeforeWalk' /\ WalkInv' /\ DecodeInv'
    BY <1>1, <1>2, <2>1 DEF DoneInv, BeforeWalk, WalkInv, DecodeInv
  <2>6. CASE Len(kustomizeFiles) = 1
    <3>1. pc' = "read" /\ n + 1 = Len(K) /\ K # <<>>
      <4>1. pc' = "read"
        BY <2>1, <2>6
      <4> HIDE DEF K
      <4>2. n + 1 = Len(K)
        <5>1. Len(K) - n = 1 /\ Len(K) \in Nat
          BY <1>4, <1>5, <2>6
        <5> QED BY <5>1
      <4>3. Len(K) # 0
        BY <4>2
      <4> QED BY <4>1, <4>2, <4>3, EmptySeq
    <3>2. Parsable(dist, Len(K)) /\ todo' = Chosen(dist)
      BY <2>2, <2>3, <3>1 DEF Chosen
    <3>3. Left(todo', Chosen(dist), 0)
      BY <2>3, <3>2, LeftAll
    <3>4. AllReadable(dist, 0)
      BY DEF AllReadable
    <3>5. Emitted(dist, 0) = <<>>
      <4>1. 0 \in 0..Len(Chosen(dist)) /\ 0 \in 0..0
        BY <1>2, <3>2, ChosenType
      <4> QED BY <1>2, <3>2, <3>4, <4>1, EmittedSteps
    <3>6. ReadInv'
      BY <1>1, <1>2, <3>2, <3>3, <3>4, <3>5 DEF ReadInv
    <3>7. KustomizeInv'
      BY <3>1 DEF KustomizeInv
    <3>8. TypeOK'
      BY <1>1, <2>1, <2>3, <2>4, <3>1 DEF SelectionInv, TypeOK
    <3> QED BY <2>5, <3>6, <3>7, <3>8 DEF SelectionInv
  <2>7. CASE Len(kustomizeFiles) # 1
    <3>1. pc' = "kustomize"
      BY <1>1, <2>1, <2>7
    <3>2. n + 1 < Len(K) /\ n + 1 \in Nat
      BY <1>3, <1>4, <1>5, <2>7
    <3>3. kustomizeFiles' # <<>>
      <4>1. Len(kustomizeFiles') # 0
        BY <1>4, <2>4, <3>2
      <4> QED BY <4>1, EmptySeq
    <3>4. KustomizeInv'
      BY <1>1, <1>2, <1>5, <2>1, <2>2, <2>3, <3>2 DEF KustomizeInv
    <3>5. ReadInv'
      BY <3>1 DEF ReadInv
    <3>6. TypeOK'
      BY <1>1, <2>1, <2>3, <2>4, <3>1, <3>3 DEF SelectionInv, TypeOK
    <3> QED BY <2>5, <3>4, <3>5, <3>6 DEF SelectionInv
  <2> QED BY <2>6, <2>7
<1> QED BY <1>6, <1>7

LEMMA ReadFileStep ==
  ASSUME SelectionInv, ReadFile
  PROVE  SelectionInv'
<1> DEFINE C == Chosen(dist)
<1>1. /\ pc = "read" /\ dist' = dist /\ walked' = walked /\ root' = root
      /\ kustomizeFiles' = kustomizeFiles /\ regularManifests' = regularManifests
      /\ parsed' = parsed
  BY DEF ReadFile, found
<1>2. Proper(dist) /\ Parsable(dist, Len(Kustomizations(dist))) /\ ~err
  BY <1>1 DEF SelectionInv, BeforeWalk, ReadInv
<1>3. PICK n \in Nat : Left(todo, C, n) /\ AllReadable(dist, n) /\ parsed = Emitted(dist, n)
  BY <1>1 DEF SelectionInv, ReadInv
<1>4. C \in Seq(Paths) /\ Len(C) \in Nat
  BY <1>2, ChosenType
<1>5. /\ todo = <<>> <=> n = Len(C)
      /\ n \in 0..Len(C)
      /\ n < Len(C) => Head(todo) = C[n + 1] /\ Left(Tail(todo), C, n + 1)
  <2> HIDE DEF C
  <2>1. n \in 0..Len(C)
    BY <1>3 DEF Left
  <2> QED BY <1>3, <1>4, <2>1, LeftSteps
<1>6. CASE todo = <<>>
  <2>1. Return(FALSE) /\ UNCHANGED <<todo, docs, current>>
    BY <1>6 DEF ReadFile
  <2>2. SoundTree(dist) /\ parsed = Emitted(dist, Len(C))
    BY <1>2, <1>3, <1>5, <1>6 DEF SoundTree
  <2>3. DoneInv'
    BY <1>1, <2>1, <2>2 DEF DoneInv, Return
  <2>4. BeforeWalk' /\ WalkInv' /\ KustomizeInv' /\ ReadInv' /\ DecodeInv'
    BY <2>1 DEF BeforeWalk, WalkInv, KustomizeInv, ReadInv, DecodeInv, Return
  <2>5. TypeOK'
    BY <1>1, <2>1 DEF SelectionInv, TypeOK, Return
  <2> QED BY <2>3, <2>4, <2>5 DEF SelectionInv
<1>7. CASE todo # <<>>
  <2> DEFINE path == C[n + 1]
             k == n + 1
  <2>1. n < Len(C) /\ k \in 1..Len(C) /\ k \in Nat
    BY <1>4, <1>5, <1>7
  <2>2. Head(todo) = path /\ todo' = Tail(todo) /\ Left(todo', C, k) /\ path \in Paths
    <3>1. todo' = Tail(todo)
      BY <1>7 DEF ReadFile
    <3>2. Head(todo) = path /\ Left(Tail(todo), C, k)
      BY <1>5, <2>1
    <3>3. path \in Paths
      <4> HIDE DEF C
      <4> QED BY <1>4, <2>1, ElementOfSeq
    <3> QED BY <3>1, <3>2, <3>3
  <2>3. todo' \in Seq(Paths)
    <3> HIDE DEF C, k
    <3> QED BY <1>4, <2>1, <2>2, LeftSteps
  <2>4. CASE dist[path] = Missing
    <3>1. Return(TRUE) /\ UNCHANGED <<docs, current>>
      BY <1>7, <2>2, <2>4 DEF ReadFile
    <3>2. ~SoundTree(dist)
      BY <2>1, <2>4 DEF SoundTree, AllReadable, Readable
    <3>3. DoneInv'
      BY <1>1, <3>1, <3>2 DEF DoneInv, Return
    <3>4. BeforeWalk' /\ WalkInv' /\ KustomizeInv' /\ ReadInv' /\ DecodeInv'
      BY <3>1 DEF BeforeWalk, WalkInv, KustomizeInv, ReadInv, DecodeInv, Return
    <3>5. TypeOK'
      BY <1>1, <2>3, <3>1 DEF SelectionInv, TypeOK, Return
    <3> QED BY <3>3, <3>4, <3>5 DEF SelectionInv
  <2>5. CASE dist[path] # Missing
    <3>1. docs' = dist[path].docs /\ current' = path /\ pc' = "decode" /\ err' = err
      BY <1>7, <2>2, <2>5 DEF ReadFile
    <3>2. docs' \in Seq(Documents)
      BY <1>2, <2>2, <2>5, <3>1 DEF Proper, Files
    <3>3. TypeOK'
      BY <1>1, <2>2, <2>3, <3>1, <3>2, SynthesizerConstants DEF SelectionInv, TypeOK
    <3>4. Left(docs', dist[current'].docs, 0)
      BY <3>1, <3>2, LeftAll
    <3>5. Decodable(dist, current', 0)
      BY DEF Decodable
    <3>6. parsed = Emitted(dist, n) \o Decoded(dist, current', 0)
      <4>1. Decoded(dist, path, 0) = <<>>
        <5>1. 0 \in 0..Len(dist[path].docs)
          BY <3>1, <3>2
        <5> HIDE DEF path
        <5> QED BY <1>2, <2>2, <2>5, <5>1, DecodedSteps
      <4>2. Emitted(dist, n) \in Seq(Positions)
        BY <1>2, <1>3, <1>5, EmittedSteps
      <4>3. Emitted(dist, n) \o <<>> = Emitted(dist, n)
        BY <4>2, ConcatEmptySeq
      <4> HIDE DEF path
      <4> QED BY <1>3, <3>1, <4>1, <4>3
    <3>7. DecodeInv'
      <4>1. /\ current' \in Paths /\ dist'[current'] # Missing
        BY <1>1, <2>2, <2>5, <3>1
      <4>2. /\ n < Len(Chosen(dist')) /\ current' = Chosen(dist')[n + 1]
            /\ Left(todo', Chosen(dist'), n + 1)
            /\ AllReadable(dist', n)
            /\ Left(docs', dist'[current'].docs, 0)
            /\ Decodable(dist', current', 0)
            /\ parsed' = Emitted(dist', n) \o Decoded(dist', current', 0)
        BY <1>1, <1>3, <2>1, <2>2, <3>1, <3>4, <3>5, <3>6
      <4> QED BY <1>1, <1>2, <4>1, <4>2 DEF DecodeInv
    <3>8. BeforeWalk' /\ WalkInv' /\ KustomizeInv' /\ ReadInv' /\ DoneInv'
      BY <1>2, <3>1 DEF BeforeWalk, WalkInv, KustomizeInv, ReadInv, DoneInv
    <3> QED BY <3>3, <3>7, <3>8 DEF SelectionInv
  <2> QED BY <2>4, <2>5
<1> QED BY <1>6, <1>7

LEMMA DecodeStep ==
  ASSUME SelectionInv, Decode
  PROVE  SelectionInv'
<1> DEFINE C == Chosen(dist)
           contents == dist[current].docs
<1>1. /\ pc = "decode" /\ dist' = dist /\ walked' = walked /\ root' = root
      /\ kustomizeFiles' = kustomizeFiles /\ regularManifests' = regularManifests
      /\ todo' = todo /\ current' = current
  BY DEF Decode, found
<1>2. /\ Proper(dist) /\ Parsable(dist, Len(Kustomizations(dist)))
      /\ current \in Paths /\ dist[current] # Missing /\ ~err
  BY <1>1 DEF SelectionInv, BeforeWalk, DecodeInv
<1>3. PICK n \in Nat, k \in Nat :
         /\ n < Len(C) /\ current = C[n + 1]
         /\ Left(todo, C, n + 1)
         /\ AllReadable(dist, n)
         /\ Left(docs, contents, k)
         /\ Decodable(dist, current, k)
         /\ parsed = Emitted(dist, n) \o Decoded(dist, current, k)
  BY <1>1 DEF SelectionInv, DecodeInv
<1>4. C \in Seq(Paths) /\ Len(C) \in Nat /\ n \in 0..Len(C) /\ n + 1 \in 1..Len(C)
  <2>1. C \in Seq(Paths) /\ Len(C) \in Nat
    BY <1>2, ChosenType
  <2> QED BY <1>3, <2>1
<1>5. contents \in Seq(Documents) /\ Len(contents) \in Nat
  BY <1>2 DEF Proper, Files
<1>6. /\ docs = <<>> <=> k = Len(contents)
      /\ k \in 0..Len(contents) /\ Len(docs) = Len(contents) - k
      /\ k < Len(contents) => Head(docs) = contents[k + 1] /\ Left(Tail(docs), contents, k + 1)
  <2> HIDE DEF contents
  <2>1. k \in 0..Len(contents)
    BY <1>3 DEF Left
  <2> QED BY <1>3, <1>5, <2>1, LeftSteps
<1>7. Emitted(dist, n) \in Seq(Positions)
  BY <1>2, <1>3, <1>4, EmittedSteps
<1>8. Decoded(dist, current, k) \in Seq(Positions)
  BY <1>2, <1>6, DecodedSteps
<1>9. CASE docs = <<>> /\ pc' = "read" /\ UNCHANGED <<docs, parsed, err>>
  <2> DEFINE m == n + 1
  <2>1. Decodable(dist, current, Len(contents)) /\ k = Len(contents)
    BY <1>3, <1>6, <1>9
  <2>2. AllReadable(dist, m)
    <3> SUFFICES ASSUME NEW i \in 1..m PROVE Readable(dist, C[i])
      BY DEF AllReadable
    <3>1. CASE i = m
      BY <1>2, <1>3, <2>1, <3>1 DEF Readable
    <3>2. CASE i # m
      <4>1. i \in 1..n
        BY <1>3, <3>2
      <4> QED BY <1>3, <4>1 DEF AllReadable
    <3> QED BY <3>1, <3>2
  <2>3. parsed = Emitted(dist, m)
    <3>1. m \in 0..Len(C) /\ n \in 0..m /\ n < m
      BY <1>4
    <3>2. Emitted(dist, n + 1) = Emitted(dist, n) \o Contents(dist, C[n + 1])
      <4> HIDE DEF m
      <4> QED BY <1>2, <2>2, <3>1, EmittedSteps
    <3>3. Contents(dist, C[n + 1]) = Decoded(dist, current, k)
      BY <1>3, <2>1 DEF Contents
    <3> QED BY <1>3, <3>2, <3>3
  <2>4. ReadInv'
    BY <1>1, <1>2, <1>3, <1>9, <2>2, <2>3 DEF ReadInv
  <2>5. BeforeWalk' /\ WalkInv' /\ KustomizeInv' /\ DecodeInv' /\ DoneInv'
    BY <1>2, <1>9 DEF BeforeWalk, WalkInv, KustomizeInv, DecodeInv, DoneInv
  <2>6. TypeOK'
    BY <1>1, <1>9 DEF SelectionInv, TypeOK
  <2> QED BY <2>4, <2>5, <2>6 DEF SelectionInv
<1>10. ASSUME docs # <<>>
       PROVE  k < Len(contents) /\ k + 1 \in 1..Len(contents) /\ Head(docs) = contents[k + 1]
  <2>1. k < Len(contents)
    BY <1>5, <1>6, <1>10
  <2> QED BY <1>5, <1>6, <2>1
<1>11. CASE docs # <<>> /\ Head(docs) = "bad" /\ Return(TRUE) /\ UNCHANGED <<docs, parsed>>
  <2>1. ~SoundTree(dist)
    <3>1. ~Decodable(dist, current, Len(contents))
      BY <1>10, <1>11 DEF Decodable
    <3>2. ~AllReadable(dist, Len(C))
      BY <1>3, <1>4, <3>1 DEF AllReadable, Readable
    <3> QED BY <3>2 DEF SoundTree
  <2>2. DoneInv'
    BY <1>1, <1>11, <2>1 DEF DoneInv, Return
  <2>3. BeforeWalk' /\ WalkInv' /\ KustomizeInv' /\ ReadInv' /\ DecodeInv'
    BY <1>11 DEF BeforeWalk, WalkInv, KustomizeInv, ReadInv, DecodeInv, Return
  <2>4. TypeOK'
    BY <1>1, <1>11 DEF SelectionInv, TypeOK, Return
  <2> QED BY <2>2, <2>3, <2>4 DEF SelectionInv
<1>12. CASE /\ docs # <<>> /\ Head(docs) # "bad"
            /\ docs' = Tail(docs)
            /\ parsed' = IF Head(docs) = "null" THEN parsed
                         ELSE Append(parsed, <<current, Len(dist[current].docs) - Len(docs) + 1>>)
            /\ UNCHANGED <<pc, err>>
  <2> DEFINE m == k + 1
             e == <<current, m>>
  <2>1. /\ k < Len(contents) /\ m \in 1..Len(contents) /\ Head(docs) = contents[m]
        /\ m \in 0..Len(contents)
    BY <1>10, <1>12
  <2>2. Len(contents) - Len(docs) + 1 = m
    BY <1>5, <1>6
  <2>3. /\ docs' = Tail(docs)
        /\ parsed' = IF contents[m] = "null" THEN parsed ELSE Append(parsed, e)
    BY <1>12, <2>1, <2>2
  <2>4. contents[m] \in {"object", "null"}
    BY <1>5, <1>12, <2>1 DEF Documents
  <2>5. e \in Positions
    BY <1>2, <2>1 DEF Positions
  <2>6. parsed \in Seq(Positions)
    BY <1>3, <1>7, <1>8
  <2>7. parsed' = parsed \o PickObject(dist, current, m) /\ parsed' \in Seq(Positions)
    <3> HIDE DEF m, e
    <3>1. Append(parsed, e) = parsed \o <<e>> /\ parsed \o <<>> = parsed
      BY <2>5, <2>6, AppendConcat, ConcatEmptySeq
    <3>2. Append(parsed, e) \in Seq(Positions)
      BY <2>5, <2>6
    <3>3. PickObject(dist, current, m) = IF contents[m] = "object" THEN <<e>> ELSE <<>>
      BY DEF PickObject, e
    <3> HIDE DEF contents
    <3> QED BY <2>3, <2>4, <2>6, <3>1, <3>2, <3>3
  <2>8. parsed' = Emitted(dist, n) \o Decoded(dist, current, m)
    <3>1. Decoded(dist, current, k + 1) = Decoded(dist, current, k) \o PickObject(dist, current, m)
      BY <1>2, <1>6, <2>1, DecodedSteps
    <3>2. PickObject(dist, current, m) \in Seq(Positions)
      <4> HIDE DEF m
      <4> QED BY <2>5 DEF PickObject, e
    <3> HIDE DEF m
    <3>3. /\ (Emitted(dist, n) \o Decoded(dist, current, k)) \o PickObject(dist, current, m)
             = Emitted(dist, n) \o (Decoded(dist, current, k) \o PickObject(dist, current, m))
      BY <1>7, <1>8, <3>2, ConcatAssociative
    <3> QED BY <1>3, <2>7, <3>1, <3>3 DEF m
  <2>9. Decodable(dist, current, m)
    <3> SUFFICES ASSUME NEW i \in 1..m PROVE contents[i] # "bad"
      BY DEF Decodable
    <3>1. CASE i = m
      BY <2>4, <3>1
    <3>2. CASE i # m
      <4>1. i \in 1..k
        BY <1>3, <3>2
      <4> QED BY <1>3, <4>1 DEF Decodable
    <3> QED BY <3>1, <3>2
  <2>10. Left(docs', contents, m) /\ m \in Nat
    BY <1>3, <1>6, <2>1, <2>3
  <2>11. docs' \in Seq(Documents)
    <3> HIDE DEF contents, m
    <3> QED BY <1>5, <2>10, LeftSteps
  <2>12. DecodeInv'
    <3>1. /\ n < Len(Chosen(dist')) /\ current' = Chosen(dist')[n + 1]
          /\ Left(todo', Chosen(dist'), n + 1)
          /\ AllReadable(dist', n)
          /\ Left(docs', dist'[current'].docs, m)
          /\ Decodable(dist', current', m)
          /\ parsed' = Emitted(dist', n) \o Decoded(dist', current', m)
      BY <1>1, <1>3, <2>8, <2>9, <2>10
    <3>2. m \in Nat
      BY <2>10
    <3> HIDE DEF m
    <3> QED BY <1>1, <1>2, <3>1, <3>2 DEF DecodeInv
  <2>13. BeforeWalk' /\ WalkInv' /\ KustomizeInv' /\ ReadInv' /\ DoneInv'
    BY <1>1, <1>2, <1>12 DEF BeforeWalk, WalkInv, KustomizeInv, ReadInv, DoneInv
  <2>14. TypeOK'
    BY <1>1, <1>12, <2>7, <2>11 DEF SelectionInv, TypeOK, Positions
  <2> QED BY <2>12, <2>13, <2>14 DEF SelectionInv
<1> QED BY <1>9, <1>11, <1>12 DEF Decode

LEMMA SelectionStep ==
  ASSUME SelectionInv, [Next]_vars
  PROVE  SelectionInv'
<1>1. CASE Next
  BY <1>1, DetermineTypeStep, NpmInstallStep, SynthStep, VisitStep, EndWalkStep,
     ParseKustomizationStep, ReadFileStep, DecodeStep DEF Next
<1>2. CASE UNCHANGED vars
  <2> USE <1>2 DEF vars, found
  <2>1. TypeOK' /\ BeforeWalk' /\ WalkInv'
    BY DEF SelectionInv, TypeOK, BeforeWalk, WalkInv
  <2>2. KustomizeInv' /\ ReadInv' /\ DecodeInv' /\ DoneInv'
    BY DEF SelectionInv, KustomizeInv, ReadInv, DecodeInv, DoneInv
  <2> QED BY <2>1, <2>2 DEF SelectionInv
<1> QED BY <1>1, <1>2

LEMMA SelectionCorrect == Spec => []SelectionInv
<1>1. Init => SelectionInv
  BY InitSelection
<1>2. SelectionInv /\ [Next]_vars => SelectionInv'
  BY SelectionStep
<1> QED BY <1>1, <1>2, PTL DEF Spec

-----------------------------------------------------------------------------
(* What the property says of the tree is what the invariant says of it.     *)
LEMMA PresentIsVisited ==
  ASSUME NEW name
  PROVE  Present(name) = Visited(dist, name, Len(Walk))
<1>1. DOMAIN Walk = 1..Len(Walk)
  BY SynthesizerConstants
<1> QED BY <1>1 DEF Present, Visited, Pick

LEMMA SelectedIsChosen ==
  ASSUME Proper(dist)
  PROVE  /\ Present("kustomization") = Kustomizations(dist)
         /\ Selected = Chosen(dist)
<1>1. Present("kustomization") = Kustomizations(dist)
  BY PresentIsVisited DEF Kustomizations
<1>2. Present("manifest") = Visited(dist, "manifest", Len(Walk))
  BY PresentIsVisited
<1>3. DOMAIN Kustomizations(dist) = 1..Len(Kustomizations(dist))
  BY KustomizationsType
<1> QED BY <1>1, <1>2, <1>3 DEF Selected, Chosen, Listed

LEMMA ObjectsIsContents ==
  ASSUME NEW path, dist[path].docs \in Seq(Documents)
  PROVE  Objects(path) = Contents(dist, path)
<1>1. DOMAIN dist[path].docs = 1..Len(dist[path].docs)
  OBVIOUS
<1> QED BY <1>1 DEF Objects, Contents, Decoded, PickObject

LEMMA SoundIsSoundTree ==
  ASSUME TypeOK
  PROVE  Sound <=> SoundTree(dist)
<1>1. CASE ~Proper(dist)
  BY <1>1, DistProper DEF Sound, SoundTree, TypeOK
<1>2. CASE Proper(dist)
  <2>1. dist # None /\ dist # Missing
    BY <1>2 DEF Proper
  <2>2. (\A i \in DOMAIN Present("kustomization") :
           dist[Present("kustomization")[i]].lists # Unparsable)
        <=> Parsable(dist, Len(Kustomizations(dist)))
    <3>1. DOMAIN Kustomizations(dist) = 1..Len(Kustomizations(dist))
      BY <1>2, KustomizationsType
    <3> QED BY <1>2, <3>1, SelectedIsChosen DEF Parsable
  <2>3. ASSUME Parsable(dist, Len(Kustomizations(dist)))
        PROVE  (\A path \in Range(Selected) :
                  dist[path] # Missing /\ "bad" \notin Range(dist[path].docs))
               <=> AllReadable(dist, Len(Chosen(dist)))
    <3> DEFINE C == Chosen(dist)
    <3>1. C \in Seq(Paths) /\ DOMAIN C = 1..Len(C)
      BY <1>2, <2>3, ChosenType
    <3>2. Range(Selected) = {C[i] : i \in 1..Len(C)}
      BY <1>2, <3>1, SelectedIsChosen DEF Range
    <3>3. ASSUME NEW i \in 1..Len(C)
          PROVE  dist[C[i]] # Missing /\ "bad" \notin Range(dist[C[i]].docs)
                 <=> Readable(dist, C[i])
      <4> DEFINE path == C[i]
      <4>1. path \in Paths
        BY <3>1
      <4> HIDE DEF path
      <4>2. CASE dist[path] = Missing
        BY <4>2 DEF Readable, path
      <4>3. CASE dist[path] # Missing
        <5>1. DOMAIN dist[path].docs = 1..Len(dist[path].docs)
          BY <1>2, <4>1, <4>3 DEF Proper, Files
        <5>2. "bad" \notin Range(dist[path].docs)
              <=> \A j \in 1..Len(dist[path].docs) : dist[path].docs[j] # "bad"
          BY <5>1 DEF Range
        <5> QED BY <4>3, <5>2 DEF Readable, Decodable, path
      <4> QED BY <4>2, <4>3
    <3> HIDE DEF C
    <3> QED BY <3>2, <3>3 DEF AllReadable, C
  <2> QED BY <1>2, <2>1, <2>2, <2>3 DEF Sound, SoundTree
<1> QED BY <1>1, <1>2

LEMMA SelectionImplied == SelectionInv => SynthesisIsSelection
<1> SUFFICES ASSUME SelectionInv, pc = "done"
             PROVE  /\ err <=> ~Sound
                    /\ ~err => parsed = FlattenSeq([i \in DOMAIN Selected |-> Objects(Selected[i])])
  BY DEF SynthesisIsSelection
<1>1. err <=> ~SoundTree(dist)
  BY DEF SelectionInv, DoneInv
<1>2. Sound <=> SoundTree(dist)
  BY SoundIsSoundTree DEF SelectionInv
<1>3. ASSUME ~err
      PROVE  parsed = FlattenSeq([i \in DOMAIN Selected |-> Objects(Selected[i])])
  <2>1. SoundTree(dist) /\ parsed = Emitted(dist, Len(Chosen(dist)))
    BY <1>1, <1>3 DEF SelectionInv, DoneInv
  <2>2. /\ Selected = Chosen(dist) /\ Chosen(dist) \in Seq(Paths)
        /\ DOMAIN Chosen(dist) = 1..Len(Chosen(dist))
    BY <2>1, SelectedIsChosen, ChosenType DEF SoundTree
  <2>3. ASSUME NEW i \in 1..Len(Chosen(dist))
        PROVE  Objects(Chosen(dist)[i]) = Contents(dist, Chosen(dist)[i])
    <3> DEFINE path == Chosen(dist)[i]
    <3>1. path \in Paths /\ dist[path] # Missing
      BY <2>1, <2>2 DEF SoundTree, AllReadable, Readable
    <3> HIDE DEF path
    <3>2. dist[path].docs \in Seq(Documents)
      BY <2>1, <3>1 DEF SoundTree, Proper, Files
    <3>3. Objects(path) = Contents(dist, path)
      BY <3>2, ObjectsIsContents
    <3> QED BY <3>3 DEF path
  <2>4. [i \in DOMAIN Selected |-> Objects(Selected[i])]
        = [i \in 1..Len(Chosen(dist)) |-> Contents(dist, Chosen(dist)[i])]
    BY <2>2, <2>3
  <2> QED BY <2>1, <2>4 DEF Emitted
<1> QED BY <1>1, <1>2, <1>3

-----------------------------------------------------------------------------
(* Whatever the repository and dist/ hold, a call of Synthesize keeps its   *)
(* lists lists of paths, opens no file it has not been given and numbers     *)
(* the documents from one: what it indexes exists.                          *)
THEOREM SynthesizerTypeCorrect == Spec => []TypeOK
<1>1. SelectionInv => TypeOK
  BY DEF SelectionInv
<1> QED BY <1>1, SelectionCorrect, PTL

(* For every repository, every order of the walk and every content of dist/, *)
(* the loops of findManifests, parseKustomization and parseManifests fail    *)
(* exactly when something they have to read is missing or broken, and        *)
(* otherwise return every resource of every selected file in order.          *)
THEOREM SynthesisIsSelectionCorrect == Spec => []SynthesisIsSelection
BY SelectionCorrect, SelectionImplied, PTL
=============================================================================
