--------------------------- MODULE FileToolsProofs ---------------------------
(***************************************************************************)
(* Theorems about FileTools for every set of hosts, trees and requests and *)
(* any number of calls.                                                    *)
(***************************************************************************)
EXTENDS FileTools, SequenceTheorems, WellFoundedInduction, TLAPS

-----------------------------------------------------------------------------
(* Paths *)

LEMMA PathIntro ==
  ASSUME NEW S, NEW p \in Seq(S)
  PROVE  IsPath(p)
  <1>1. /\ p = [i \in 1..Len(p) |-> p[i]] /\ Len(p) \in Nat /\ DOMAIN p = 1..Len(p)
    BY LenProperties
  <1>2. \A i \in 1..Len(p) : p[i] \in Range(p)
    BY <1>1 DEF Range
  <1>3. QED
    BY <1>1, <1>2, IsASeq DEF IsPath

LEMMA PathDef ==
  ASSUME NEW p, IsPath(p)
  PROVE  /\ Len(p) \in Nat /\ DOMAIN p = 1..Len(p)
         /\ p = [i \in 1..Len(p) |-> p[i]]
         /\ Len(p) = 0 <=> p = <<>>
  BY LenProperties, EmptySeq DEF IsPath

\* Two paths are sequences over one set.
LEMMA PathsIn ==
  ASSUME NEW p, IsPath(p), NEW q, IsPath(q)
  PROVE  \E S : p \in Seq(S) /\ q \in Seq(S)
  <1> DEFINE S == Range(p) \cup Range(q)
  <1>1. p \in Seq(S) /\ q \in Seq(S)
    BY SeqMonotonic DEF IsPath
  <1>2. QED
    BY <1>1

LEMMA PathEqual ==
  ASSUME NEW p, IsPath(p), NEW q, IsPath(q), Len(p) = Len(q), \A i \in 1..Len(p) : p[i] = q[i]
  PROVE  p = q
  <1>1. PICK S : p \in Seq(S) /\ q \in Seq(S)
    BY PathsIn
  <1>2. QED
    BY <1>1, SeqEqual

LEMMA PathPart ==
  ASSUME NEW p, IsPath(p), NEW n \in Nat, n <= Len(p)
  PROVE  /\ IsPath(SubSeq(p, 1, n)) /\ Len(SubSeq(p, 1, n)) = n
         /\ \A i \in 1..n : SubSeq(p, 1, n)[i] = p[i]
  <1>1. Len(p) \in Nat /\ \A i \in 1..n : p[i] \in Range(p)
    BY PathDef DEF Range
  <1>2. /\ SubSeq(p, 1, n) \in Seq(Range(p))
        /\ Len(SubSeq(p, 1, n)) = IF 1 <= n THEN n - 1 + 1 ELSE 0
        /\ \A i \in 1..n - 1 + 1 : SubSeq(p, 1, n)[i] = p[1 + i - 1]
    BY <1>1, SubSeqProperties
  <1>3. IsPath(SubSeq(p, 1, n))
    BY <1>2, PathIntro
  <1>4. Len(SubSeq(p, 1, n)) = n /\ \A i \in 1..n : SubSeq(p, 1, n)[i] = p[i]
    BY <1>2
  <1>5. QED
    BY <1>3, <1>4

LEMMA PathAppend ==
  ASSUME NEW p, IsPath(p), NEW c
  PROVE  /\ IsPath(Append(p, c)) /\ Len(Append(p, c)) = Len(p) + 1
         /\ \A i \in 1..Len(p) : Append(p, c)[i] = p[i]
         /\ Append(p, c)[Len(p) + 1] = c
         /\ Append(p, c) # <<>>
  <1> DEFINE S == Range(p) \cup {c}
  <1>1. p \in Seq(S) /\ c \in S
    BY SeqMonotonic DEF IsPath
  <1>2. Append(p, c) \in Seq(S)
    BY <1>1
  <1>3. /\ Len(Append(p, c)) = Len(p) + 1
        /\ \A i \in 1..Len(p) : Append(p, c)[i] = p[i]
        /\ Append(p, c)[Len(p) + 1] = c
    BY <1>1
  <1>4. IsPath(Append(p, c))
    BY <1>2, PathIntro
  <1>5. Len(p) \in Nat
    BY PathDef
  <1>6. Append(p, c) # <<>>
    <2>1. Len(Append(p, c)) # 0
      BY <1>3, <1>5
    <2>2. QED
      BY <1>4, <2>1, PathDef
  <1>7. QED
    BY <1>3, <1>4, <1>6

LEMMA PathFront ==
  ASSUME NEW p, IsPath(p)
  PROVE  /\ IsPath(Front(p))
         /\ p # <<>> => /\ Len(Front(p)) = Len(p) - 1
                        /\ \A i \in 1..Len(p) - 1 : Front(p)[i] = p[i]
  <1>1. CASE p = <<>>
    <2>1. Len(p) - 1 < 1
      BY <1>1, PathDef
    <2>2. Front(p) = <<>>
      BY <2>1, <1>1, PathDef, SubSeqEmpty DEF Front
    <2>3. QED
      BY <1>1, <2>2
  <1>2. CASE p # <<>>
    <2>1. Len(p) - 1 \in Nat /\ Len(p) - 1 <= Len(p)
      BY <1>2, PathDef
    <2>2. Front(p) = SubSeq(p, 1, Len(p) - 1)
      BY DEF Front
    <2>3. QED
      BY <2>1, <2>2, PathPart
  <1>3. QED
    BY <1>1, <1>2

LEMMA PathConcat ==
  ASSUME NEW p, IsPath(p), NEW q, IsPath(q)
  PROVE  /\ IsPath(p \o q) /\ Len(p \o q) = Len(p) + Len(q)
         /\ \A i \in 1..Len(p) + Len(q) : (p \o q)[i] = IF i <= Len(p) THEN p[i] ELSE q[i - Len(p)]
  <1>1. PICK S : p \in Seq(S) /\ q \in Seq(S)
    BY PathsIn
  <1>2. QED
    BY <1>1, ConcatProperties, PathIntro

LEMMA PathTail ==
  ASSUME NEW p, IsPath(p), p # <<>>
  PROVE  IsPath(Tail(p))
  <1>1. Tail(p) \in Seq(Range(p))
    BY DEF IsPath
  <1>2. QED
    BY <1>1, PathIntro

LEMMA PathPrefix ==
  ASSUME NEW p, IsPath(p), NEW q, IsPath(q)
  PROVE  IsPrefix(p, q) <=> Len(p) <= Len(q) /\ \A i \in 1..Len(p) : p[i] = q[i]
  <1>0. Len(p) \in Nat /\ Len(q) \in Nat
    BY PathDef
  <1>1. ASSUME Len(p) <= Len(q)
        PROVE  SubSeq(p, 1, Len(p)) = SubSeq(q, 1, Len(p)) <=> \A i \in 1..Len(p) : p[i] = q[i]
    <2>1. /\ IsPath(SubSeq(p, 1, Len(p))) /\ Len(SubSeq(p, 1, Len(p))) = Len(p)
          /\ \A i \in 1..Len(p) : SubSeq(p, 1, Len(p))[i] = p[i]
      BY <1>0, PathPart
    <2>2. /\ IsPath(SubSeq(q, 1, Len(p))) /\ Len(SubSeq(q, 1, Len(p))) = Len(p)
          /\ \A i \in 1..Len(p) : SubSeq(q, 1, Len(p))[i] = q[i]
      BY <1>0, <1>1, PathPart
    <2>3. ASSUME \A i \in 1..Len(p) : p[i] = q[i] PROVE SubSeq(p, 1, Len(p)) = SubSeq(q, 1, Len(p))
      BY <2>1, <2>2, <2>3, PathEqual
    <2>4. QED
      BY <2>1, <2>2, <2>3
  <1>2. QED
    BY <1>1 DEF IsPrefix

\* Below a path, a name's directory is below it too.
LEMMA FrontBelow ==
  ASSUME NEW p, IsPath(p), NEW q, IsPath(q), p # q, IsPrefix(p, q)
  PROVE  q # <<>> /\ IsPrefix(p, Front(q))
  <1>1. Len(p) <= Len(q) /\ \A i \in 1..Len(p) : p[i] = q[i]
    BY PathPrefix
  <1>2. Len(p) # Len(q)
    BY <1>1, PathEqual
  <1>3. Len(p) \in Nat /\ Len(q) \in Nat /\ q # <<>>
    BY <1>1, <1>2, PathDef
  <1>4. QED
    BY <1>1, <1>2, <1>3, PathFront, PathPrefix

\* What lies above a name lies above what is below it.
LEMMA AboveFront ==
  ASSUME NEW p, IsPath(p), NEW q, IsPath(q), q # <<>>, IsPrefix(p, Front(q))
  PROVE  IsPrefix(p, q) /\ p # q
  <1>1. /\ IsPath(Front(q)) /\ Len(Front(q)) = Len(q) - 1 /\ Len(p) \in Nat /\ Len(q) \in Nat
        /\ \A i \in 1..Len(q) - 1 : Front(q)[i] = q[i]
    BY PathFront, PathDef
  <1>2. Len(p) <= Len(q) - 1 /\ \A i \in 1..Len(p) : p[i] = Front(q)[i]
    BY <1>1, PathPrefix
  <1>3. QED
    BY <1>1, <1>2, PathPrefix

LEMMA PrefixTransitive ==
  ASSUME NEW p, IsPath(p), NEW q, IsPath(q), NEW r, IsPath(r), IsPrefix(p, q), IsPrefix(q, r)
  PROVE  IsPrefix(p, r)
  <1>1. Len(p) \in Nat /\ Len(q) \in Nat /\ Len(r) \in Nat
    BY PathDef
  <1>2. QED
    BY <1>1, PathPrefix

LEMMA PrefixSelf ==
  ASSUME NEW p, IsPath(p)
  PROVE  IsPrefix(p, p)
  BY PathPrefix, PathDef

\* A set of naturals that is not empty has a least element.
LEMMA LeastNatural ==
  ASSUME NEW S \in SUBSET Nat, S # {}
  PROVE  \E x \in S : \A y \in S : x <= y
  <1> DEFINE R == OpToRel(<, Nat)
  <1>1. PICK x \in S : \A y \in S : ~(<<y, x>> \in R)
    BY NatLessThanWellFounded, WFMin
  <1>2. \A y \in S : ~(y < x)
    BY <1>1 DEF OpToRel
  <1>3. QED
    BY <1>2

-----------------------------------------------------------------------------
(* Walks: a resolution ends at a path, whatever it is given *)

\* What the recursion says, of any of its lengths.
Walks(f, n, t, path, last) ==
  f = [i \in 0..n |->
         IF i = 0 THEN [at |-> <<>>, rest |-> path, there |-> TRUE]
         ELSE IF f[i - 1].rest = <<>> THEN f[i - 1]
         ELSE WalkStep(t, f[i - 1], last)]

LEMMA WalksLonger ==
  ASSUME NEW t, NEW path, NEW last, NEW n \in Nat, NEW f, Walks(f, n, t, path, last)
  PROVE  \E g : Walks(g, n + 1, t, path, last)
  <1> DEFINE next == IF f[n].rest = <<>> THEN f[n] ELSE WalkStep(t, f[n], last)
             g == [i \in 0..n + 1 |-> IF i = n + 1 THEN next ELSE f[i]]
  <1>1. \A i \in 0..n : f[i] = IF i = 0 THEN [at |-> <<>>, rest |-> path, there |-> TRUE]
                               ELSE IF f[i - 1].rest = <<>> THEN f[i - 1] ELSE WalkStep(t, f[i - 1], last)
    BY DEF Walks
  <1>2. \A i \in 0..n : g[i] = f[i]
    OBVIOUS
  <1>3. g[n + 1] = next
    OBVIOUS
  <1>4. ASSUME NEW i \in 0..n + 1
        PROVE  g[i] = IF i = 0 THEN [at |-> <<>>, rest |-> path, there |-> TRUE]
                      ELSE IF g[i - 1].rest = <<>> THEN g[i - 1] ELSE WalkStep(t, g[i - 1], last)
    <2>1. CASE i = n + 1
      <3>1. i - 1 = n /\ i # 0 /\ n \in 0..n
        BY <2>1
      <3>2. QED
        BY <3>1, <2>1, <1>2, <1>3
    <2>2. CASE i # n + 1
      <3>1. i \in 0..n /\ (i # 0 => i - 1 \in 0..n)
        BY <2>2
      <3>2. QED
        BY <3>1, <1>1, <1>2
    <2>3. QED
      BY <2>1, <2>2
  <1> HIDE DEF g
  <1>5. g = [i \in 0..n + 1 |-> g[i]]
    BY DEF g
  <1>6. Walks(g, n + 1, t, path, last)
    BY <1>4, <1>5 DEF Walks
  <1>7. QED
    BY <1>6

LEMMA WalksExist ==
  ASSUME NEW t, NEW path, NEW last, NEW N \in Nat
  PROVE  \E f : Walks(f, N, t, path, last)
  <1> DEFINE S == {n \in Nat : ~\E f : Walks(f, n, t, path, last)}
  <1>1. SUFFICES ASSUME S # {} PROVE FALSE
    OBVIOUS
  <1>2. PICK x \in S : \A y \in S : x <= y
    BY <1>1, LeastNatural
  <1>3. x # 0
    <2> DEFINE f == [i \in 0..0 |-> [at |-> <<>>, rest |-> path, there |-> TRUE]]
    <2>1. Walks(f, 0, t, path, last)
      BY DEF Walks
    <2>2. QED
      BY <2>1
  <1>4. x - 1 \in Nat /\ x - 1 \notin S
    BY <1>2, <1>3
  <1>5. PICK f : Walks(f, x - 1, t, path, last)
    BY <1>4
  <1>6. \E g : Walks(g, x - 1 + 1, t, path, last)
    BY <1>4, <1>5, WalksLonger
  <1>7. QED
    BY <1>6, <1>2

LEMMA WalkedIsWalk ==
  ASSUME NEW t, NEW path, NEW last
  PROVE  Walks(Walked(t, path, last), Hops, t, path, last)
  <1>1. Hops \in Nat
    BY DEF Hops
  <1>2. \E f : Walks(f, Hops, t, path, last)
    BY <1>1, WalksExist
  <1>3. QED
    BY <1>2 DEF Walks, Walked

\* A path as the tools use them once it is resolved: no ".." in it, no longer
\* than a resolution reaches.
Canonic(p) == IsPath(p) /\ \A i \in 1..Len(p) : p[i] # ".."

LEMMA EmptyCanonic == Canonic(<<>>) /\ IsPath(<<>>) /\ Len(<<>>) = 0
  <1>1. <<>> \in Seq({}) /\ Len(<<>>) = 0
    OBVIOUS
  <1>2. IsPath(<<>>)
    BY <1>1, PathIntro
  <1>3. \A i \in 1..Len(<<>>) : <<>>[i] # ".."
    BY <1>1
  <1>4. QED
    BY <1>1, <1>2, <1>3 DEF Canonic

LEMMA NowhereCanonic == Canonic(Nowhere) /\ Len(Nowhere) = 1 /\ Nowhere # <<>>
  <1>1. Nowhere \in Seq({"(nowhere)"}) /\ Len(Nowhere) = 1 /\ Nowhere[1] = "(nowhere)"
    BY DEF Nowhere
  <1>2. IsPath(Nowhere)
    BY <1>1, PathIntro
  <1>3. Nowhere # <<>>
    BY DEF Nowhere
  <1>4. QED
    BY <1>1, <1>2, <1>3 DEF Canonic

LEMMA AppendCanonic ==
  ASSUME NEW p, Canonic(p), NEW c, c # ".."
  PROVE  Canonic(Append(p, c))
  <1>1. IsPath(p) /\ Len(p) \in Nat
    BY PathDef DEF Canonic
  <1>2. /\ IsPath(Append(p, c)) /\ Len(Append(p, c)) = Len(p) + 1
        /\ \A i \in 1..Len(p) : Append(p, c)[i] = p[i]
        /\ Append(p, c)[Len(p) + 1] = c
    BY <1>1, PathAppend
  <1>3. QED
    BY <1>1, <1>2 DEF Canonic

LEMMA FrontCanonic ==
  ASSUME NEW p, Canonic(p)
  PROVE  Canonic(Front(p)) /\ Len(Front(p)) <= Len(p)
  <1>1. IsPath(p) /\ Len(p) \in Nat /\ IsPath(Front(p))
    BY PathDef, PathFront DEF Canonic
  <1>2. CASE p = <<>>
    <2>1. Len(p) - 1 < 1
      BY <1>2, PathDef, <1>1
    <2>2. Front(p) = <<>>
      BY <2>1, <1>1, SubSeqEmpty DEF Front
    <2>3. QED
      BY <1>2, <2>2
  <1>3. CASE p # <<>>
    BY <1>1, <1>3, PathFront DEF Canonic
  <1>4. QED
    BY <1>2, <1>3

LEMMA WalkStepCanonic ==
  ASSUME NEW t, NEW s, NEW last, NEW n \in Nat, Canonic(s.at), Len(s.at) <= n
  PROVE  Canonic(WalkStep(t, s, last).at) /\ Len(WalkStep(t, s, last).at) <= n + 1
  <1> DEFINE c == Head(s.rest) p == Append(s.at, c)
  <1>1. IsPath(s.at) /\ Len(s.at) \in Nat
    BY PathDef DEF Canonic
  <1>2. Len(p) = Len(s.at) + 1 /\ (c # ".." => Canonic(p))
    BY <1>1, PathAppend, AppendCanonic
  <1>3. Canonic(Front(s.at)) /\ Len(Front(s.at)) <= Len(s.at) /\ Len(Front(s.at)) \in Nat
    BY FrontCanonic, PathDef DEF Canonic
  <1>4. CASE c = ".."
    <2>1. WalkStep(t, s, last).at = IF s.at = <<>> THEN <<>> ELSE Front(s.at)
      BY <1>4 DEF WalkStep
    <2>2. QED
      BY <2>1, <1>1, <1>3, EmptyCanonic
  <1>5. CASE c # ".."
    <2>1. WalkStep(t, s, last).at \in {<<>>, s.at, p}
      BY <1>5 DEF WalkStep
    <2>2. Canonic(<<>>) /\ Len(<<>>) <= n + 1
      BY EmptyCanonic
    <2>3. Canonic(s.at) /\ Len(s.at) <= n + 1
      BY <1>1
    <2>4. Canonic(p) /\ Len(p) <= n + 1
      BY <1>1, <1>2, <1>5
    <2> HIDE DEF p
    <2>5. QED
      BY <2>1, <2>2, <2>3, <2>4
  <1>6. QED
    BY <1>4, <1>5

LEMMA WalkedCanonic ==
  ASSUME NEW t, NEW path, NEW last, NEW n \in 0..Hops
  PROVE  Canonic(Walked(t, path, last)[n].at) /\ Len(Walked(t, path, last)[n].at) <= n
  <1> DEFINE W == Walked(t, path, last)
             Good(i) == Canonic(W[i].at) /\ Len(W[i].at) <= i
             S == {i \in 0..Hops : ~Good(i)}
  <1>0. Hops \in Nat
    BY DEF Hops
  <1>1. \A i \in 0..Hops : W[i] = IF i = 0 THEN [at |-> <<>>, rest |-> path, there |-> TRUE]
                                  ELSE IF W[i - 1].rest = <<>> THEN W[i - 1] ELSE WalkStep(t, W[i - 1], last)
    <2>1. Walks(W, Hops, t, path, last)
      BY WalkedIsWalk
    <2> HIDE DEF W
    <2>2. QED
      BY <2>1 DEF Walks
  <1> HIDE DEF W
  <1>2. SUFFICES ASSUME S # {} PROVE FALSE
    BY DEF W
  <1>2a. S \in SUBSET Nat
    BY <1>0
  <1>3. PICK x \in S : \A y \in S : x <= y
    BY <1>2, <1>2a, LeastNatural
  <1>4. x # 0
    <2>1. Good(0)
      BY <1>0, <1>1, EmptyCanonic
    <2>2. QED
      BY <2>1
  <1>5. x \in 0..Hops /\ x - 1 \in 0..Hops /\ x - 1 \in Nat /\ Good(x - 1)
    BY <1>0, <1>3, <1>4
  <1>6. Len(W[x - 1].at) \in Nat
    BY <1>5, PathDef DEF Canonic
  <1>7. W[x] = IF W[x - 1].rest = <<>> THEN W[x - 1] ELSE WalkStep(t, W[x - 1], last)
    BY <1>1, <1>4, <1>5
  <1>8. Canonic(WalkStep(t, W[x - 1], last).at) /\ Len(WalkStep(t, W[x - 1], last).at) <= x - 1 + 1
    BY <1>5, WalkStepCanonic
  <1>9. Good(x)
    BY <1>5, <1>6, <1>7, <1>8
  <1>10. QED
    BY <1>9, <1>3

\* A resolution gives a path without "..", and one a resolution reaches.
LEMMA WalkGivesPath ==
  ASSUME NEW t, NEW p
  PROVE  /\ Canonic(RealM(t, p)) /\ Len(RealM(t, p)) <= Hops
         /\ Canonic(RealE(t, p)) /\ Len(RealE(t, p)) <= Hops
         /\ Canonic(Place(t, p)) /\ Len(Place(t, p)) <= Hops
  <1>0. Hops \in Nat /\ 1 <= Hops
    BY DEF Hops
  <1>1. ASSUME NEW last PROVE Canonic(Walk(t, p, last).at) /\ Len(Walk(t, p, last).at) <= Hops
    <2>1. Canonic(Walked(t, p, last)[Hops].at) /\ Len(Walked(t, p, last)[Hops].at) <= Hops
      BY <1>0, WalkedCanonic
    <2>2. Walk(t, p, last).at \in {Walked(t, p, last)[Hops].at, Nowhere}
      BY DEF Walk
    <2>3. QED
      BY <1>0, <2>1, <2>2, NowhereCanonic
  <1>2. RealE(t, p) \in {Walk(t, p, TRUE).at, Nowhere}
    BY DEF RealE
  <1>3. Place(t, p) \in {Walk(t, p, FALSE).at, <<>>}
    BY DEF Place
  <1>4. Canonic(Nowhere) /\ Len(Nowhere) <= Hops /\ Canonic(<<>>) /\ Len(<<>>) <= Hops
    BY <1>0, NowhereCanonic, EmptyCanonic
  <1>5. Canonic(RealM(t, p)) /\ Len(RealM(t, p)) <= Hops
    BY <1>1 DEF RealM
  <1>6. Canonic(RealE(t, p)) /\ Len(RealE(t, p)) <= Hops
    BY <1>1, <1>2, <1>4
  <1>7. Canonic(Place(t, p)) /\ Len(Place(t, p)) <= Hops
    BY <1>1, <1>3, <1>4
  <1>8. QED
    BY <1>5, <1>6, <1>7

-----------------------------------------------------------------------------
(* Moving a path from below one to below another *)

LEMMA RebaseElements ==
  ASSUME NEW q, IsPath(q), NEW s, IsPath(s), NEW d, IsPath(d), IsPrefix(s, q)
  PROVE  /\ IsPath(Rebase(q, s, d)) /\ Len(Rebase(q, s, d)) = Len(d) + Len(q) - Len(s)
         /\ \A i \in 1..Len(d) + Len(q) - Len(s) :
              Rebase(q, s, d)[i] = IF i <= Len(d) THEN d[i] ELSE q[i - Len(d) + Len(s)]
  <1> DEFINE e == SubSeq(q, Len(s) + 1, Len(q))
  <1>1. Len(q) \in Nat /\ Len(s) \in Nat /\ Len(d) \in Nat /\ Len(s) <= Len(q)
    BY PathDef, PathPrefix
  <1>2. \A i \in Len(s) + 1..Len(q) : q[i] \in Range(q)
    BY <1>1, PathDef DEF Range
  <1>3. /\ e \in Seq(Range(q))
        /\ Len(e) = IF Len(s) + 1 <= Len(q) THEN Len(q) - (Len(s) + 1) + 1 ELSE 0
        /\ \A i \in 1..Len(q) - (Len(s) + 1) + 1 : e[i] = q[Len(s) + 1 + i - 1]
    BY <1>1, <1>2, SubSeqProperties
  <1> HIDE DEF e
  <1>4. IsPath(e)
    BY <1>3, PathIntro
  <1>5. Len(e) = Len(q) - Len(s)
    BY <1>1, <1>3
  <1>6. ASSUME NEW i \in 1..Len(e) PROVE e[i] = q[i + Len(s)]
    <2>1. i \in 1..Len(q) - (Len(s) + 1) + 1 /\ Len(s) + 1 + i - 1 = i + Len(s)
      BY <1>1, <1>5
    <2>2. QED
      BY <1>3, <2>1
  <1>7. /\ IsPath(d \o e) /\ Len(d \o e) = Len(d) + Len(e)
        /\ \A i \in 1..Len(d) + Len(e) : (d \o e)[i] = IF i <= Len(d) THEN d[i] ELSE e[i - Len(d)]
    BY <1>4, PathConcat
  <1>8. Rebase(q, s, d) = d \o e
    BY DEF Rebase, e
  <1>9. Len(d \o e) = Len(d) + Len(q) - Len(s)
    BY <1>1, <1>5, <1>7
  <1>10. ASSUME NEW i \in 1..Len(d) + Len(q) - Len(s)
         PROVE  (d \o e)[i] = IF i <= Len(d) THEN d[i] ELSE q[i - Len(d) + Len(s)]
    <2>1. i \in 1..Len(d) + Len(e) /\ (~(i <= Len(d)) => i - Len(d) \in 1..Len(e))
      BY <1>1, <1>5
    <2>2. ~(i <= Len(d)) => e[i - Len(d)] = q[i - Len(d) + Len(s)]
      BY <1>6, <2>1
    <2>3. QED
      BY <1>7, <2>1, <2>2
  <1>11. QED
    BY <1>7, <1>8, <1>9, <1>10

LEMMA RebaseIsPath ==
  ASSUME NEW q, IsPath(q), NEW s, IsPath(s), NEW d, IsPath(d), IsPrefix(s, q)
  PROVE  IsPath(Rebase(q, s, d)) /\ Len(Rebase(q, s, d)) = Len(d) + Len(q) - Len(s)
  BY RebaseElements

LEMMA RebaseAt ==
  ASSUME NEW q, IsPath(q), NEW s, IsPath(s), NEW d, IsPath(d), IsPrefix(s, q),
         NEW i \in 1..Len(d) + Len(q) - Len(s)
  PROVE  Rebase(q, s, d)[i] = IF i <= Len(d) THEN d[i] ELSE q[i - Len(d) + Len(s)]
  BY RebaseElements

LEMMA RebaseBelow ==
  ASSUME NEW q, IsPath(q), NEW s, IsPath(s), NEW d, IsPath(d), IsPrefix(s, q)
  PROVE  IsPrefix(d, Rebase(q, s, d))
  <1>1. Len(q) \in Nat /\ Len(s) \in Nat /\ Len(d) \in Nat /\ Len(s) <= Len(q)
    BY PathDef, PathPrefix
  <1>2. Len(d) <= Len(Rebase(q, s, d)) /\ \A i \in 1..Len(d) : d[i] = Rebase(q, s, d)[i]
    <2>1. Len(Rebase(q, s, d)) = Len(d) + Len(q) - Len(s)
      BY RebaseIsPath
    <2>2. ASSUME NEW i \in 1..Len(d) PROVE d[i] = Rebase(q, s, d)[i]
      <3>1. i \in 1..Len(d) + Len(q) - Len(s) /\ i <= Len(d)
        BY <1>1
      <3>2. QED
        BY <3>1, RebaseAt
    <2>3. QED
      BY <1>1, <2>1, <2>2
  <1>3. QED
    BY <1>2, RebaseIsPath, PathPrefix

LEMMA RebaseBack ==
  ASSUME NEW q, IsPath(q), NEW s, IsPath(s), NEW d, IsPath(d), IsPrefix(s, q)
  PROVE  Rebase(Rebase(q, s, d), d, s) = q
  <1> DEFINE r == Rebase(q, s, d) b == Rebase(r, d, s)
  <1>1. Len(q) \in Nat /\ Len(s) \in Nat /\ Len(d) \in Nat /\ Len(s) <= Len(q)
        /\ \A i \in 1..Len(s) : s[i] = q[i]
    BY PathDef, PathPrefix
  <1>2. /\ IsPath(r) /\ Len(r) = Len(d) + Len(q) - Len(s)
        /\ \A i \in 1..Len(d) + Len(q) - Len(s) :
             r[i] = IF i <= Len(d) THEN d[i] ELSE q[i - Len(d) + Len(s)]
        /\ IsPrefix(d, r)
    BY RebaseElements, RebaseBelow
  <1> HIDE DEF r
  <1>3. /\ IsPath(b) /\ Len(b) = Len(s) + Len(r) - Len(d)
        /\ \A i \in 1..Len(s) + Len(r) - Len(d) :
             b[i] = IF i <= Len(s) THEN s[i] ELSE r[i - Len(s) + Len(d)]
    BY <1>2, RebaseIsPath, RebaseAt
  <1> HIDE DEF b
  <1>4. Len(b) = Len(q)
    BY <1>1, <1>2, <1>3
  <1>5. ASSUME NEW i \in 1..Len(b) PROVE b[i] = q[i]
    <2>1. CASE i <= Len(s)
      BY <2>1, <1>1, <1>2, <1>3
    <2>2. CASE ~(i <= Len(s))
      <3>1. i - Len(s) + Len(d) \in 1..Len(d) + Len(q) - Len(s) /\ ~(i - Len(s) + Len(d) <= Len(d))
        BY <2>2, <1>1, <1>4
      <3>2. b[i] = r[i - Len(s) + Len(d)]
        BY <2>2, <1>1, <1>2, <1>3
      <3>3. r[i - Len(s) + Len(d)] = q[i - Len(s) + Len(d) - Len(d) + Len(s)]
        BY <3>1, <1>2
      <3>4. i - Len(s) + Len(d) - Len(d) + Len(s) = i
        BY <1>1, <1>4
      <3>5. QED
        BY <3>2, <3>3, <3>4
    <2>3. QED
      BY <2>1, <2>2
  <1>6. b = q
    BY <1>3, <1>4, <1>5, PathEqual
  <1>7. QED
    BY <1>6 DEF b, r

LEMMA RebaseSelf ==
  ASSUME NEW s, IsPath(s), NEW d, IsPath(d)
  PROVE  Rebase(s, s, d) = d
  <1>1. Len(s) \in Nat /\ Len(d) \in Nat /\ IsPrefix(s, s)
    BY PathDef, PrefixSelf
  <1>2. /\ IsPath(Rebase(s, s, d)) /\ Len(Rebase(s, s, d)) = Len(d) + Len(s) - Len(s)
        /\ \A i \in 1..Len(d) + Len(s) - Len(s) :
             Rebase(s, s, d)[i] = IF i <= Len(d) THEN d[i] ELSE s[i - Len(d) + Len(s)]
    BY <1>1, RebaseIsPath, RebaseAt
  <1>3. Len(Rebase(s, s, d)) = Len(d) /\ \A i \in 1..Len(d) : Rebase(s, s, d)[i] = d[i]
    BY <1>1, <1>2
  <1>4. QED
    BY <1>2, <1>3, PathEqual

LEMMA RebaseFront ==
  ASSUME NEW q, IsPath(q), NEW s, IsPath(s), NEW d, IsPath(d), IsPrefix(s, q), q # s
  PROVE  Front(Rebase(q, s, d)) = Rebase(Front(q), s, d)
  <1> DEFINE r == Rebase(q, s, d) f == Rebase(Front(q), s, d)
  <1>1. /\ q # <<>> /\ IsPrefix(s, Front(q)) /\ IsPath(Front(q)) /\ Len(Front(q)) = Len(q) - 1
        /\ \A i \in 1..Len(q) - 1 : Front(q)[i] = q[i]
    BY FrontBelow, PathFront
  <1>2. Len(q) \in Nat /\ Len(s) \in Nat /\ Len(d) \in Nat /\ Len(s) <= Len(q) - 1
    BY <1>1, PathDef, PathPrefix
  <1>3. /\ IsPath(r) /\ Len(r) = Len(d) + Len(q) - Len(s)
        /\ \A i \in 1..Len(d) + Len(q) - Len(s) :
             r[i] = IF i <= Len(d) THEN d[i] ELSE q[i - Len(d) + Len(s)]
    BY RebaseIsPath, RebaseAt
  <1>4. /\ IsPath(f) /\ Len(f) = Len(d) + (Len(q) - 1) - Len(s)
        /\ \A i \in 1..Len(d) + (Len(q) - 1) - Len(s) :
             f[i] = IF i <= Len(d) THEN d[i] ELSE Front(q)[i - Len(d) + Len(s)]
    BY <1>1, RebaseIsPath, RebaseAt
  <1> HIDE DEF r, f
  <1>5. Len(r) # 0 /\ r # <<>>
    BY <1>2, <1>3, PathDef
  <1>6. IsPath(Front(r)) /\ Len(Front(r)) = Len(r) - 1 /\ \A i \in 1..Len(r) - 1 : Front(r)[i] = r[i]
    BY <1>3, <1>5, PathFront
  <1>7. Len(Front(r)) = Len(f)
    BY <1>2, <1>3, <1>4, <1>6
  <1>8. ASSUME NEW i \in 1..Len(Front(r)) PROVE Front(r)[i] = f[i]
    <2>1. i \in 1..Len(r) - 1 /\ i \in 1..Len(d) + Len(q) - Len(s) /\ i \in 1..Len(d) + (Len(q) - 1) - Len(s)
      BY <1>2, <1>3, <1>6
    <2>2. CASE i <= Len(d)
      BY <2>1, <2>2, <1>3, <1>4, <1>6
    <2>3. CASE ~(i <= Len(d))
      <3>1. i - Len(d) + Len(s) \in 1..Len(q) - 1
        BY <2>1, <2>3, <1>2
      <3>2. QED
        BY <3>1, <2>1, <2>3, <1>1, <1>3, <1>4, <1>6
    <2>4. QED
      BY <2>2, <2>3
  <1>9. Front(r) = f
    BY <1>4, <1>6, <1>7, <1>8, PathEqual
  <1>10. QED
    BY <1>9 DEF r, f

-----------------------------------------------------------------------------
(* Trees *)

LEMMA TreePaths ==
  ASSUME NEW t, WellFormed(t), NEW p \in DOMAIN t
  PROVE  /\ IsPath(p) /\ IsNode(t[p]) /\ p # Nowhere
         /\ p # <<>> => IsPath(Front(p)) /\ IsDir(t, Front(p))
  BY PathFront DEF WellFormed

\* Above whatever is there are directories.
LEMMA AboveAreDirs ==
  ASSUME NEW t, WellFormed(t), NEW s, IsPath(s), NEW p \in DOMAIN t, IsPrefix(s, p), s # p
  PROVE  IsDir(t, s)
  <1> DEFINE Bad(q) == IsPrefix(s, q) /\ s # q
             S == {Len(q) : q \in {r \in DOMAIN t : Bad(r)}}
  <1>0. \A q \in DOMAIN t : IsPath(q) /\ Len(q) \in Nat
    BY PathDef DEF WellFormed
  <1>1. S \in SUBSET Nat /\ S # {}
    BY <1>0
  <1>2. PICK n \in S : \A m \in S : n <= m
    BY <1>1, LeastNatural
  <1>3. PICK q \in DOMAIN t : Bad(q) /\ n = Len(q)
    BY <1>2
  <1>4. q # <<>> /\ IsPrefix(s, Front(q))
    BY <1>0, <1>3, FrontBelow
  <1>5. IsDir(t, Front(q)) /\ Front(q) \in DOMAIN t
    BY <1>4, TreePaths DEF IsDir
  <1>6. CASE s = Front(q)
    BY <1>5, <1>6
  <1>7. CASE s # Front(q)
    <2>1. Bad(Front(q)) /\ Len(Front(q)) \in S
      BY <1>4, <1>5, <1>7
    <2>2. Len(q) <= Len(Front(q))
      BY <1>2, <1>3, <2>1
    <2>3. Len(Front(q)) = Len(q) - 1 /\ Len(q) \in Nat
      BY <1>0, <1>4, PathFront
    <2>4. QED
      BY <2>2, <2>3
  <1>8. QED
    BY <1>6, <1>7

LEMMA PutWellFormed ==
  ASSUME NEW t, WellFormed(t), NEW p, IsPath(p), p # <<>>, p # Nowhere, IsDir(t, Front(p)),
         NEW node, IsNode(node), ~IsDir(t, p)
  PROVE  WellFormed(Put(t, p, node))
  <1> DEFINE T == Put(t, p, node)
  <1>1. DOMAIN T = DOMAIN t \cup {p} /\ T[p] = node /\ \A q \in DOMAIN t \ {p} : T[q] = t[q]
    BY DEF Put
  <1> HIDE DEF T
  <1>2. \A q : IsDir(t, q) => IsDir(T, q)
    BY <1>1 DEF IsDir
  <1>3. IsDir(T, <<>>) /\ Nowhere \notin DOMAIN T
    BY <1>1, <1>2 DEF WellFormed
  <1>4. ASSUME NEW q \in DOMAIN T
        PROVE  IsPath(q) /\ IsNode(T[q]) /\ (q # <<>> => IsDir(T, Front(q)))
    BY <1>1, <1>2 DEF WellFormed
  <1>5. WellFormed(T)
    BY <1>3, <1>4 DEF WellFormed
  <1>6. QED
    BY <1>5 DEF T

LEMMA WithoutWellFormed ==
  ASSUME NEW t, WellFormed(t), NEW p, IsPath(p), p # <<>>
  PROVE  WellFormed(Without(t, p))
  <1> DEFINE T == Without(t, p)
  <1>1. DOMAIN T = {q \in DOMAIN t : ~IsPrefix(p, q)} /\ \A q \in DOMAIN T : T[q] = t[q]
    BY DEF Without, Restrict, Under
  <1> HIDE DEF T
  <1>2. ASSUME NEW q, IsDir(t, q), ~IsPrefix(p, q) PROVE IsDir(T, q)
    BY <1>1, <1>2 DEF IsDir
  <1>3. ~IsPrefix(p, <<>>)
    <2>1. Len(p) \in Nat /\ Len(p) # 0
      BY PathDef
    <2>2. QED
      BY <2>1, EmptyCanonic, PathPrefix
  <1>4. IsDir(T, <<>>) /\ Nowhere \notin DOMAIN T
    BY <1>1, <1>2, <1>3 DEF WellFormed
  <1>5. ASSUME NEW q \in DOMAIN T
        PROVE  IsPath(q) /\ IsNode(T[q]) /\ (q # <<>> => IsDir(T, Front(q)))
    <2>1. q \in DOMAIN t /\ ~IsPrefix(p, q) /\ T[q] = t[q]
      BY <1>1
    <2>2. IsPath(q) /\ IsNode(T[q]) /\ (q # <<>> => IsDir(t, Front(q)))
      BY <2>1, TreePaths
    <2>3. q # <<>> => ~IsPrefix(p, Front(q))
      BY <2>1, <2>2, AboveFront
    <2>4. QED
      BY <2>2, <2>3, <1>2
  <1>6. WellFormed(T)
    BY <1>4, <1>5 DEF WellFormed
  <1>7. QED
    BY <1>6 DEF T

\* What stays a node of its kind keeps the tree a tree.
LEMMA NodesWellFormed ==
  ASSUME NEW t, WellFormed(t), NEW T, DOMAIN T = DOMAIN t,
         \A p \in DOMAIN t : IsNode(T[p]) /\ T[p].kind = t[p].kind
  PROVE  WellFormed(T)
  <1>1. \A p : IsDir(T, p) <=> IsDir(t, p)
    BY DEF IsDir
  <1>2. QED
    BY <1>1 DEF WellFormed

\* What is known of a copy q of something below s.
LEMMA CopyOf ==
  ASSUME NEW t, WellFormed(t), NEW s, IsPath(s), NEW d, IsPath(d), d # <<>>, d # Nowhere,
         NEW q0 \in Under(t, s), NEW q, q = Rebase(q0, s, d)
  PROVE  /\ IsPath(q) /\ IsPrefix(d, q) /\ q # <<>> /\ q # Nowhere /\ IsPath(Front(q))
         /\ Rebase(q, d, s) = q0 /\ q0 \in DOMAIN t /\ IsPath(q0)
         /\ q0 = s => q = d
         /\ q0 # s => /\ Front(q0) \in Under(t, s) /\ IsDir(t, Front(q0))
                      /\ Front(q) = Rebase(Front(q0), s, d) /\ Rebase(Front(q), d, s) = Front(q0)
  <1>1. q0 \in DOMAIN t /\ IsPath(q0) /\ IsPrefix(s, q0)
    BY TreePaths DEF Under
  <1>2. IsPath(q) /\ IsPrefix(d, q) /\ Rebase(q, d, s) = q0
    BY <1>1, RebaseIsPath, RebaseBelow, RebaseBack
  <1>3. Len(d) \in Nat /\ Len(q) \in Nat /\ Len(d) # 0
    BY <1>2, PathDef
  <1>4. Len(d) <= Len(q) /\ \A i \in 1..Len(d) : d[i] = q[i]
    BY <1>2, PathPrefix
  <1>5. q # <<>>
    BY <1>2, <1>3, <1>4, PathDef
  <1>6. q # Nowhere
    <2>1. SUFFICES ASSUME q = Nowhere PROVE FALSE
      OBVIOUS
    <2>2. Len(q) = 1 /\ Len(d) = Len(q)
      BY <2>1, <1>3, <1>4, NowhereCanonic
    <2>3. d = q
      BY <2>2, <1>2, <1>4, PathEqual
    <2>4. QED
      BY <2>1, <2>3
  <1>7. q0 = s => q = d
    BY RebaseSelf
  <1>8. ASSUME q0 # s
        PROVE  /\ Front(q0) \in Under(t, s) /\ IsDir(t, Front(q0))
               /\ Front(q) = Rebase(Front(q0), s, d) /\ Rebase(Front(q), d, s) = Front(q0)
    <2>1. q0 # <<>> /\ IsPrefix(s, Front(q0))
      BY <1>1, <1>8, FrontBelow
    <2>2. IsDir(t, Front(q0)) /\ IsPath(Front(q0)) /\ Front(q0) \in Under(t, s)
      BY <2>1, <1>1, TreePaths DEF IsDir, Under
    <2>3. Front(q) = Rebase(Front(q0), s, d)
      BY <1>1, <1>8, RebaseFront
    <2>4. Rebase(Front(q), d, s) = Front(q0)
      BY <2>1, <2>2, <2>3, RebaseBack
    <2>5. QED
      BY <2>2, <2>3, <2>4
  <1>9. QED
    BY <1>1, <1>2, <1>5, <1>6, <1>7, <1>8, PathFront

LEMMA CopyWellFormed ==
  ASSUME NEW t, WellFormed(t), NEW s, IsPath(s),
         NEW d, IsPath(d), d # <<>>, d # Nowhere, IsDir(t, Front(d))
  PROVE  WellFormed(CopyTree(t, s, d))
  <1> DEFINE T == CopyTree(t, s, d)
             new == {q \in Copies(t, s, d) : \A c \in Clashes(t, s, d) : ~IsPrefix(c, q)}
  <1>1. /\ DOMAIN T = DOMAIN t \cup new
        /\ \A q \in DOMAIN T : T[q] = IF q \in new THEN t[Rebase(q, d, s)] ELSE t[q]
    BY DEF CopyTree
  <1> HIDE DEF T
  <1>2. ASSUME NEW q \in Copies(t, s, d)
        PROVE  \E q0 \in Under(t, s) : q = Rebase(q0, s, d)
    BY DEF Copies
  <1>3. \A c \in Clashes(t, s, d) : IsPath(c) /\ c \in Copies(t, s, d)
    BY TreePaths DEF Clashes
  <1>4. <<>> \notin new /\ Nowhere \notin new
    BY <1>2, CopyOf
  <1>5. IsDir(T, <<>>) /\ Nowhere \notin DOMAIN T
    BY <1>1, <1>4 DEF WellFormed, IsDir
  \* A directory of the tree that is copied over stays one.
  <1>6. ASSUME NEW q, IsDir(t, q) PROVE IsDir(T, q)
    <2>1. CASE q \notin new
      BY <2>1, <1>1, <1>6 DEF IsDir
    <2>2. CASE q \in new
      <3>1. PICK q0 \in Under(t, s) : q = Rebase(q0, s, d)
        BY <2>2, <1>2
      <3>2. Rebase(q, d, s) = q0 /\ q0 \in DOMAIN t /\ IsPath(q) /\ IsPrefix(q, q)
        BY <3>1, CopyOf, PrefixSelf
      <3>3. q \notin Clashes(t, s, d)
        BY <2>2, <3>2
      <3>4. q \in DOMAIN t
        BY <1>6 DEF IsDir
      <3>5. IsDir(t, q0)
        BY <3>2, <3>3, <3>4, <1>6, <2>2 DEF Clashes
      <3>6. QED
        BY <3>2, <3>5, <1>1, <2>2 DEF IsDir
    <2>3. QED
      BY <2>1, <2>2
  <1>7. ASSUME NEW q \in DOMAIN T
        PROVE  IsPath(q) /\ IsNode(T[q]) /\ (q # <<>> => IsDir(T, Front(q)))
    <2>1. CASE q \in new
      <3>1. PICK q0 \in Under(t, s) : q = Rebase(q0, s, d)
        BY <2>1, <1>2
      <3>2. IsPath(q) /\ T[q] = t[q0] /\ IsNode(t[q0])
        BY <3>1, <2>1, <1>1, CopyOf, TreePaths
      <3>3. CASE q0 = s
        <4>1. q = d
          BY <3>1, <3>3, CopyOf
        <4>2. QED
          BY <4>1, <3>2, <1>6
      <3>4. CASE q0 # s
        <4>1. /\ Front(q0) \in Under(t, s) /\ IsDir(t, Front(q0)) /\ IsPath(Front(q)) /\ q # <<>>
              /\ Front(q) = Rebase(Front(q0), s, d) /\ Rebase(Front(q), d, s) = Front(q0)
          BY <3>1, <3>4, CopyOf
        <4>2. Front(q) \in Copies(t, s, d)
          BY <4>1 DEF Copies
        <4>3. \A c \in Clashes(t, s, d) : ~IsPrefix(c, Front(q))
          BY <2>1, <3>2, <4>1, <1>3, AboveFront
        <4>4. Front(q) \in new
          BY <4>2, <4>3
        <4>5. Front(q) \in DOMAIN T /\ T[Front(q)] = t[Front(q0)]
          BY <4>1, <4>4, <1>1
        <4>6. QED
          BY <3>2, <4>1, <4>5 DEF IsDir
      <3>5. QED
        BY <3>3, <3>4
    <2>2. CASE q \notin new
      BY <2>2, <1>1, <1>6, TreePaths
    <2>3. QED
      BY <2>1, <2>2
  <1>8. WellFormed(T)
    BY <1>5, <1>7 DEF WellFormed
  <1>9. QED
    BY <1>8 DEF T

LEMMA MoveWellFormed ==
  ASSUME NEW t, WellFormed(t), NEW s, IsPath(s), NEW d, IsPath(d), Fits(t, s, d)
  PROVE  WellFormed(MoveTree(t, s, d))
  <1>1. CASE s = d
    BY <1>1 DEF MoveTree
  <1>2. CASE s # d
    <2> DEFINE T == MoveTree(t, s, d)
               moved == {Rebase(q, s, d) : q \in Under(t, s)}
    <2>1. /\ DOMAIN T = (DOMAIN t \ (Under(t, s) \cup Under(t, d))) \cup moved
          /\ \A q \in DOMAIN T : T[q] = IF q \in moved THEN t[Rebase(q, d, s)] ELSE t[q]
      BY <1>2 DEF MoveTree
    <2> HIDE DEF T
    <2>2. s \in DOMAIN t /\ s # <<>> /\ d # <<>> /\ d # Nowhere /\ IsDir(t, Front(d))
      BY DEF Fits
    <2>3. \A q \in moved : \E q0 \in Under(t, s) : q = Rebase(q0, s, d)
      OBVIOUS
    <2>4. \A q \in moved : IsPath(q) /\ IsPrefix(d, q) /\ q # <<>> /\ q # Nowhere
      BY <2>2, CopyOf
    <2> HIDE DEF moved
    <2>5. ASSUME NEW p, IsPath(p), p # <<>> PROVE ~IsPrefix(p, <<>>)
      <3>1. Len(p) \in Nat /\ Len(p) # 0
        BY <2>5, PathDef
      <3>2. QED
        BY <3>1, <2>5, EmptyCanonic, PathPrefix
    \* What stays keeps its directory.
    <2>6. ASSUME NEW q, IsDir(t, q), ~IsPrefix(s, q), ~IsPrefix(d, q)
          PROVE  IsDir(T, q)
      BY <2>1, <2>4, <2>6 DEF IsDir, Under
    <2>7. IsDir(T, <<>>) /\ Nowhere \notin DOMAIN T
      BY <2>1, <2>2, <2>4, <2>5, <2>6 DEF WellFormed
    <2>8. ~IsPrefix(s, Front(d)) /\ ~IsPrefix(d, Front(d))
      <3>1. IsPath(Front(d)) /\ Front(d) \in DOMAIN t
        BY <2>2, PathFront DEF IsDir
      <3>2. ~IsPrefix(d, Front(d))
        BY <2>2, <3>1, AboveFront
      <3>3. ASSUME IsPrefix(s, Front(d)) PROVE FALSE
        <4>1. IsDir(t, s)
          BY <2>2, <3>1, <3>3, AboveAreDirs
        <4>2. IsPrefix(s, d)
          BY <2>2, <3>3, AboveFront
        <4>3. QED
          BY <4>1, <4>2 DEF Fits, IsDir
      <3>4. QED
        BY <3>2, <3>3
    <2>9. ASSUME NEW q \in DOMAIN T
          PROVE  IsPath(q) /\ IsNode(T[q]) /\ (q # <<>> => IsDir(T, Front(q)))
      <3>1. CASE q \in moved
        <4>1. PICK q0 \in Under(t, s) : q = Rebase(q0, s, d)
          BY <3>1, <2>3 DEF moved
        <4>2. IsPath(q) /\ T[q] = t[q0] /\ IsNode(t[q0])
          BY <4>1, <3>1, <2>1, <2>2, CopyOf, TreePaths
        <4>3. CASE q0 = s
          <5>1. q = d
            BY <4>1, <4>3, <2>2, CopyOf
          <5>2. QED
            BY <5>1, <4>2, <2>2, <2>6, <2>8
        <4>4. CASE q0 # s
          <5>1. /\ Front(q0) \in Under(t, s) /\ IsDir(t, Front(q0))
                /\ Front(q) = Rebase(Front(q0), s, d) /\ Rebase(Front(q), d, s) = Front(q0)
            BY <4>1, <4>4, <2>2, CopyOf
          <5>2. Front(q) \in moved
            BY <5>1 DEF moved
          <5>3. QED
            BY <4>2, <5>1, <5>2, <2>1 DEF IsDir
        <4>5. QED
          BY <4>3, <4>4
      <3>2. CASE q \notin moved
        <4>1. q \in DOMAIN t /\ ~IsPrefix(s, q) /\ ~IsPrefix(d, q) /\ T[q] = t[q]
          BY <3>2, <2>1 DEF Under
        <4>2. IsPath(q) /\ IsNode(T[q]) /\ (q # <<>> => IsPath(Front(q)) /\ IsDir(t, Front(q)))
          BY <4>1, TreePaths
        <4>3. q # <<>> => ~IsPrefix(s, Front(q)) /\ ~IsPrefix(d, Front(q))
          BY <4>1, <4>2, AboveFront
        <4>4. QED
          BY <4>2, <4>3, <2>6
      <3>3. QED
        BY <3>1, <3>2
    <2>10. WellFormed(T)
      BY <2>7, <2>9 DEF WellFormed
    <2>11. QED
      BY <2>10 DEF T
  <1>3. QED
    BY <1>1, <1>2

-----------------------------------------------------------------------------
(* Walks to what is there *)

LEMMA WalkedUnfolds ==
  ASSUME NEW t, NEW path, NEW last
  PROVE  /\ Walked(t, path, last)[0] = [at |-> <<>>, rest |-> path, there |-> TRUE]
         /\ \A i \in 1..Hops :
              Walked(t, path, last)[i] =
                IF Walked(t, path, last)[i - 1].rest = <<>> THEN Walked(t, path, last)[i - 1]
                ELSE WalkStep(t, Walked(t, path, last)[i - 1], last)
  <1> DEFINE W == Walked(t, path, last)
  <1>1. Walks(W, Hops, t, path, last) /\ Hops \in Nat
    BY WalkedIsWalk DEF Hops
  <1> HIDE DEF W
  <1>2. \A i \in 0..Hops : W[i] = IF i = 0 THEN [at |-> <<>>, rest |-> path, there |-> TRUE]
                                  ELSE IF W[i - 1].rest = <<>> THEN W[i - 1] ELSE WalkStep(t, W[i - 1], last)
    BY <1>1 DEF Walks
  <1>3. W[0] = [at |-> <<>>, rest |-> path, there |-> TRUE]
    <2>1. 0 \in 0..Hops
      BY <1>1
    <2>2. QED
      BY <2>1, <1>2
  <1>4. \A i \in 1..Hops : W[i] = IF W[i - 1].rest = <<>> THEN W[i - 1] ELSE WalkStep(t, W[i - 1], last)
    BY <1>1, <1>2
  <1>5. QED
    BY <1>3, <1>4 DEF W

\* The first name of what is left of a path, and the rest.
LEMMA HeadAndTail ==
  ASSUME NEW p, IsPath(p), NEW r, IsPath(r), r # <<>>
  PROVE  /\ IsPath(Tail(r)) /\ Len(Tail(r)) = Len(r) - 1
         /\ Append(p, Head(r)) \o Tail(r) = p \o r
         /\ (p \o r)[Len(p) + 1] = Head(r) /\ Len(p) + 1 \in 1..Len(p \o r)
  <1>1. r \in Seq(Range(r)) /\ Len(r) \in Nat /\ Len(r) # 0 /\ Len(p) \in Nat
    BY PathDef DEF IsPath
  <1>2. /\ Tail(r) \in Seq(Range(r)) /\ Len(Tail(r)) = Len(r) - 1 /\ Head(r) = r[1]
        /\ \A i \in 1..Len(r) - 1 : Tail(r)[i] = r[i + 1]
    <2>1. /\ Tail(r) \in Seq(Range(r)) /\ Len(Tail(r)) = Len(r) - 1
          /\ \A i \in 1..Len(Tail(r)) : Tail(r)[i] = r[i + 1]
      BY <1>1, HeadTailProperties
    <2>2. Head(r) = r[1]
      BY <1>1
    <2>3. QED
      BY <2>1, <2>2
  <1>3. IsPath(Tail(r))
    BY PathTail
  <1> DEFINE a == Append(p, Head(r)) x == a \o Tail(r) y == p \o r
  <1>4. /\ IsPath(a) /\ Len(a) = Len(p) + 1 /\ \A i \in 1..Len(p) : a[i] = p[i]
        /\ a[Len(p) + 1] = r[1]
    BY <1>2, PathAppend
  <1> HIDE DEF a
  <1>5. /\ IsPath(x) /\ Len(x) = Len(a) + Len(Tail(r))
        /\ \A i \in 1..Len(a) + Len(Tail(r)) : x[i] = IF i <= Len(a) THEN a[i] ELSE Tail(r)[i - Len(a)]
    BY <1>3, <1>4, PathConcat
  <1>6. /\ IsPath(y) /\ Len(y) = Len(p) + Len(r)
        /\ \A i \in 1..Len(p) + Len(r) : y[i] = IF i <= Len(p) THEN p[i] ELSE r[i - Len(p)]
    BY PathConcat
  <1> HIDE DEF x, y
  <1>7. Len(x) = Len(y)
    BY <1>1, <1>2, <1>4, <1>5, <1>6
  <1>8. ASSUME NEW i \in 1..Len(x) PROVE x[i] = y[i]
    <2>1. CASE i <= Len(p)
      BY <2>1, <1>1, <1>2, <1>4, <1>5, <1>6
    <2>2. CASE i = Len(p) + 1
      BY <2>2, <1>1, <1>2, <1>4, <1>5, <1>6
    <2>3. CASE i > Len(p) + 1
      <3>1. i - Len(a) \in 1..Len(r) - 1 /\ ~(i <= Len(a)) /\ ~(i <= Len(p)) /\ i - Len(a) + 1 = i - Len(p)
            /\ i \in 1..Len(p) + Len(r) /\ i \in 1..Len(a) + Len(Tail(r))
        BY <2>3, <1>1, <1>2, <1>4, <1>5
      <3>2. x[i] = Tail(r)[i - Len(a)] /\ y[i] = r[i - Len(p)]
        BY <3>1, <1>5, <1>6
      <3>3. QED
        BY <3>1, <3>2, <1>2
    <2>4. QED
      BY <2>1, <2>2, <2>3, <1>1, <1>5
  <1>9. x = y
    BY <1>5, <1>6, <1>7, <1>8, PathEqual
  <1>10. y[Len(p) + 1] = Head(r) /\ Len(p) + 1 \in 1..Len(y)
    BY <1>1, <1>2, <1>6
  <1>11. QED
    BY <1>2, <1>3, <1>9, <1>10 DEF x, y, a

\* A path that goes through the tree is walked name by name.
LEMMA StraightPlace ==
  ASSUME NEW t, WellFormed(t), NEW p \in DOMAIN t, Canonic(p)
  PROVE  Place(t, p) = IF Len(p) <= Hops THEN p ELSE Nowhere
  <1> DEFINE W == Walked(t, p, FALSE)
             Left(n) == IF n <= Len(p) THEN Len(p) - n ELSE 0
             Good(n) == /\ IsPath(W[n].at) /\ IsPath(W[n].rest) /\ W[n].at \o W[n].rest = p
                        /\ Len(W[n].rest) = Left(n)
             S == {n \in 0..Hops : ~Good(n)}
  <1>0. Hops \in Nat /\ IsPath(p) /\ Len(p) \in Nat
    BY PathDef DEF Hops, Canonic
  <1>1. /\ W[0] = [at |-> <<>>, rest |-> p, there |-> TRUE]
        /\ \A i \in 1..Hops : W[i] = IF W[i - 1].rest = <<>> THEN W[i - 1] ELSE WalkStep(t, W[i - 1], FALSE)
    BY WalkedUnfolds
  <1> HIDE DEF W
  <1>2. Good(0)
    <2>1. <<>> \o p = p
      BY <1>0, ConcatEmptySeq DEF IsPath
    <2>2. QED
      BY <1>0, <1>1, <2>1, EmptyCanonic
  <1>3. ASSUME NEW n \in 1..Hops, Good(n - 1) PROVE Good(n)
    <2> DEFINE a == W[n - 1].at r == W[n - 1].rest c == Head(r) q == Append(a, c)
    <2>1. IsPath(a) /\ IsPath(r) /\ a \o r = p /\ Len(r) = Left(n - 1) /\ Len(a) \in Nat /\ Len(r) \in Nat
          /\ (Len(r) = 0 <=> r = <<>>)
      BY <1>3, PathDef
    <2>2. CASE r = <<>>
      <3>1. W[n] = W[n - 1]
        BY <2>2, <1>1
      <3>1a. Left(n) = 0 /\ Left(n - 1) = 0
        BY <2>1, <2>2, <1>0
      <3>2. QED
        BY <2>1, <3>1, <3>1a
    <2>3. CASE r # <<>>
      <3> DEFINE z == Tail(r)
      <3>1. /\ IsPath(z) /\ Len(z) = Len(r) - 1
            /\ q \o z = p /\ p[Len(a) + 1] = c /\ Len(a) + 1 \in 1..Len(p)
        BY <2>1, <2>3, HeadAndTail
      <3>2. c # ".."
        BY <3>1 DEF Canonic
      <3>3. IsPath(q) /\ Len(q) = Len(a) + 1 /\ Len(q) \in Nat /\ Len(z) \in Nat /\ (Len(z) = 0 <=> z = <<>>)
        BY <2>1, <3>1, PathAppend, PathDef
      <3>4. W[n] = WalkStep(t, W[n - 1], FALSE)
        BY <2>3, <1>1
      <3>5. ~(q \in DOMAIN t /\ t[q].kind = "link" /\ z # <<>>)
            => WalkStep(t, W[n - 1], FALSE).at = q /\ WalkStep(t, W[n - 1], FALSE).rest = z
        BY <3>2 DEF WalkStep
      <3> HIDE DEF q, z, c
      <3>6. ~(q \in DOMAIN t /\ t[q].kind = "link" /\ z # <<>>)
        <4>1. SUFFICES ASSUME z # <<>> PROVE IsDir(t, q)
          BY DEF IsDir
        <4>2. /\ Len(p) = Len(q) + Len(z)
              /\ \A i \in 1..Len(q) + Len(z) : p[i] = IF i <= Len(q) THEN q[i] ELSE z[i - Len(q)]
          BY <3>1, <3>3, PathConcat
        <4>3. Len(q) <= Len(p) /\ Len(q) # Len(p)
          <5> HIDE DEF r, a
          <5>1. Len(z) # 0
            BY <3>3, <4>1
          <5>2. QED
            BY <3>3, <4>2, <5>1
        <4>4. ASSUME NEW i \in 1..Len(q) PROVE q[i] = p[i]
          BY <3>3, <4>2
        <4>5. IsPrefix(q, p)
          BY <1>0, <3>3, <4>3, <4>4, PathPrefix
        <4>6. QED
          BY <3>3, <4>3, <4>5, AboveAreDirs
      <3>7. W[n].at = q /\ W[n].rest = z
        BY <3>4, <3>5, <3>6
      <3>8. Left(n) = Left(n - 1) - 1
        BY <1>0, <2>1, <2>3
      <3>9. QED
        BY <2>1, <3>1, <3>3, <3>7, <3>8
    <2>4. QED
      BY <2>2, <2>3
  <1>4. S = {}
    <2> HIDE DEF Good
    <2>1. SUFFICES ASSUME S # {} PROVE FALSE
      OBVIOUS
    <2>2. S \in SUBSET Nat
      BY <1>0
    <2>3. PICK x \in S : \A y \in S : x <= y
      BY <2>1, <2>2, LeastNatural
    <2>4. x \in 0..Hops /\ ~Good(x)
      OBVIOUS
    <2>5. x # 0
      BY <1>2, <2>4
    <2>6. x \in 1..Hops /\ x - 1 \in 0..Hops /\ x - 1 \notin S
      BY <1>0, <2>3, <2>4, <2>5
    <2>7. QED
      BY <1>3, <2>4, <2>6
  <1>5. Good(Hops)
    <2>1. Hops \in 0..Hops
      BY <1>0
    <2> HIDE DEF Good
    <2>2. QED
      BY <1>4, <2>1
  <1>6. CASE Len(p) <= Hops
    <2>1. W[Hops].rest = <<>>
      BY <1>0, <1>5, <1>6, PathDef
    <2>2. W[Hops].at \o <<>> = W[Hops].at
      BY <1>5, ConcatEmptySeq DEF IsPath
    <2>3. W[Hops].at = p
      BY <1>5, <2>1, <2>2
    <2>4. Walk(t, p, FALSE).at = p
      BY <2>1, <2>3 DEF Walk, W
    <2>5. QED
      BY <1>6, <2>4 DEF Place
  <1>7. CASE ~(Len(p) <= Hops)
    <2>0. Left(Hops) # 0 /\ p # <<>>
      BY <1>0, <1>7, PathDef
    <2>1. Len(W[Hops].rest) # 0
      <3> HIDE DEF Left
      <3>1. QED
        BY <1>5, <2>0
    <2>2. W[Hops].rest # <<>>
      BY <1>5, <2>1, PathDef
    <2>3. Walk(t, p, FALSE).at = Nowhere
      BY <2>2 DEF Walk, W
    <2>4. QED
      BY <1>7, <2>0, <2>3 DEF Place
  <1>8. QED
    BY <1>6, <1>7

LEMMA StraightWalk ==
  ASSUME NEW t, WellFormed(t), NEW p \in DOMAIN t, Canonic(p), Len(p) <= Hops
  PROVE  Place(t, p) = p
  BY StraightPlace

\* What a resolution comes to the end of is not too long for it.
LEMMA WalkReaches ==
  ASSUME NEW t, WellFormed(t), NEW p, IsPath(p), RealM(t, p) # Nowhere
  PROVE  Len(p) <= Hops
  <1> DEFINE W == Walked(t, p, TRUE)
             Good(n) == IsPath(W[n].rest) /\ Len(p) <= Len(W[n].rest) + n
             S == {n \in 0..Hops : ~Good(n)}
  <1>0. Hops \in Nat /\ Len(p) \in Nat
    BY PathDef DEF Hops
  <1>1. /\ W[0] = [at |-> <<>>, rest |-> p, there |-> TRUE]
        /\ \A i \in 1..Hops : W[i] = IF W[i - 1].rest = <<>> THEN W[i - 1] ELSE WalkStep(t, W[i - 1], TRUE)
    BY WalkedUnfolds
  <1>1a. W[Hops].rest = <<>>
    BY DEF RealM, Walk
  <1> HIDE DEF W
  <1>2. Good(0)
    BY <1>0, <1>1
  <1>3. ASSUME NEW n \in 1..Hops, Good(n - 1) PROVE Good(n)
    <2> DEFINE r == W[n - 1].rest z == Tail(r) w == WalkStep(t, W[n - 1], TRUE)
    <2>1. IsPath(r) /\ Len(r) \in Nat /\ Len(p) <= Len(r) + (n - 1)
      BY <1>3, PathDef
    <2>2. CASE r = <<>>
      <3>1. W[n] = W[n - 1]
        BY <2>2, <1>1
      <3>2. QED
        BY <2>1, <3>1, <1>0
    <2>3. CASE r # <<>>
      <3>1. IsPath(z) /\ Len(z) = Len(r) - 1
        BY <2>1, <2>3, HeadAndTail, EmptyCanonic
      <3>2. \/ w.rest = z
            \/ \E q \in DOMAIN t : t[q].kind = "link" /\ w.rest = t[q].names \o z
        BY DEF WalkStep
      <3>3. W[n] = w
        BY <2>3, <1>1
      <3> HIDE DEF w, z
      <3>4. IsPath(w.rest) /\ Len(z) <= Len(w.rest)
        <4>1. Len(z) \in Nat
          BY <3>1, PathDef
        <4>2. CASE w.rest = z
          BY <3>1, <4>1, <4>2
        <4>3. ASSUME NEW q \in DOMAIN t, t[q].kind = "link", w.rest = t[q].names \o z
              PROVE  IsPath(w.rest) /\ Len(z) <= Len(w.rest)
          <5>1. IsPath(t[q].names) /\ Len(t[q].names) \in Nat
            BY <4>3, TreePaths, PathDef DEF IsNode
          <5>2. IsPath(t[q].names \o z) /\ Len(t[q].names \o z) = Len(t[q].names) + Len(z)
            BY <3>1, <5>1, PathConcat
          <5>3. QED
            BY <4>1, <4>3, <5>1, <5>2
        <4>4. QED
          BY <3>2, <4>2, <4>3
      <3>5. Len(w.rest) \in Nat
        BY <3>4, PathDef
      <3>6. Len(p) <= Len(w.rest) + n
        BY <1>0, <2>1, <3>1, <3>4, <3>5
      <3>7. QED
        BY <3>3, <3>4, <3>6
    <2>4. QED
      BY <2>2, <2>3
  <1>4. S = {}
    <2> HIDE DEF Good
    <2>1. SUFFICES ASSUME S # {} PROVE FALSE
      OBVIOUS
    <2>2. S \in SUBSET Nat
      BY <1>0
    <2>3. PICK x \in S : \A y \in S : x <= y
      BY <2>1, <2>2, LeastNatural
    <2>4. x \in 0..Hops /\ ~Good(x)
      OBVIOUS
    <2>5. x # 0
      BY <1>2, <2>4
    <2>6. x \in 1..Hops /\ x - 1 \in 0..Hops /\ x - 1 \notin S
      BY <1>0, <2>3, <2>4, <2>5
    <2>7. QED
      BY <1>3, <2>4, <2>6
  <1>5. Good(Hops)
    <2>1. Hops \in 0..Hops
      BY <1>0
    <2> HIDE DEF Good
    <2>2. QED
      BY <1>4, <2>1
  <1>6. QED
    BY <1>0, <1>1a, <1>5, EmptyCanonic

-----------------------------------------------------------------------------
(* Normalisation *)

Norms(f, n, path) ==
  f = [i \in 0..n |->
         IF i = 0 THEN <<>>
         ELSE IF path[i] # ".." THEN Append(f[i - 1], path[i])
         ELSE IF f[i - 1] = <<>> THEN <<>> ELSE Front(f[i - 1])]

LEMMA NormsExist ==
  ASSUME NEW path, NEW N \in Nat
  PROVE  \E f : Norms(f, N, path)
  <1> DEFINE S == {n \in Nat : ~\E f : Norms(f, n, path)}
  <1>1. SUFFICES ASSUME S # {} PROVE FALSE
    OBVIOUS
  <1>2. PICK x \in S : \A y \in S : x <= y
    BY <1>1, LeastNatural
  <1>3. x # 0
    <2> DEFINE f == [i \in 0..0 |-> <<>>]
    <2>1. Norms(f, 0, path)
      BY DEF Norms
    <2>2. QED
      BY <2>1
  <1>4. x - 1 \in Nat /\ x - 1 \notin S
    BY <1>2, <1>3
  <1>5. PICK f : Norms(f, x - 1, path)
    BY <1>4
  <1> DEFINE n == x - 1
             next == IF path[x] # ".." THEN Append(f[n], path[x])
                     ELSE IF f[n] = <<>> THEN <<>> ELSE Front(f[n])
             g == [i \in 0..x |-> IF i = x THEN next ELSE f[i]]
  <1>6. \A i \in 0..n : f[i] = IF i = 0 THEN <<>>
                               ELSE IF path[i] # ".." THEN Append(f[i - 1], path[i])
                               ELSE IF f[i - 1] = <<>> THEN <<>> ELSE Front(f[i - 1])
    BY <1>5 DEF Norms
  <1>7. (\A i \in 0..n : g[i] = f[i]) /\ g[x] = next
    BY <1>4
  <1>8. ASSUME NEW i \in 0..x
        PROVE  g[i] = IF i = 0 THEN <<>>
                      ELSE IF path[i] # ".." THEN Append(g[i - 1], path[i])
                      ELSE IF g[i - 1] = <<>> THEN <<>> ELSE Front(g[i - 1])
    <2>1. CASE i = x
      <3>1. i - 1 = n /\ i # 0 /\ n \in 0..n
        BY <2>1, <1>3, <1>4
      <3>2. QED
        BY <3>1, <2>1, <1>7
    <2>2. CASE i # x
      <3>1. i \in 0..n /\ (i # 0 => i - 1 \in 0..n)
        BY <2>2
      <3>2. QED
        BY <3>1, <1>6, <1>7
    <2>3. QED
      BY <2>1, <2>2
  <1> HIDE DEF g
  <1>9. g = [i \in 0..x |-> g[i]]
    BY DEF g
  <1>10. Norms(g, x, path)
    BY <1>8, <1>9 DEF Norms
  <1>11. QED
    BY <1>10, <1>2

LEMMA NormCanonic ==
  ASSUME NEW path, IsPath(path)
  PROVE  Canonic(Norm(path))
  <1> DEFINE N == Len(path)
             W == Normed(path)
             Good(n) == Canonic(W[n])
             S == {n \in 0..N : ~Good(n)}
  <1>0. N \in Nat
    BY PathDef
  <1>1. \A i \in 0..N : W[i] = IF i = 0 THEN <<>>
                               ELSE IF path[i] # ".." THEN Append(W[i - 1], path[i])
                               ELSE IF W[i - 1] = <<>> THEN <<>> ELSE Front(W[i - 1])
    <2>1. \E f : Norms(f, N, path)
      BY <1>0, NormsExist
    <2>2. Norms(W, N, path)
      BY <2>1 DEF Norms, Normed
    <2> HIDE DEF W
    <2>3. QED
      BY <2>2 DEF Norms
  <1> HIDE DEF W
  <1>2. Good(0)
    BY <1>0, <1>1, EmptyCanonic
  <1>3. ASSUME NEW n \in 1..N, Good(n - 1) PROVE Good(n)
    <2>1. W[n] = IF path[n] # ".." THEN Append(W[n - 1], path[n])
                 ELSE IF W[n - 1] = <<>> THEN <<>> ELSE Front(W[n - 1])
      BY <1>0, <1>1
    <2>2. QED
      BY <1>3, <2>1, AppendCanonic, FrontCanonic, EmptyCanonic
  <1>4. S = {}
    <2> HIDE DEF Good
    <2>1. SUFFICES ASSUME S # {} PROVE FALSE
      OBVIOUS
    <2>2. S \in SUBSET Nat
      BY <1>0
    <2>3. PICK x \in S : \A y \in S : x <= y
      BY <2>1, <2>2, LeastNatural
    <2>4. x \in 0..N /\ ~Good(x)
      OBVIOUS
    <2>5. x # 0
      BY <1>2, <2>4
    <2>6. x \in 1..N /\ x - 1 \in 0..N /\ x - 1 \notin S
      BY <1>0, <2>3, <2>4, <2>5
    <2>7. QED
      BY <1>3, <2>4, <2>6
  <1>5. N \in 0..N
    BY <1>0
  <1>6. Canonic(W[N])
    BY <1>4, <1>5
  <1>7. QED
    BY <1>6 DEF Norm, W

-----------------------------------------------------------------------------
(* Resolved paths *)

LEMMA ShellTreeWellFormed ==
  ASSUME NEW h, NEW t, WellFormed(t)
  PROVE  WellFormed(ShellTree(h, t))
  <1> DEFINE T == [p \in {<<>>} |-> Dir]
  <1>1. DOMAIN T = {<<>>} /\ T[<<>>] = Dir
    OBVIOUS
  <1>2. DOMAIN Dir = {"kind"} /\ Dir.kind = "dir"
    BY DEF Dir
  <1> HIDE DEF T
  <1>3. IsDir(T, <<>>) /\ IsNode(T[<<>>])
    BY <1>1, <1>2 DEF IsDir, IsNode
  <1>4. WellFormed(T)
    BY <1>1, <1>3, EmptyCanonic, NowhereCanonic DEF WellFormed
  <1>5. QED
    BY <1>4 DEF ShellTree, T

\* What a call is given is a path without "..", and, if it must exist, one that
\* a resolution reaches.
LEMMA CheckedCanonic ==
  ASSUME NEW h, NEW t, WellFormed(t), NEW path, IsPath(path), NEW mustExist \in BOOLEAN,
         NEW q \in CanonicalizeAndCheck(h, t, path, mustExist)
  PROVE  Canonic(q) /\ (mustExist => Len(q) <= Hops)
  <1> DEFINE shell == IF mustExist THEN RealE(ShellTree(h, t), path) ELSE RealM(ShellTree(h, t),
  path)
             sftp == SftpReal(t, path)
  <1>1. Canonic(shell) /\ Len(shell) <= Hops
    BY WalkGivesPath
  <1>2. Hops \in Nat /\ 1 <= Hops
    BY DEF Hops
  <1>3. Canonic(sftp) /\ Len(sftp) <= Hops
    <2>1. sftp \in {RealM(t, path), Nowhere}
      BY DEF SftpReal
    <2>2. QED
      BY <2>1, <1>2, WalkGivesPath, NowhereCanonic
  <1>4. Canonic(Norm(path))
    BY NormCanonic
  <1>5. /\ q \in {shell, sftp, Norm(path)}
        /\ mustExist /\ (h \in Windows \/ shell = Nowhere) => StatOk(t, q)
        /\ h \notin Windows => q \in {shell, sftp}
    BY DEF CanonicalizeAndCheck, Canonical
  <1> HIDE DEF shell, sftp
  <1>6. Canonic(q)
    BY <1>1, <1>3, <1>4, <1>5
  <1>7. ASSUME mustExist PROVE Len(q) <= Hops
    <2>1. CASE h \in Windows
      <3>1. RealM(t, q) # Nowhere
        BY <1>5, <1>7, <2>1 DEF StatOk, WellFormed
      <3>2. QED
        BY <1>6, <3>1, WalkReaches DEF Canonic
    <2>2. CASE h \notin Windows
      BY <1>1, <1>3, <1>5, <2>2
    <2>3. QED
      BY <2>1, <2>2
  <1>8. QED
    BY <1>6, <1>7

LEMMA ResolvedInCheck ==
  ASSUME NEW h, NEW t, NEW path, NEW mustExist
  PROVE  /\ ResolveForRedactedRead(h, t, path, mustExist) \subseteq CanonicalizeAndCheck(h, t, path, mustExist)
         /\ ResolvePath(h, t, path, mustExist) \subseteq CanonicalizeAndCheck(h, t, path, mustExist)
  BY DEF ResolveForRedactedRead, ResolvePath

-----------------------------------------------------------------------------
(* The requests keep a tree a tree *)

LEMMA NodesAre ==
  /\ IsNode(Dir)
  /\ \A text, mode : IsNode(File(text, mode)) /\ File(text, mode).kind # "dir"
  /\ \A abs, names : IsPath(names) => IsNode(Link(abs, names))
  BY DEF IsNode, Dir, File, Link

LEMMA CreateWellFormed ==
  ASSUME NEW t, WellFormed(t), NEW p, CanCreate(t, p), NEW text, NEW mode
  PROVE  WellFormed(CreateTree(t, p, File(text, mode)))
  <1>1. IsPath(RealM(t, p))
    BY WalkGivesPath DEF Canonic
  <1>2. QED
    BY <1>1, NodesAre, PutWellFormed DEF CanCreate, CreateTree

LEMMA PlaceWellFormed ==
  ASSUME NEW t, WellFormed(t), NEW p, NEW node, IsNode(node),
         Place(t, p) \notin DOMAIN t, Place(t, p) # Nowhere, IsDir(t, Front(Place(t, p)))
  PROVE  WellFormed(Put(t, Place(t, p), node))
  <1>1. IsPath(Place(t, p))
    BY WalkGivesPath DEF Canonic
  <1>2. Place(t, p) # <<>> /\ ~IsDir(t, Place(t, p))
    BY DEF WellFormed, IsDir
  <1>3. QED
    BY <1>1, <1>2, PutWellFormed

LEMMA MkdirWellFormed ==
  ASSUME NEW t, WellFormed(t), NEW p, CanMkdir(t, p)
  PROVE  WellFormed(MkdirTree(t, p))
  BY PlaceWellFormed, NodesAre DEF CanMkdir, MkdirTree

LEMMA LinkWellFormed ==
  ASSUME NEW t, WellFormed(t), NEW p, CanLink(t, p), NEW node, IsNode(node)
  PROVE  WellFormed(Put(t, Place(t, p), node))
  BY PlaceWellFormed DEF CanLink

LEMMA RemoveWellFormed ==
  ASSUME NEW t, WellFormed(t), NEW p, CanRemove(t, p) \/ CanRmdir(t, p)
  PROVE  WellFormed(RemoveTree(t, p))
  <1>1. IsPath(Place(t, p))
    BY WalkGivesPath DEF Canonic
  <1>2. Place(t, p) # <<>>
    BY DEF CanRemove, CanRmdir, Lstat, WellFormed, IsDir
  <1>3. QED
    BY <1>1, <1>2, WithoutWellFormed DEF RemoveTree

LEMMA RenameWellFormed ==
  ASSUME NEW t, WellFormed(t), NEW p, NEW r, CanRename(t, p, r)
  PROVE  WellFormed(RenameTree(t, p, r))
  <1>1. IsPath(Place(t, p)) /\ IsPath(Place(t, r))
    BY WalkGivesPath DEF Canonic
  <1>2. QED
    BY <1>1, MoveWellFormed DEF CanRename, RenameTree

LEMMA TargetIsPath ==
  ASSUME NEW t, NEW src, NEW dst
  PROVE  IsPath(Target(t, src, dst))
  BY WalkGivesPath, PathAppend DEF Target, Canonic

LEMMA MvWellFormed ==
  ASSUME NEW t, WellFormed(t), NEW src, NEW dst, CanMv(t, src, dst)
  PROVE  /\ WellFormed(MvTree(t, src, dst))
         /\ WellFormed(CopyTree(Without(t, Target(t, src, dst)), Place(t, src), Target(t, src, dst)))
  <1> DEFINE s == Place(t, src) d == Target(t, src, dst) T == Without(t, d)
  <1>1. IsPath(s) /\ IsPath(d) /\ Fits(t, s, d)
    BY TargetIsPath, WalkGivesPath DEF CanMv, Canonic
  <1>2. d # <<>> /\ d # Nowhere /\ IsDir(t, Front(d))
    BY <1>1 DEF Fits
  <1>3. WellFormed(MvTree(t, src, dst))
    BY <1>1, MoveWellFormed DEF MvTree
  <1> HIDE DEF s, d
  <1>4. WellFormed(T)
    BY <1>1, <1>2, WithoutWellFormed
  <1>5. IsDir(T, Front(d))
    <2>1. IsPath(Front(d))
      BY <1>1, PathFront
    <2>2. ~IsPrefix(d, Front(d))
      BY <1>1, <1>2, <2>1, AboveFront
    <2>3. QED
      BY <1>2, <2>2 DEF IsDir, Without, Under, Restrict
  <1>6. WellFormed(CopyTree(T, s, d))
    BY <1>1, <1>2, <1>4, <1>5, CopyWellFormed
  <1>7. QED
    BY <1>3, <1>6 DEF s, d

LEMMA CpWellFormed ==
  ASSUME NEW t, WellFormed(t), NEW src, NEW dst, CanCp(t, src, dst)
  PROVE  WellFormed(CpTree(t, src, dst))
  <1>1. IsPath(Place(t, src)) /\ IsPath(Target(t, src, dst))
    BY TargetIsPath, WalkGivesPath DEF Canonic
  <1>2. QED
    BY <1>1, CopyWellFormed DEF CanCp, CpTree

\* Writing to what is there.
LEMMA RewriteWellFormed ==
  ASSUME NEW t, WellFormed(t), NEW p, NEW x
  PROVE  WellFormed([t EXCEPT ![p].text = x]) /\ WellFormed([t EXCEPT ![p].mode = x])
  <1>1. ASSUME NEW n, IsNode(n)
        PROVE  /\ IsNode([n EXCEPT !.text = x]) /\ [n EXCEPT !.text = x].kind = n.kind
               /\ IsNode([n EXCEPT !.mode = x]) /\ [n EXCEPT !.mode = x].kind = n.kind
    BY <1>1 DEF IsNode
  <1>2. \A q \in DOMAIN t : IsNode(t[q])
    BY TreePaths
  <1>3. WellFormed([t EXCEPT ![p].text = x])
    <2> DEFINE T == [t EXCEPT ![p].text = x]
    <2>1. DOMAIN T = DOMAIN t /\ \A q \in DOMAIN t : T[q] = IF q = p THEN [t[q] EXCEPT !.text = x] ELSE t[q]
      OBVIOUS
    <2> HIDE DEF T
    <2>2. \A q \in DOMAIN t : IsNode(T[q]) /\ T[q].kind = t[q].kind
      BY <1>1, <1>2, <2>1
    <2>3. WellFormed(T)
      BY <2>1, <2>2, NodesWellFormed
    <2>4. QED
      BY <2>3 DEF T
  <1>4. WellFormed([t EXCEPT ![p].mode = x])
    <2> DEFINE T == [t EXCEPT ![p].mode = x]
    <2>1. DOMAIN T = DOMAIN t /\ \A q \in DOMAIN t : T[q] = IF q = p THEN [t[q] EXCEPT !.mode = x] ELSE t[q]
      OBVIOUS
    <2> HIDE DEF T
    <2>2. \A q \in DOMAIN t : IsNode(T[q]) /\ T[q].kind = t[q].kind
      BY <1>1, <1>2, <2>1
    <2>3. WellFormed(T)
      BY <2>1, <2>2, NodesWellFormed
    <2>4. QED
      BY <2>3 DEF T
  <1>5. QED
    BY <1>3, <1>4

LEMMA GrowWellFormed ==
  ASSUME NEW t, WellFormed(t), NEW places, NEW x
  PROVE  WellFormed(Grow(t, places, x))
  <1> DEFINE T == Grow(t, places, x)
  <1>1. ASSUME NEW n, IsNode(n)
        PROVE  IsNode([n EXCEPT !.text = x]) /\ [n EXCEPT !.text = x].kind = n.kind
    BY <1>1 DEF IsNode
  <1>2. DOMAIN T = DOMAIN t /\ \A q \in DOMAIN t : T[q] = IF q \in places THEN [t[q] EXCEPT !.text = x] ELSE t[q]
    BY DEF Grow
  <1> HIDE DEF T
  <1>3. \A q \in DOMAIN t : IsNode(t[q])
    BY TreePaths
  <1>4. \A q \in DOMAIN t : IsNode(T[q]) /\ T[q].kind = t[q].kind
    BY <1>1, <1>2, <1>3
  <1>5. WellFormed(T)
    BY <1>2, <1>4, NodesWellFormed
  <1>6. QED
    BY <1>5 DEF T

-----------------------------------------------------------------------------
(* What every step of a call does *)

Locals == {"path", "to", "text", "mode", "todo", "list", "seen", "size", "plan"}
LocalsOK(l) == DOMAIN l = Locals /\ Canonic(l.path)
Outs == {"none", "ok", "error", "cancelled"}

FilesInv ==
  /\ FilesTypeOK
  /\ DOMAIN loc = Calls /\ DOMAIN proc = Calls
  /\ cut # {} => faults > 0
  /\ \A t \in Calls :
       /\ LocalsOK(loc[t]) /\ IsPath(req[t].path) /\ IsPath(req[t].to) /\ On(t) \in DOMAIN fs
       /\ at[t] = "start" => proc[t] = "none"
       /\ proc[t] = "removing" => loc[t].path # <<>>

\* A step of call t that leaves the properties of the trees and of the calls
\* alone; the parts of other calls do not change.
Others(f, t) == \A u \in Calls \ {t} : f'[u] = f[u]
TreesKept(t) ==
  \/ UNCHANGED <<fs, raced>>
  \/ \E h, tree : Affect(t, h, tree) /\ (h \in DOMAIN fs => WellFormed(tree))
Effect(t) ==
  /\ UNCHANGED <<req, clock>>
  /\ faults' \in 0..MaxFaults /\ faults <= faults' /\ cut \subseteq cut' /\ cut' \subseteq Calls
  /\ cut' # {} => faults' > 0
  /\ TreesKept(t)
  /\ at' \in [Calls -> Pcs] /\ Others(at, t)
  /\ out' \in [Calls -> Outs] /\ Others(out, t) /\ (out'[t] # "none" => at'[t] = "done")
  /\ made' \in [Calls -> {"no", "part", "whole"}] /\ Others(made, t)
  /\ DOMAIN loc' = Calls /\ Others(loc, t) /\ LocalsOK(loc'[t])
  /\ at[t] = "start" \/ loc'[t].path = loc[t].path
  /\ DOMAIN proc' = Calls /\ Others(proc, t)
  /\ at'[t] = "start" => at[t] = "start" /\ proc'[t] = proc[t]
  /\ proc'[t] = "removing" => proc[t] # "none" /\ loc[t].path # <<>>

LEMMA EffectKeeps ==
  ASSUME FilesInv, NEW t \in Calls, Effect(t)
  PROVE  FilesInv'
  <1>1. raced' \subseteq Calls /\ \A h \in DOMAIN fs' : WellFormed(fs'[h])
    <2>1. CASE UNCHANGED <<fs, raced>>
      BY <2>1 DEF FilesInv, FilesTypeOK
    <2>2. ASSUME NEW h, NEW tree, Affect(t, h, tree), h \in DOMAIN fs => WellFormed(tree)
          PROVE  raced' \subseteq Calls /\ \A g \in DOMAIN fs' : WellFormed(fs'[g])
      BY <2>2 DEF FilesInv, FilesTypeOK, Affect
    <2>3. QED
      BY <2>1, <2>2 DEF Effect, TreesKept
  <1>2. \A u \in Calls : out'[u] # "none" => at'[u] = "done"
    BY DEF FilesInv, FilesTypeOK, Effect, Others
  <1>3. FilesTypeOK'
    BY <1>1, <1>2 DEF FilesInv, FilesTypeOK, Effect, Outs
  <1>4. ASSUME NEW u \in Calls
        PROVE  /\ LocalsOK(loc'[u]) /\ IsPath(req'[u].path) /\ IsPath(req'[u].to) /\ On(u)' \in DOMAIN fs'
               /\ at'[u] = "start" => proc'[u] = "none"
               /\ proc'[u] = "removing" => loc'[u].path # <<>>
    <2>0. DOMAIN fs' = DOMAIN fs
      BY DEF Effect, TreesKept, Affect
    <2>1. CASE u = t
      BY <2>0, <2>1 DEF FilesInv, Effect, On
    <2>2. CASE u # t
      BY <2>0, <2>2 DEF FilesInv, Effect, Others, On
    <2>3. QED
      BY <2>1, <2>2
  <1>5. DOMAIN loc' = Calls /\ DOMAIN proc' = Calls /\ (cut' # {} => faults' > 0)
    BY DEF Effect
  <1>6. QED
    BY <1>3, <1>4, <1>5 DEF FilesInv

\* The shapes of steps.  Of the call's position and outcome:
Stays(t) == UNCHANGED <<at, out>>
Goes(t) == \E p \in Pcs \ {"start"} : at[t] # "done" /\ Go(t, p) /\ UNCHANGED out
Ends(t) == \E how \in Outs \ {"none"} : End(t, how)

LEMMA PositionKept ==
  ASSUME FilesInv, NEW t \in Calls, Stays(t) \/ Goes(t) \/ Ends(t)
  PROVE  /\ at' \in [Calls -> Pcs] /\ Others(at, t)
         /\ out' \in [Calls -> Outs] /\ Others(out, t) /\ (out'[t] # "none" => at'[t] = "done")
         /\ at'[t] = "start" => at[t] = "start"
  <1>0. at \in [Calls -> Pcs] /\ out \in [Calls -> Outs] /\ (out[t] # "none" => at[t] = "done") /\ "done" \in Pcs
    BY DEF FilesInv, FilesTypeOK, Outs, Pcs
  <1>1. CASE Stays(t)
    BY <1>0, <1>1 DEF Stays, Others
  <1>2. ASSUME NEW p \in Pcs \ {"start"}, at[t] # "done", Go(t, p), UNCHANGED out
        PROVE  /\ at' \in [Calls -> Pcs] /\ Others(at, t)
               /\ out' \in [Calls -> Outs] /\ Others(out, t) /\ (out'[t] # "none" => at'[t] = "done")
               /\ at'[t] = "start" => at[t] = "start"
    BY <1>0, <1>2 DEF Go, Others
  <1>3. ASSUME NEW how \in Outs \ {"none"}, End(t, how)
        PROVE  /\ at' \in [Calls -> Pcs] /\ Others(at, t)
               /\ out' \in [Calls -> Outs] /\ Others(out, t) /\ (out'[t] # "none" => at'[t] = "done")
               /\ at'[t] = "start" => at[t] = "start"
    BY <1>0, <1>3 DEF End, Go, Others
  <1>4. QED
    BY <1>1, <1>2, <1>3 DEF Goes, Ends

\* Of its locals:
Keeps(t) ==
  /\ DOMAIN loc' = Calls /\ Others(loc, t) /\ LocalsOK(loc'[t])
  /\ at[t] = "start" \/ loc'[t].path = loc[t].path

\* Of its process:
Runs(t) ==
  /\ DOMAIN proc' = Calls /\ Others(proc, t) /\ at'[t] # "start"
  /\ proc'[t] = "removing" => proc[t] # "none" /\ loc[t].path # <<>>
LEMMA ProcessKept ==
  ASSUME FilesInv, NEW t \in Calls, UNCHANGED proc \/ Runs(t), at'[t] = "start" => at[t] = "start"
  PROVE  /\ DOMAIN proc' = Calls /\ Others(proc, t)
         /\ at'[t] = "start" => at[t] = "start" /\ proc'[t] = proc[t]
         /\ proc'[t] = "removing" => proc[t] # "none" /\ loc[t].path # <<>>
  <1>0. DOMAIN proc = Calls /\ (proc[t] = "removing" => loc[t].path # <<>>)
    BY DEF FilesInv
  <1>1. CASE UNCHANGED proc
    BY <1>0, <1>1 DEF Others
  <1>2. CASE Runs(t)
    BY <1>2 DEF Runs
  <1>3. QED
    BY <1>1, <1>2

\* Of the faults:
Costs == UNCHANGED faults \/ (faults < MaxFaults /\ faults' = faults + 1)
\* Of what it has done:
Makes(t) == made' \in [Calls -> {"no", "part", "whole"}] /\ Others(made, t)

LEMMA EffectIntro ==
  ASSUME FilesInv, NEW t \in Calls, UNCHANGED <<req, clock>>, Costs, UNCHANGED cut, TreesKept(t),
         Stays(t) \/ Goes(t) \/ Ends(t), UNCHANGED loc \/ Keeps(t), UNCHANGED proc \/ Runs(t),
         UNCHANGED made \/ Makes(t)
  PROVE  Effect(t)
  <1>1. faults' \in 0..MaxFaults /\ faults <= faults' /\ cut \subseteq cut' /\ cut' \subseteq Calls
        /\ (cut' # {} => faults' > 0)
    <2>1. faults \in 0..MaxFaults /\ MaxFaults \in Nat /\ cut \subseteq Calls /\ (cut # {} => faults > 0)
      BY CallsAssumption DEF FilesInv, FilesTypeOK
    <2>2. QED
      BY <2>1 DEF Costs
  <1>2. made' \in [Calls -> {"no", "part", "whole"}] /\ Others(made, t)
    <2>1. made \in [Calls -> {"no", "part", "whole"}]
      BY DEF FilesInv, FilesTypeOK
    <2>2. QED
      BY <2>1 DEF Makes, Others
  <1>2a. Keeps(t)
    BY DEF FilesInv, Keeps, Others
  <1>3. QED
    BY <1>1, <1>2, <1>2a, PositionKept, ProcessKept DEF Effect, Keeps

\* A step that only moves the call on.
Moves(t) ==
  /\ Costs /\ (Goes(t) \/ Ends(t)) /\ (UNCHANGED loc \/ Keeps(t))
  /\ UNCHANGED <<fs, req, cut, proc, clock, made, raced>>

LEMMA MovesEffect ==
  ASSUME FilesInv, NEW t \in Calls, Moves(t)
  PROVE  Effect(t)
  BY EffectIntro DEF Moves, TreesKept

\* An error nobody handles.
Failures(t) ==
  \/ MoveToBackupFails(t) \/ LookBeforeEditFails(t) \/ ReadAndEditFails(t) \/ TransferSizeFails(t)
  \/ TargetExistsFails(t) \/ SweepFails(t) \/ SudoOwnerFails(t) \/ SudoModeFails(t)
  \/ ScriptTimesOut(t) \/ MkdirFails(t) \/ ParentStatFails(t) \/ ParentMakeFails(t)
  \/ DeleteLookFails(t) \/ DeleteFails(t) \/ RmdirFails(t) \/ WalkFails(t)
  \/ RecheckFails(t) \/ SweepEntryFails(t) \/ RenameFails(t) \/ ShellFails(t)
  \/ SymlinkFails(t) \/ FindLinkSourceFails(t) \/ LinkLookFails(t) \/ HardLinkFails(t)
  \/ ListDirFails(t) \/ StatEntryFails(t) \/ StatOneFails(t) \/ ReadLinkFails(t)
  \/ SudoListFails(t) \/ FindFails(t) \/ HashFails(t) \/ DownloadStatFails(t)
  \/ ReadAllFails(t) \/ SudoCatFails(t) \/ LocalOpenFails(t) \/ PrepareFails(t)
  \/ RaiseAt(t, "second", SecondOk(t))

LEMMA FailuresMove ==
  ASSUME FilesInv, NEW t \in Calls, Failures(t)
  PROVE  Moves(t)
  <1>0. ASSUME Raise(t) PROVE Ends(t)
    BY <1>0 DEF Raise, Ends, Outs
  <1>1. CASE MoveToBackupFails(t)
    BY <1>0, <1>1 DEF Moves, MoveToBackupFails, RaiseAt, Trouble, Costs
  <1>2. CASE LookBeforeEditFails(t)
    BY <1>0, <1>2 DEF Moves, LookBeforeEditFails, RaiseAt, Trouble, Costs
  <1>3. CASE ReadAndEditFails(t)
    BY <1>0, <1>3 DEF Moves, ReadAndEditFails, RaiseAt, Trouble, Costs
  <1>4. CASE TransferSizeFails(t)
    BY <1>0, <1>4 DEF Moves, TransferSizeFails, RaiseAt, Trouble, Costs
  <1>5. CASE TargetExistsFails(t)
    BY <1>0, <1>5 DEF Moves, TargetExistsFails, RaiseAt, Trouble, Costs
  <1>6. CASE SweepFails(t)
    BY <1>0, <1>6 DEF Moves, SweepFails, RaiseAt, Trouble, Costs
  <1>7. CASE SudoOwnerFails(t)
    BY <1>0, <1>7 DEF Moves, SudoOwnerFails, RaiseAt, Trouble, Costs
  <1>8. CASE SudoModeFails(t)
    BY <1>0, <1>8 DEF Moves, SudoModeFails, RaiseAt, Trouble, Costs
  <1>9. CASE ScriptTimesOut(t)
    BY <1>0, <1>9 DEF Moves, ScriptTimesOut, RaiseAt, Trouble, Costs
  <1>10. CASE MkdirFails(t)
    BY <1>0, <1>10 DEF Moves, MkdirFails, RaiseAt, Trouble, Costs
  <1>11. CASE ParentStatFails(t)
    BY <1>0, <1>11 DEF Moves, ParentStatFails, RaiseAt, Trouble, Costs
  <1>12. CASE ParentMakeFails(t)
    BY <1>0, <1>12 DEF Moves, ParentMakeFails, RaiseAt, Trouble, Costs
  <1>13. CASE DeleteLookFails(t)
    BY <1>0, <1>13 DEF Moves, DeleteLookFails, RaiseAt, Trouble, Costs
  <1>14. CASE DeleteFails(t)
    BY <1>0, <1>14 DEF Moves, DeleteFails, RaiseAt, Trouble, Costs
  <1>15. CASE RmdirFails(t)
    BY <1>0, <1>15 DEF Moves, RmdirFails, RaiseAt, Trouble, Costs
  <1>16. CASE WalkFails(t)
    BY <1>0, <1>16 DEF Moves, WalkFails, RaiseAt, Trouble, Costs
  <1>17. CASE RecheckFails(t)
    BY <1>0, <1>17 DEF Moves, RecheckFails, RaiseAt, Trouble, Costs
  <1>18. CASE SweepEntryFails(t)
    BY <1>0, <1>18 DEF Moves, SweepEntryFails, RaiseAt, Trouble, Costs
  <1>19. CASE RenameFails(t)
    BY <1>0, <1>19 DEF Moves, RenameFails, RaiseAt, Trouble, Costs
  <1>20. CASE ShellFails(t)
    BY <1>0, <1>20 DEF Moves, ShellFails, RaiseAt, Trouble, Costs
  <1>21. CASE SymlinkFails(t)
    BY <1>0, <1>21 DEF Moves, SymlinkFails, RaiseAt, Trouble, Costs
  <1>22. CASE FindLinkSourceFails(t)
    BY <1>0, <1>22 DEF Moves, FindLinkSourceFails, RaiseAt, Trouble, Costs
  <1>23. CASE LinkLookFails(t)
    BY <1>0, <1>23 DEF Moves, LinkLookFails, RaiseAt, Trouble, Costs
  <1>24. CASE HardLinkFails(t)
    BY <1>0, <1>24 DEF Moves, HardLinkFails, RaiseAt, Trouble, Costs
  <1>25. CASE ListDirFails(t)
    BY <1>0, <1>25 DEF Moves, ListDirFails, RaiseAt, Trouble, Costs
  <1>26. CASE StatEntryFails(t)
    BY <1>0, <1>26 DEF Moves, StatEntryFails, RaiseAt, Trouble, Costs
  <1>27. CASE StatOneFails(t)
    BY <1>0, <1>27 DEF Moves, StatOneFails, RaiseAt, Trouble, Costs
  <1>28. CASE ReadLinkFails(t)
    BY <1>0, <1>28 DEF Moves, ReadLinkFails, RaiseAt, Trouble, Costs
  <1>29. CASE SudoListFails(t)
    BY <1>0, <1>29 DEF Moves, SudoListFails, RaiseAt, Trouble, Costs
  <1>30. CASE FindFails(t)
    BY <1>0, <1>30 DEF Moves, FindFails, RaiseAt, Trouble, Costs
  <1>31. CASE HashFails(t)
    BY <1>0, <1>31 DEF Moves, HashFails, RaiseAt, Trouble, Costs
  <1>32. CASE DownloadStatFails(t)
    BY <1>0, <1>32 DEF Moves, DownloadStatFails, RaiseAt, Trouble, Costs
  <1>33. CASE ReadAllFails(t)
    BY <1>0, <1>33 DEF Moves, ReadAllFails, RaiseAt, Trouble, Costs
  <1>34. CASE SudoCatFails(t)
    BY <1>0, <1>34 DEF Moves, SudoCatFails, RaiseAt, Trouble, Costs
  <1>35. CASE LocalOpenFails(t)
    BY <1>0, <1>35 DEF Moves, LocalOpenFails, RaiseAt, Trouble, Costs
  <1>36. CASE PrepareFails(t)
    BY <1>0, <1>36 DEF Moves, PrepareFails, Trouble, Costs
  <1>37. CASE RaiseAt(t, "second", SecondOk(t))
    BY <1>0, <1>37 DEF Moves, RaiseAt, Trouble, Costs
  <1>38. QED
    BY <1>1, <1>2, <1>3, <1>4, <1>5, <1>6, <1>7, <1>8, <1>9, <1>10, <1>11, <1>12, <1>13, <1>14,
       <1>15, <1>16, <1>17, <1>18, <1>19, <1>20, <1>21, <1>22, <1>23, <1>24, <1>25, <1>26, <1>27,
       <1>28, <1>29, <1>30, <1>31, <1>32, <1>33, <1>34, <1>35, <1>36, <1>37 DEF Failures

LEMMA LocalsAre ==
  ASSUME FilesInv, NEW t \in Calls
  PROVE  DOMAIN loc = Calls /\ DOMAIN loc[t] = Locals /\ Canonic(loc[t].path)
  BY DEF FilesInv, LocalsOK

LEMMA ResolvedCanonic ==
  ASSUME FilesInv, NEW t \in Calls, NEW p \in Resolved(t)
  PROVE  Canonic(p) /\ (Tool(t) \notin Creating => Len(p) <= Hops)
  <1>1. WellFormed(fs[On(t)]) /\ IsPath(req[t].path)
    BY DEF FilesInv, FilesTypeOK
  <1>2. CASE Tool(t) \in Redacted
    <2>1. p \in CanonicalizeAndCheck(On(t), fs[On(t)], req[t].path, TRUE)
      BY <1>2, ResolvedInCheck DEF Resolved
    <2>2. QED
      BY <1>1, <2>1, CheckedCanonic
  <1>3. CASE Tool(t) \notin Redacted
    <2>1. PICK b \in BOOLEAN : b <=> Tool(t) \notin Creating
      OBVIOUS
    <2>2. p \in ResolvePath(On(t), fs[On(t)], req[t].path, b)
      BY <1>3, <2>1 DEF Resolved
    <2>3. p \in CanonicalizeAndCheck(On(t), fs[On(t)], req[t].path, b)
      BY <2>2, ResolvedInCheck
    <2>4. QED
      BY <1>1, <2>1, <2>3, CheckedCanonic
  <1>4. QED
    BY <1>2, <1>3

\* The steps of the writing tools that only move the call on.
WriteMoves(t) ==
  \/ StartUpload(t) \/ PayloadRefused(t) \/ OldStat(t) \/ OldStatFails(t)
  \/ LookBeforeEdit(t) \/ ReadAndEdit(t) \/ TransferSize(t) \/ TargetExists(t)
  \/ OpenSource(t) \/ WriteFails(t) \/ ScriptReturns(t)

LEMMA WriteMovesMove ==
  ASSUME FilesInv, NEW t \in Calls, WriteMoves(t)
  PROVE  Moves(t)
  <1>1. CASE StartUpload(t)
    <2>1. at[t] = "start" /\ Costs /\ UNCHANGED <<fs, req, cut, proc, clock, made, raced>>
      BY <1>1 DEF StartUpload, Quiet, Costs
    <2>2. Goes(t)
      BY <1>1 DEF StartUpload, FirstWrite, Goes, Pcs
    <2>3. Keeps(t)
      BY <1>1, LocalsAre, ResolvedCanonic DEF StartUpload, Keeps, Keep, Others, LocalsOK, Locals
    <2>4. QED
      BY <2>1, <2>2, <2>3 DEF Moves
  <1>2. CASE PayloadRefused(t)
    BY <1>2, LocalsAre DEF Moves, PayloadRefused, Quiet, Trouble, Costs, Goes, Ends, Keeps, Keep,
       Others, LocalsOK, Locals, Raise, Pcs, Outs
  <1>3. CASE OldStat(t)
    BY <1>3, LocalsAre DEF Moves, OldStat, FirstWrite, Quiet, Trouble, Costs, Goes, Ends, Keeps,
       Keep, Others, LocalsOK, Locals, Raise, Pcs, Outs
  <1>4. CASE OldStatFails(t)
    BY <1>4, LocalsAre DEF Moves, OldStatFails, IgnoreAt, FirstWrite, Quiet, Trouble, Costs,
       Goes, Ends, Keeps, Keep, Others, LocalsOK, Locals, Raise, Pcs, Outs
  <1>5. CASE LookBeforeEdit(t)
    BY <1>5, LocalsAre DEF Moves, LookBeforeEdit, Quiet, Trouble, Costs, Goes, Ends, Keeps, Keep,
       Others, LocalsOK, Locals, Raise, Pcs, Outs
  <1>6. CASE ReadAndEdit(t)
    BY <1>6, LocalsAre DEF Moves, ReadAndEdit, Plans, Quiet, Trouble, Costs, Goes, Ends, Keeps,
       Keep, Others, LocalsOK, Locals, Raise, Pcs, Outs
  <1>7. CASE TransferSize(t)
    BY <1>7, LocalsAre DEF Moves, TransferSize, Quiet, Trouble, Costs, Goes, Ends, Keeps, Keep,
       Others, LocalsOK, Locals, Raise, Pcs, Outs
  <1>8. CASE TargetExists(t)
    BY <1>8, LocalsAre DEF Moves, TargetExists, Quiet, Trouble, Costs, Goes, Ends, Keeps, Keep,
       Others, LocalsOK, Locals, Raise, Pcs, Outs
  <1>9. CASE OpenSource(t)
    BY <1>9, LocalsAre DEF Moves, OpenSource, Plans, Quiet, Trouble, Costs, Goes, Ends, Keeps,
       Keep, Others, LocalsOK, Locals, Raise, Pcs, Outs
  <1>10. CASE WriteFails(t)
    BY <1>10, LocalsAre DEF Moves, WriteFails, Quiet, Trouble, Costs, Goes, Ends, Keeps, Keep,
       Others, LocalsOK, Locals, Raise, Pcs, Outs
  <1>11. CASE ScriptReturns(t)
    BY <1>11, LocalsAre DEF Moves, ScriptReturns, Quiet, Trouble, Costs, Goes, Ends, Keeps, Keep,
       Others, LocalsOK, Locals, Raise, Pcs, Outs
  <1>12. QED
    BY <1>1, <1>2, <1>3, <1>4, <1>5, <1>6, <1>7, <1>8, <1>9, <1>10, <1>11 DEF WriteMoves

\* Those of the tree tools.
TreeMoves(t) ==
  \/ ParentStat(t) \/ DeleteLook(t) \/ WalkFolder(t) \/ WalkSkips(t)
  \/ ShellReturns(t) \/ FindLinkSource(t) \/ SweepEntrySkips(t)

LEMMA TreeMovesMove ==
  ASSUME FilesInv, NEW t \in Calls, TreeMoves(t)
  PROVE  Moves(t)
  <1>1. CASE ParentStat(t)
    BY <1>1, LocalsAre DEF Moves, ParentStat, Further, AfterPrefix, Quiet, Trouble, Costs, Goes,
       Ends, Keeps, Keep, Others, LocalsOK, Locals, Raise, Pcs, Outs
  <1>2. CASE DeleteLook(t)
    BY <1>2, LocalsAre DEF Moves, DeleteLook, Quiet, Trouble, Costs, Goes, Ends, Keeps, Keep,
       Others, LocalsOK, Locals, Raise, Pcs, Outs
  <1>3. CASE WalkFolder(t)
    <2>1. Quiet /\ at[t] = "walk" /\ \E queue, list : AfterWalk(t, queue, list)
      BY <1>3 DEF WalkFolder
    <2>2. QED
      BY <2>1, LocalsAre DEF Moves, AfterWalk, Quiet, Costs, Goes, Ends, Keeps, Keep, Others, LocalsOK,
         Locals, Raise, Pcs, Outs
  <1>4. CASE WalkSkips(t)
    BY <1>4, LocalsAre DEF Moves, WalkSkips, AfterWalk, Quiet, Trouble, Costs, Goes, Ends, Keeps,
       Keep, Others, LocalsOK, Locals, Raise, Pcs, Outs
  <1>5. CASE ShellReturns(t)
    BY <1>5, LocalsAre DEF Moves, ShellReturns, Quiet, Trouble, Costs, Goes, Ends, Keeps, Keep,
       Others, LocalsOK, Locals, Raise, Pcs, Outs
  <1>6. CASE FindLinkSource(t)
    BY <1>6, LocalsAre DEF Moves, FindLinkSource, Quiet, Trouble, Costs, Goes, Ends, Keeps, Keep,
       Others, LocalsOK, Locals, Raise, Pcs, Outs
  <1>7. CASE SweepEntrySkips(t)
    BY <1>7, LocalsAre DEF Moves, SweepEntrySkips, Swept, Quiet, Trouble, Costs, Goes, Ends,
       Keeps, Keep, Others, LocalsOK, Locals, Raise, Pcs, Outs
  <1>8. QED
    BY <1>1, <1>2, <1>3, <1>4, <1>5, <1>6, <1>7 DEF TreeMoves

\* Those of the reading tools.
ReadMoves(t) ==
  \/ ListDir(t) \/ StatEntry(t) \/ EntryLink(t) \/ StatOne(t)
  \/ ReadLink(t) \/ SudoList(t) \/ Find(t) \/ FindWalk(t)
  \/ FindSkips(t) \/ Hash(t) \/ HashSize(t) \/ DownloadStat(t)
  \/ ReadAll(t) \/ SudoCat(t) \/ StartLocal(t) \/ StartLocalRefused(t)
  \/ LocalRead(t) \/ Returns(t)

LEMMA ReadMovesMove ==
  ASSUME FilesInv, NEW t \in Calls, ReadMoves(t)
  PROVE  Moves(t)
  <1>1. CASE ListDir(t)
    BY <1>1, LocalsAre DEF Moves, ListDir, Quiet, Trouble, Costs, Goes, Ends, Keeps, Keep,
       Others, LocalsOK, Locals, Raise, Pcs, Outs
  <1>2. CASE StatEntry(t)
    <2>1. /\ (UNCHANGED loc /\ Go(t, "entryLink")) \/ (\E kind : Entered(t, kind))
          /\ at[t] = "entry" /\ Quiet /\ UNCHANGED out
      BY <1>2 DEF StatEntry
    <2>2. CASE UNCHANGED loc /\ Go(t, "entryLink")
      BY <2>1, <2>2, LocalsAre DEF Moves, Quiet, Costs, Goes, Keeps, Others, Pcs
    <2>3. CASE \E kind : Entered(t, kind)
      BY <2>1, <2>3, LocalsAre DEF Moves, Entered, Quiet, Costs, Goes, Keeps, Keep, Others, LocalsOK,
         Locals, Pcs
    <2>4. QED
      BY <2>1, <2>2, <2>3
  <1>3. CASE EntryLink(t)
    BY <1>3, LocalsAre DEF Moves, EntryLink, Entered, Tried, Quiet, Trouble, Costs, Goes, Ends,
       Keeps, Keep, Others, LocalsOK, Locals, Raise, Pcs, Outs
  <1>4. CASE StatOne(t)
    BY <1>4, LocalsAre DEF Moves, StatOne, Quiet, Trouble, Costs, Goes, Ends, Keeps, Keep,
       Others, LocalsOK, Locals, Raise, Pcs, Outs
  <1>5. CASE ReadLink(t)
    BY <1>5, LocalsAre DEF Moves, ReadLink, Quiet, Trouble, Costs, Goes, Ends, Keeps, Keep,
       Others, LocalsOK, Locals, Raise, Pcs, Outs
  <1>6. CASE SudoList(t)
    BY <1>6, LocalsAre DEF Moves, SudoList, Quiet, Trouble, Costs, Goes, Ends, Keeps, Keep,
       Others, LocalsOK, Locals, Raise, Pcs, Outs
  <1>7. CASE Find(t)
    BY <1>7, LocalsAre DEF Moves, Find, Quiet, Trouble, Costs, Goes, Ends, Keeps, Keep, Others,
       LocalsOK, Locals, Raise, Pcs, Outs
  <1>8. CASE FindWalk(t)
    BY <1>8, LocalsAre DEF Moves, FindWalk, FindWalked, Quiet, Trouble, Costs, Goes, Ends, Keeps,
       Keep, Others, LocalsOK, Locals, Raise, Pcs, Outs
  <1>9. CASE FindSkips(t)
    BY <1>9, LocalsAre DEF Moves, FindSkips, FindWalked, Quiet, Trouble, Costs, Goes, Ends,
       Keeps, Keep, Others, LocalsOK, Locals, Raise, Pcs, Outs
  <1>10. CASE Hash(t)
    BY <1>10, LocalsAre DEF Moves, Hash, Quiet, Trouble, Costs, Goes, Ends, Keeps, Keep, Others,
       LocalsOK, Locals, Raise, Pcs, Outs
  <1>11. CASE HashSize(t)
    BY <1>11, LocalsAre DEF Moves, HashSize, Quiet, Trouble, Costs, Goes, Ends, Keeps, Keep,
       Others, LocalsOK, Locals, Raise, Pcs, Outs
  <1>12. CASE DownloadStat(t)
    BY <1>12, LocalsAre DEF Moves, DownloadStat, Quiet, Trouble, Costs, Goes, Ends, Keeps, Keep,
       Others, LocalsOK, Locals, Raise, Pcs, Outs
  <1>13. CASE ReadAll(t)
    BY <1>13, LocalsAre DEF Moves, ReadAll, Quiet, Trouble, Costs, Goes, Ends, Keeps, Keep,
       Others, LocalsOK, Locals, Raise, Pcs, Outs
  <1>14. CASE SudoCat(t)
    BY <1>14, LocalsAre DEF Moves, SudoCat, Quiet, Trouble, Costs, Goes, Ends, Keeps, Keep,
       Others, LocalsOK, Locals, Raise, Pcs, Outs
  <1>15. CASE StartLocal(t)
    <2>1. at[t] = "start" /\ Costs /\ UNCHANGED <<fs, req, cut, proc, clock, made, raced>>
      BY <1>15 DEF StartLocal, Quiet, Costs
    <2>2. Goes(t)
      BY <1>15 DEF StartLocal, Goes, Pcs
    <2>3. Keeps(t)
      BY <1>15, LocalsAre, ResolvedCanonic DEF StartLocal, Keeps, Keep, Others, LocalsOK, Locals
    <2>4. QED
      BY <2>1, <2>2, <2>3 DEF Moves
  <1>16. CASE StartLocalRefused(t)
    BY <1>16, LocalsAre DEF Moves, StartLocalRefused, Quiet, Trouble, Costs, Goes, Ends, Keeps,
       Keep, Others, LocalsOK, Locals, Raise, Pcs, Outs
  <1>17. CASE LocalRead(t)
    BY <1>17, LocalsAre DEF Moves, LocalRead, Quiet, Trouble, Costs, Goes, Ends, Keeps, Keep,
       Others, LocalsOK, Locals, Raise, Pcs, Outs
  <1>18. CASE Returns(t)
    BY <1>18, LocalsAre DEF Moves, Returns, Quiet, Trouble, Costs, Goes, Ends, Keeps, Keep,
       Others, LocalsOK, Locals, Raise, Pcs, Outs
  <1>19. QED
    BY <1>1, <1>2, <1>3, <1>4, <1>5, <1>6, <1>7, <1>8, <1>9, <1>10, <1>11, <1>12, <1>13, <1>14,
       <1>15, <1>16, <1>17, <1>18 DEF ReadMoves


LEMMA PreparesMove ==
  ASSUME FilesInv, NEW t \in Calls, NEW first \in Pcs \ {"start"}, PrepareCall(t, first)
  PROVE  Moves(t)
  <1>1. at[t] = "start" /\ Costs /\ UNCHANGED <<fs, req, cut, proc, clock, made, raced>>
    BY DEF PrepareCall, Quiet, Costs
  <1>2. Goes(t)
    BY DEF PrepareCall, Goes
  <1>3. Keeps(t)
    BY LocalsAre, ResolvedCanonic DEF PrepareCall, Keeps, Keep, Others, LocalsOK, Locals
  <1>4. QED
    BY <1>1, <1>2, <1>3 DEF Moves

LEMMA PreparesSecondMove ==
  ASSUME FilesInv, NEW t \in Calls, NEW next \in Pcs \ {"start"}, PrepareSecond(t, next)
  PROVE  Moves(t)
  <1>1. Costs /\ UNCHANGED <<fs, req, cut, proc, clock, made, raced>>
    BY DEF PrepareSecond, Quiet, Costs
  <1>2. Goes(t)
    BY DEF PrepareSecond, Goes
  <1>3. Keeps(t)
    BY LocalsAre DEF PrepareSecond, Keeps, Keep, Others, LocalsOK, Locals
  <1>4. QED
    BY <1>1, <1>2, <1>3 DEF Moves

\* The first step of each tool.
Begins(t) ==
  \/ Tool(t) \in {"ssh_edit", "ssh_patch"} /\ PrepareCall(t, "editStat")
  \/ Tool(t) = "ssh_sudo_edit" /\ PrepareCall(t, "sudoEditRead")
  \/ Tool(t) \in {"ssh_transfer", "ssh_cp", "ssh_mv"} /\ PrepareCall(t, "second")
  \/ Tool(t) = "ssh_transfer" /\ PrepareSecond(t, "sourceStat")
  \/ Tool(t) = "ssh_mkdir" /\ PrepareCall(t, IF Opt(t, "parents") THEN "parentStat" ELSE "mkdir")
  \/ Tool(t) = "ssh_delete" /\ PrepareCall(t, "deleteLook")
  \/ Tool(t) = "ssh_delete_folder" /\ PrepareCall(t, FolderStart(t))
  \/ Tool(t) \in {"ssh_cp", "ssh_mv"} /\ PrepareSecond(t, "sizeLook")
  \/ Tool(t) = "ssh_link" /\ PrepareCall(t, LinkStart(t))
  \/ Tool(t) \in Readers /\ ~Opt(t, "local") /\ PrepareCall(t, FirstRead(t))

LEMMA BeginsMove ==
  ASSUME FilesInv, NEW t \in Calls, Begins(t)
  PROVE  Moves(t)
  <1>1. (IF Opt(t, "parents") THEN "parentStat" ELSE "mkdir") \in Pcs \ {"start"}
        /\ {"editStat", "sudoEditRead", "second", "sourceStat", "deleteLook", "sizeLook"} \subseteq Pcs \ {"start"}
    BY DEF Pcs
  <1>2. FolderStart(t) \in Pcs \ {"start"}
    BY DEF FolderStart, Pcs
  <1>3. LinkStart(t) \in Pcs \ {"start"}
    BY DEF LinkStart, Pcs
  <1>4. Tool(t) \in Readers => FirstRead(t) \in Pcs \ {"start"}
    BY DEF FirstRead, Readers, Redacted, Pcs
  <1>5. QED
    BY <1>1, <1>2, <1>3, <1>4, PreparesMove, PreparesSecondMove DEF Begins

-----------------------------------------------------------------------------
(* Steps that start or move a remote process *)

LEMMA Positions ==
  ASSUME FilesInv, NEW t \in Calls
  PROVE  /\ at \in [Calls -> Pcs] /\ DOMAIN proc = Calls /\ DOMAIN made = Calls
         /\ at[t] = "start" => proc[t] = "none"
         /\ DOMAIN loc = Calls /\ DOMAIN loc[t] = Locals /\ Canonic(loc[t].path)
  BY DEF FilesInv, FilesTypeOK, LocalsOK

Launches(t) ==
  \/ SudoOwner(t) \/ SudoMode(t) \/ ScriptStepFails(t) \/ Recheck(t)
  \/ SizeLook(t) \/ RenameFallsBack(t) \/ LinkLook(t) \/ LocalFails(t)

LEMMA LaunchesEffect ==
  ASSUME FilesInv, NEW t \in Calls, Launches(t)
  PROVE  Effect(t)
  <1>1. CASE SudoOwner(t)
    <2>1. UNCHANGED <<fs, req, cut, clock, made, raced>> /\ Costs
      BY <1>1 DEF SudoOwner, Trouble, Costs
    <2>2. Stays(t) \/ Goes(t) \/ Ends(t)
      BY <1>1 DEF SudoOwner, Stays, Goes, Ends, Raise, Pcs, Outs
    <2>3. UNCHANGED loc \/ Keeps(t)
      BY <1>1, Positions DEF SudoOwner, Keeps, Keep, Others, LocalsOK, Locals
    <2>4. UNCHANGED proc \/ Runs(t)
      BY <1>1, Positions DEF SudoOwner, Runs, Others, Go, Raise, End
    <2>5. QED
      BY <2>1, <2>2, <2>3, <2>4, EffectIntro DEF TreesKept
  <1>2. CASE SudoMode(t)
    <2>1. UNCHANGED <<fs, req, cut, clock, made, raced>> /\ Costs
      BY <1>2 DEF SudoMode, Trouble, Costs
    <2>2. Stays(t) \/ Goes(t) \/ Ends(t)
      BY <1>2 DEF SudoMode, Stays, Goes, Ends, Raise, Pcs, Outs
    <2>3. UNCHANGED loc \/ Keeps(t)
      BY <1>2, Positions DEF SudoMode, Keeps, Keep, Others, LocalsOK, Locals
    <2>4. UNCHANGED proc \/ Runs(t)
      BY <1>2, Positions DEF SudoMode, Runs, Others, Go, Raise, End
    <2>5. QED
      BY <2>1, <2>2, <2>3, <2>4, EffectIntro DEF TreesKept
  <1>3. CASE ScriptStepFails(t)
    <2>1. UNCHANGED <<fs, req, cut, clock, made, raced>> /\ Costs
      BY <1>3 DEF ScriptStepFails, Trouble, Costs
    <2>2. Stays(t) \/ Goes(t) \/ Ends(t)
      BY <1>3 DEF ScriptStepFails, Stays, Goes, Ends, Raise, Pcs, Outs
    <2>3. UNCHANGED loc \/ Keeps(t)
      BY <1>3, Positions DEF ScriptStepFails, Keeps, Keep, Others, LocalsOK, Locals
    <2>4. UNCHANGED proc \/ Runs(t)
      <3>1. proc[t] # "none" /\ UNCHANGED at /\ proc' = [proc EXCEPT ![t] = "remove"]
        BY <1>3 DEF ScriptStepFails
      <3>2. QED
        BY <3>1, Positions DEF Runs, Others
    <2>5. QED
      BY <2>1, <2>2, <2>3, <2>4, EffectIntro DEF TreesKept
  <1>4. CASE Recheck(t)
    <2>1. UNCHANGED <<fs, req, cut, clock, made, raced>> /\ Costs
      BY <1>4 DEF Recheck, RunShell, Trouble, Costs
    <2>2. Stays(t) \/ Goes(t) \/ Ends(t)
      BY <1>4 DEF Recheck, RunShell, Stays, Goes, Ends, Raise, Pcs, Outs
    <2>3. UNCHANGED loc \/ Keeps(t)
      BY <1>4, Positions DEF Recheck, RunShell, Keeps, Keep, Others, LocalsOK, Locals
    <2>4. UNCHANGED proc \/ Runs(t)
      BY <1>4, Positions DEF Recheck, RunShell, Runs, Others, Go, Raise, End
    <2>5. QED
      BY <2>1, <2>2, <2>3, <2>4, EffectIntro DEF TreesKept
  <1>5. CASE SizeLook(t)
    <2>1. UNCHANGED <<fs, req, cut, clock, made, raced>> /\ Costs
      BY <1>5 DEF SizeLook, RunShell, Tried, Trouble, Costs
    <2>2. Stays(t) \/ Goes(t) \/ Ends(t)
      BY <1>5 DEF SizeLook, RunShell, Tried, Stays, Goes, Ends, Raise, Pcs, Outs
    <2>3. UNCHANGED loc \/ Keeps(t)
      BY <1>5, Positions DEF SizeLook, RunShell, Tried, Keeps, Keep, Others, LocalsOK, Locals
    <2>4. UNCHANGED proc \/ Runs(t)
      BY <1>5, Positions DEF SizeLook, RunShell, Tried, Runs, Others, Go, Raise, End
    <2>5. QED
      BY <2>1, <2>2, <2>3, <2>4, EffectIntro DEF TreesKept
  <1>6. CASE RenameFallsBack(t)
    <2>1. UNCHANGED <<fs, req, cut, clock, made, raced>> /\ Costs
      BY <1>6 DEF RenameFallsBack, RunShell, Trouble, Costs
    <2>2. Stays(t) \/ Goes(t) \/ Ends(t)
      BY <1>6 DEF RenameFallsBack, RunShell, Stays, Goes, Ends, Raise, Pcs, Outs
    <2>3. UNCHANGED loc \/ Keeps(t)
      BY <1>6, Positions DEF RenameFallsBack, RunShell, Keeps, Keep, Others, LocalsOK, Locals
    <2>4. UNCHANGED proc \/ Runs(t)
      <3>1. RunShell(t, "mv")
        BY <1>6 DEF RenameFallsBack
      <3>2. QED
        BY <3>1, Positions DEF RunShell, Runs, Others, Go
    <2>5. QED
      BY <2>1, <2>2, <2>3, <2>4, EffectIntro DEF TreesKept
  <1>7. CASE LinkLook(t)
    <2>1. UNCHANGED <<fs, req, cut, clock, made, raced>> /\ Costs
      BY <1>7 DEF LinkLook, RunShell, Trouble, Costs
    <2>2. Stays(t) \/ Goes(t) \/ Ends(t)
      BY <1>7 DEF LinkLook, RunShell, Stays, Goes, Ends, Raise, Pcs, Outs
    <2>3. UNCHANGED loc \/ Keeps(t)
      BY <1>7, Positions DEF LinkLook, RunShell, Keeps, Keep, Others, LocalsOK, Locals
    <2>4. UNCHANGED proc \/ Runs(t)
      <3>1. RunShell(t, "ln")
        BY <1>7 DEF LinkLook
      <3>2. QED
        BY <3>1, Positions DEF RunShell, Runs, Others, Go
    <2>5. QED
      BY <2>1, <2>2, <2>3, <2>4, EffectIntro DEF TreesKept
  <1>8. CASE LocalFails(t)
    <2>1. UNCHANGED <<fs, req, cut, clock, made, raced>> /\ Costs
      BY <1>8 DEF LocalFails, Trouble, Costs
    <2>2. Stays(t) \/ Goes(t) \/ Ends(t)
      BY <1>8 DEF LocalFails, Stays, Goes, Ends, Raise, Pcs, Outs
    <2>3. UNCHANGED loc \/ Keeps(t)
      BY <1>8, Positions DEF LocalFails, Keeps, Keep, Others, LocalsOK, Locals
    <2>4. UNCHANGED proc \/ Runs(t)
      BY <1>8, Positions DEF LocalFails, Runs, Others, Go, Raise, End
    <2>5. QED
      BY <2>1, <2>2, <2>3, <2>4, EffectIntro DEF TreesKept
  <1>9. QED
    BY <1>1, <1>2, <1>3, <1>4, <1>5, <1>6, <1>7, <1>8 DEF Launches

-----------------------------------------------------------------------------
(* Steps that change a tree *)

LEMMA AffectKeeps ==
  ASSUME FilesInv, NEW t \in Calls, NEW h, NEW tree, h \in DOMAIN fs => WellFormed(tree),
         Affect(t, h, tree)
  PROVE  TreesKept(t)
  BY DEF TreesKept

LEMMA TreesAre ==
  ASSUME FilesInv, NEW t \in Calls
  PROVE  /\ \A h \in DOMAIN fs : WellFormed(fs[h])
         /\ WellFormed(Here(t)) /\ IsPath(req[t].to)
         /\ WellFormed(ShellTree(On(t), Here(t)))
  BY ShellTreeWellFormed DEF FilesInv, FilesTypeOK, Here

Changes(t) ==
  \/ MoveToBackup(t) \/ OpenTmp(t) \/ ChmodTmp(t) \/ RenameTmp(t)
  \/ Mkdir(t) \/ ParentMake(t) \/ Delete(t) \/ Rmdir(t)
  \/ SweepEntry(t) \/ Rename(t) \/ Symlink(t) \/ HardLink(t)
  \/ LocalOpen(t) \/ LocalReplace(t)

LEMMA ChangesEffect ==
  ASSUME FilesInv, NEW t \in Calls, Changes(t)
  PROVE  Effect(t)
  <1>1. CASE MoveToBackup(t)
    <2>1. UNCHANGED <<req, cut, clock, proc>> /\ Costs
      BY <1>1 DEF MoveToBackup, Rest, Costs
    <2>2. TreesKept(t)
      <3>1. Affect(t, On(t), RenameTree(fs[On(t)], loc[t].path, Backup(t)))
        BY <1>1 DEF MoveToBackup, Change, Scratch
      <3>2. On(t) \in DOMAIN fs => WellFormed(RenameTree(fs[On(t)], loc[t].path, Backup(t)))
        BY <1>1, RenameWellFormed, TreesAre DEF MoveToBackup
      <3>3. QED
        BY <3>1, <3>2, AffectKeeps
    <2>3. Goes(t)
      BY <1>1 DEF MoveToBackup, Goes, FirstWrite, Pcs
    <2>4. UNCHANGED loc \/ Keeps(t)
      BY <1>1, Positions DEF MoveToBackup, Keeps, Keep, Others, LocalsOK, Locals
    <2>5. UNCHANGED made \/ Makes(t)
      BY <1>1 DEF MoveToBackup, Change, Scratch, Makes, Others, FilesInv, FilesTypeOK
    <2>6. QED
      BY <2>1, <2>2, <2>3, <2>4, <2>5, EffectIntro
  <1>2. CASE OpenTmp(t)
    <2>1. UNCHANGED <<req, cut, clock, proc>> /\ Costs
      BY <1>2 DEF OpenTmp, Rest, Costs
    <2>2. TreesKept(t)
      <3>1. Affect(t, Home(t), CreateTree(fs[Home(t)], Tmp(t), File(<<>>, "0644")))
        BY <1>2 DEF OpenTmp, Change, Scratch
      <3>2. Home(t) \in DOMAIN fs => WellFormed(CreateTree(fs[Home(t)], Tmp(t), File(<<>>, "0644")))
        BY <1>2, CreateWellFormed, TreesAre DEF OpenTmp
      <3>3. QED
        BY <3>1, <3>2, AffectKeeps
    <2>3. Goes(t)
      BY <1>2 DEF OpenTmp, Goes, FirstWrite, Pcs
    <2>4. UNCHANGED loc \/ Keeps(t)
      BY <1>2, Positions DEF OpenTmp, Keeps, Keep, Others, LocalsOK, Locals
    <2>5. UNCHANGED made \/ Makes(t)
      BY <1>2 DEF OpenTmp, Change, Scratch, Makes, Others, FilesInv, FilesTypeOK
    <2>6. QED
      BY <2>1, <2>2, <2>3, <2>4, <2>5, EffectIntro
  <1>3. CASE ChmodTmp(t)
    <2>1. UNCHANGED <<req, cut, clock, proc>> /\ Costs
      BY <1>3 DEF ChmodTmp, Rest, Costs
    <2>2. TreesKept(t)
      <3>1. Affect(t, Home(t), [fs[Home(t)] EXCEPT ![RealM(fs[Home(t)], Tmp(t))].mode = loc[t].mode])
        BY <1>3 DEF ChmodTmp, Change, Scratch
      <3>2. Home(t) \in DOMAIN fs =>
              WellFormed([fs[Home(t)] EXCEPT ![RealM(fs[Home(t)], Tmp(t))].mode = loc[t].mode])
        BY <1>3, RewriteWellFormed, TreesAre DEF ChmodTmp
      <3>3. QED
        BY <3>1, <3>2, AffectKeeps
    <2>3. Goes(t)
      BY <1>3 DEF ChmodTmp, Goes, FirstWrite, Pcs
    <2>4. UNCHANGED loc \/ Keeps(t)
      BY <1>3, Positions DEF ChmodTmp, Keeps, Keep, Others, LocalsOK, Locals
    <2>5. UNCHANGED made \/ Makes(t)
      BY <1>3 DEF ChmodTmp, Change, Scratch, Makes, Others, FilesInv, FilesTypeOK
    <2>6. QED
      BY <2>1, <2>2, <2>3, <2>4, <2>5, EffectIntro
  <1>4. CASE RenameTmp(t)
    <2>1. UNCHANGED <<req, cut, clock, proc>> /\ Costs
      BY <1>4 DEF RenameTmp, Rest, Costs
    <2>2. TreesKept(t)
      <3>1. Affect(t, Home(t), RenameTree(fs[Home(t)], Tmp(t), Final(t)))
        BY <1>4 DEF RenameTmp, Change, Scratch
      <3>2. Home(t) \in DOMAIN fs => WellFormed(RenameTree(fs[Home(t)], Tmp(t), Final(t)))
        BY <1>4, RenameWellFormed, TreesAre DEF RenameTmp
      <3>3. QED
        BY <3>1, <3>2, AffectKeeps
    <2>3. Goes(t)
      BY <1>4 DEF RenameTmp, Goes, FirstWrite, Pcs
    <2>4. UNCHANGED loc \/ Keeps(t)
      BY <1>4, Positions DEF RenameTmp, Keeps, Keep, Others, LocalsOK, Locals
    <2>5. UNCHANGED made \/ Makes(t)
      BY <1>4 DEF RenameTmp, Change, Scratch, Makes, Others, FilesInv, FilesTypeOK
    <2>6. QED
      BY <2>1, <2>2, <2>3, <2>4, <2>5, EffectIntro
  <1>5. CASE Mkdir(t)
    <2>1. UNCHANGED <<req, cut, clock, proc>> /\ Costs
      BY <1>5 DEF Mkdir, Request, Rest, Costs
    <2>2. TreesKept(t)
      <3>1. Affect(t, On(t), MkdirTree(Here(t), Path(t)))
        BY <1>5 DEF Mkdir, Request, Change, Scratch
      <3>2. On(t) \in DOMAIN fs => WellFormed(MkdirTree(Here(t), Path(t)))
        BY <1>5, MkdirWellFormed, TreesAre DEF Here, Mkdir, Request
      <3>3. QED
        BY <3>1, <3>2, AffectKeeps
    <2>3. Goes(t)
      BY <1>5 DEF Mkdir, Request, Goes, FirstWrite, Pcs
    <2>4. UNCHANGED loc \/ Keeps(t)
      BY <1>5, Positions DEF Mkdir, Request, Keeps, Keep, Others, LocalsOK, Locals
    <2>5. UNCHANGED made \/ Makes(t)
      BY <1>5 DEF Mkdir, Request, Change, Scratch, Makes, Others, FilesInv, FilesTypeOK
    <2>6. QED
      BY <2>1, <2>2, <2>3, <2>4, <2>5, EffectIntro
  <1>6. CASE ParentMake(t)
    <2>1. UNCHANGED <<req, cut, clock, proc>> /\ Costs
      BY <1>6 DEF ParentMake, Further, AfterPrefix, Rest, Costs
    <2>2. TreesKept(t)
      <3>1. Affect(t, On(t), MkdirTree(Here(t), Prefix(t)))
        BY <1>6 DEF ParentMake, Further, AfterPrefix, Change, Scratch
      <3>2. On(t) \in DOMAIN fs => WellFormed(MkdirTree(Here(t), Prefix(t)))
        BY <1>6, MkdirWellFormed, TreesAre DEF Here, ParentMake
      <3>3. QED
        BY <3>1, <3>2, AffectKeeps
    <2>3. Goes(t)
      BY <1>6 DEF ParentMake, Further, AfterPrefix, Goes, FirstWrite, Pcs
    <2>4. UNCHANGED loc \/ Keeps(t)
      BY <1>6, Positions DEF ParentMake, Further, AfterPrefix, Keeps, Keep, Others, LocalsOK, Locals
    <2>5. UNCHANGED made \/ Makes(t)
      BY <1>6 DEF ParentMake, Further, AfterPrefix, Change, Scratch, Makes, Others, FilesInv,
       FilesTypeOK
    <2>6. QED
      BY <2>1, <2>2, <2>3, <2>4, <2>5, EffectIntro
  <1>7. CASE Delete(t)
    <2>1. UNCHANGED <<req, cut, clock, proc>> /\ Costs
      BY <1>7 DEF Delete, Request, Rest, Costs
    <2>2. TreesKept(t)
      <3>1. Affect(t, On(t), RemoveTree(Here(t), Path(t)))
        BY <1>7 DEF Delete, Request, Change, Scratch
      <3>2. On(t) \in DOMAIN fs => WellFormed(RemoveTree(Here(t), Path(t)))
        BY <1>7, RemoveWellFormed, TreesAre DEF Here, Delete, Request
      <3>3. QED
        BY <3>1, <3>2, AffectKeeps
    <2>3. Goes(t)
      BY <1>7 DEF Delete, Request, Goes, FirstWrite, Pcs
    <2>4. UNCHANGED loc \/ Keeps(t)
      BY <1>7, Positions DEF Delete, Request, Keeps, Keep, Others, LocalsOK, Locals
    <2>5. UNCHANGED made \/ Makes(t)
      BY <1>7 DEF Delete, Request, Change, Scratch, Makes, Others, FilesInv, FilesTypeOK
    <2>6. QED
      BY <2>1, <2>2, <2>3, <2>4, <2>5, EffectIntro
  <1>8. CASE Rmdir(t)
    <2>1. UNCHANGED <<req, cut, clock, proc>> /\ Costs
      BY <1>8 DEF Rmdir, Request, Rest, Costs
    <2>2. TreesKept(t)
      <3>1. Affect(t, On(t), RemoveTree(Here(t), Path(t)))
        BY <1>8 DEF Rmdir, Request, Change, Scratch
      <3>2. On(t) \in DOMAIN fs => WellFormed(RemoveTree(Here(t), Path(t)))
        BY <1>8, RemoveWellFormed, TreesAre DEF Here, Rmdir, Request
      <3>3. QED
        BY <3>1, <3>2, AffectKeeps
    <2>3. Goes(t)
      BY <1>8 DEF Rmdir, Request, Goes, FirstWrite, Pcs
    <2>4. UNCHANGED loc \/ Keeps(t)
      BY <1>8, Positions DEF Rmdir, Request, Keeps, Keep, Others, LocalsOK, Locals
    <2>5. UNCHANGED made \/ Makes(t)
      BY <1>8 DEF Rmdir, Request, Change, Scratch, Makes, Others, FilesInv, FilesTypeOK
    <2>6. QED
      BY <2>1, <2>2, <2>3, <2>4, <2>5, EffectIntro
  <1>9. CASE SweepEntry(t)
    <2>1. UNCHANGED <<req, cut, clock, proc>> /\ Costs
      BY <1>9 DEF SweepEntry, Swept, Rest, Costs
    <2>2. TreesKept(t)
      <3>1. Affect(t, On(t), RemoveTree(Here(t), Entry(t)))
        BY <1>9 DEF SweepEntry, Swept, Change, Scratch
      <3>2. On(t) \in DOMAIN fs => WellFormed(RemoveTree(Here(t), Entry(t)))
        BY <1>9, RemoveWellFormed, TreesAre DEF Here, CanSweep, SweepEntry
      <3>3. QED
        BY <3>1, <3>2, AffectKeeps
    <2>3. Goes(t)
      BY <1>9 DEF SweepEntry, Swept, Goes, FirstWrite, Pcs
    <2>4. UNCHANGED loc \/ Keeps(t)
      BY <1>9, Positions DEF SweepEntry, Swept, Keeps, Keep, Others, LocalsOK, Locals
    <2>5. UNCHANGED made \/ Makes(t)
      BY <1>9 DEF SweepEntry, Swept, Change, Scratch, Makes, Others, FilesInv, FilesTypeOK
    <2>6. QED
      BY <2>1, <2>2, <2>3, <2>4, <2>5, EffectIntro
  <1>10. CASE Rename(t)
    <2>1. UNCHANGED <<req, cut, clock, proc>> /\ Costs
      BY <1>10 DEF Rename, Request, Rest, Costs
    <2>2. TreesKept(t)
      <3>1. Affect(t, On(t), RenameTree(Here(t), Path(t), loc[t].to))
        BY <1>10 DEF Rename, Request, Change, Scratch
      <3>2. On(t) \in DOMAIN fs => WellFormed(RenameTree(Here(t), Path(t), loc[t].to))
        BY <1>10, RenameWellFormed, TreesAre DEF Here, Rename, Request
      <3>3. QED
        BY <3>1, <3>2, AffectKeeps
    <2>3. Goes(t)
      BY <1>10 DEF Rename, Request, Goes, FirstWrite, Pcs
    <2>4. UNCHANGED loc \/ Keeps(t)
      BY <1>10, Positions DEF Rename, Request, Keeps, Keep, Others, LocalsOK, Locals
    <2>5. UNCHANGED made \/ Makes(t)
      BY <1>10 DEF Rename, Request, Change, Scratch, Makes, Others, FilesInv, FilesTypeOK
    <2>6. QED
      BY <2>1, <2>2, <2>3, <2>4, <2>5, EffectIntro
  <1>11. CASE Symlink(t)
    <2>1. UNCHANGED <<req, cut, clock, proc>> /\ Costs
      BY <1>11 DEF Symlink, Request, Rest, Costs
    <2>2. TreesKept(t)
      <3>1. Affect(t, On(t),
                   Put(Here(t), Place(Here(t), Path(t)), Link(~Opt(t, "relative"), req[t].to)))
        BY <1>11 DEF Symlink, Request, Change, Scratch
      <3>2. On(t) \in DOMAIN fs =>
              WellFormed(Put(Here(t), Place(Here(t), Path(t)), Link(~Opt(t, "relative"), req[t].to)))
        BY <1>11, LinkWellFormed, NodesAre, TreesAre DEF Here, CanSymlink, Symlink, Request
      <3>3. QED
        BY <3>1, <3>2, AffectKeeps
    <2>3. Goes(t)
      BY <1>11 DEF Symlink, Request, Goes, FirstWrite, Pcs
    <2>4. UNCHANGED loc \/ Keeps(t)
      BY <1>11, Positions DEF Symlink, Request, Keeps, Keep, Others, LocalsOK, Locals
    <2>5. UNCHANGED made \/ Makes(t)
      BY <1>11 DEF Symlink, Request, Change, Scratch, Makes, Others, FilesInv, FilesTypeOK
    <2>6. QED
      BY <2>1, <2>2, <2>3, <2>4, <2>5, EffectIntro
  <1>12. CASE HardLink(t)
    <2>1. UNCHANGED <<req, cut, clock, proc>> /\ Costs
      BY <1>12 DEF HardLink, Request, Rest, Costs
    <2>2. TreesKept(t)
      <3>1. Affect(t, On(t), Put(Here(t), Place(Here(t), Path(t)), Lstat(Here(t), loc[t].to)))
        BY <1>12 DEF HardLink, Request, Change, Scratch
      <3>2. On(t) \in DOMAIN fs =>
              WellFormed(Put(Here(t), Place(Here(t), Path(t)), Lstat(Here(t), loc[t].to)))
        BY <1>12, LinkWellFormed, TreePaths, TreesAre DEF Here, HardLinkOk, LstatOk, Lstat,
       HardLink, Request
      <3>3. QED
        BY <3>1, <3>2, AffectKeeps
    <2>3. Goes(t)
      BY <1>12 DEF HardLink, Request, Goes, FirstWrite, Pcs
    <2>4. UNCHANGED loc \/ Keeps(t)
      BY <1>12, Positions DEF HardLink, Request, Keeps, Keep, Others, LocalsOK, Locals
    <2>5. UNCHANGED made \/ Makes(t)
      BY <1>12 DEF HardLink, Request, Change, Scratch, Makes, Others, FilesInv, FilesTypeOK
    <2>6. QED
      BY <2>1, <2>2, <2>3, <2>4, <2>5, EffectIntro
  <1>13. CASE LocalOpen(t)
    <2>1. UNCHANGED <<req, cut, clock, proc>> /\ Costs
      BY <1>13 DEF LocalOpen, Rest, Costs
    <2>2. TreesKept(t)
      <3>1. Affect(t, Mcp, CreateTree(fs[Mcp], LocalTmp(t), File(<<>>, "0644")))
        BY <1>13 DEF LocalOpen, Change, Scratch
      <3>2. Mcp \in DOMAIN fs => WellFormed(CreateTree(fs[Mcp], LocalTmp(t), File(<<>>, "0644")))
        BY <1>13, CreateWellFormed, TreesAre DEF LocalOpen
      <3>3. QED
        BY <3>1, <3>2, AffectKeeps
    <2>3. Goes(t)
      BY <1>13 DEF LocalOpen, Goes, FirstWrite, Pcs
    <2>4. UNCHANGED loc \/ Keeps(t)
      BY <1>13, Positions DEF LocalOpen, Keeps, Keep, Others, LocalsOK, Locals
    <2>5. UNCHANGED made \/ Makes(t)
      BY <1>13 DEF LocalOpen, Change, Scratch, Makes, Others, FilesInv, FilesTypeOK
    <2>6. QED
      BY <2>1, <2>2, <2>3, <2>4, <2>5, EffectIntro
  <1>14. CASE LocalReplace(t)
    <2>1. UNCHANGED <<req, cut, clock, proc>> /\ Costs
      BY <1>14 DEF LocalReplace, Replace, Rest, Costs
    <2>2. TreesKept(t)
      <3>1. Affect(t, Mcp, RenameTree(fs[Mcp], LocalTmp(t), loc[t].to))
        BY <1>14 DEF LocalReplace, Replace, Change, Scratch
      <3>2. Mcp \in DOMAIN fs => WellFormed(RenameTree(fs[Mcp], LocalTmp(t), loc[t].to))
        BY <1>14, RenameWellFormed, TreesAre DEF CanReplace, LocalReplace
      <3>3. QED
        BY <3>1, <3>2, AffectKeeps
    <2>3. Goes(t)
      BY <1>14 DEF LocalReplace, Replace, Goes, FirstWrite, Pcs
    <2>4. UNCHANGED loc \/ Keeps(t)
      BY <1>14, Positions DEF LocalReplace, Replace, Keeps, Keep, Others, LocalsOK, Locals
    <2>5. UNCHANGED made \/ Makes(t)
      BY <1>14 DEF LocalReplace, Replace, Change, Scratch, Makes, Others, FilesInv, FilesTypeOK
    <2>6. QED
      BY <2>1, <2>2, <2>3, <2>4, <2>5, EffectIntro
  <1>15. QED
    BY <1>1, <1>2, <1>3, <1>4, <1>5, <1>6, <1>7, <1>8, <1>9, <1>10, <1>11, <1>12, <1>13, <1>14 DEF Changes

\* The steps that may or may not change it.
LEMMA WriteTmpEffect ==
  ASSUME FilesInv, NEW t \in Calls, WriteTmp(t)
  PROVE  Effect(t)
  <1>1. UNCHANGED <<req, cut, clock, proc, loc, made>> /\ Costs
    BY DEF WriteTmp, Scratch, Rest, Costs
  <1>2. TreesKept(t)
    <2>1. PICK places, x : Affect(t, Home(t), Grow(fs[Home(t)], places, x))
      BY DEF WriteTmp, Scratch
    <2>2. Home(t) \in DOMAIN fs => WellFormed(Grow(fs[Home(t)], places, x))
      BY GrowWellFormed, TreesAre
    <2>3. QED
      BY <2>1, <2>2, AffectKeeps
  <1>3. Goes(t)
    BY DEF WriteTmp, Goes, Pcs
  <1>4. QED
    BY <1>1, <1>2, <1>3, EffectIntro

LEMMA SweepTmpEffect ==
  ASSUME FilesInv, NEW t \in Calls, SweepTmp(t)
  PROVE  Effect(t)
  <1>1. UNCHANGED <<req, cut, clock, proc, loc, made>> /\ Costs
    BY DEF SweepTmp, Scratch, Rest, Costs
  <1>2. TreesKept(t)
    <2>1. CASE CanRemove(fs[Home(t)], Tmp(t))
      <3>1. Affect(t, Home(t), RemoveTree(fs[Home(t)], Tmp(t)))
        BY <2>1 DEF SweepTmp, Scratch
      <3>2. Home(t) \in DOMAIN fs => WellFormed(RemoveTree(fs[Home(t)], Tmp(t)))
        BY <2>1, RemoveWellFormed, TreesAre
      <3>3. QED
        BY <3>1, <3>2, AffectKeeps
    <2>2. CASE ~CanRemove(fs[Home(t)], Tmp(t))
      BY <2>2 DEF SweepTmp, TreesKept
    <2>3. QED
      BY <2>1, <2>2
  <1>3. Ends(t)
    BY DEF SweepTmp, Raise, Ends, Outs
  <1>4. QED
    BY <1>1, <1>2, <1>3, EffectIntro

LEMMA LocalOpenCancelledEffect ==
  ASSUME FilesInv, NEW t \in Calls, LocalOpenCancelled(t)
  PROVE  Effect(t)
  <1>1. UNCHANGED <<req, cut, clock, proc, loc, made>> /\ Costs
    BY DEF LocalOpenCancelled, Scratch, Costs
  <1>2. TreesKept(t)
    <2>1. ASSUME CanCreate(fs[Mcp], LocalTmp(t)),
                 Affect(t, Mcp, CreateTree(fs[Mcp], LocalTmp(t), File(<<>>, "0644")))
          PROVE  TreesKept(t)
      <3>1. Mcp \in DOMAIN fs => WellFormed(CreateTree(fs[Mcp], LocalTmp(t), File(<<>>, "0644")))
        BY <2>1, CreateWellFormed, TreesAre
      <3>2. QED
        BY <2>1, <3>1, AffectKeeps
    <2>2. QED
      BY <2>1 DEF LocalOpenCancelled, Scratch, TreesKept
  <1>3. Ends(t)
    BY DEF LocalOpenCancelled, Ends, Outs
  <1>4. QED
    BY <1>1, <1>2, <1>3, EffectIntro

LEMMA LocalCopyEffect ==
  ASSUME FilesInv, NEW t \in Calls, LocalCopy(t)
  PROVE  Effect(t)
  <1>1. UNCHANGED <<req, cut, clock, proc, made>> /\ Costs
    BY DEF LocalCopy, Scratch, Rest, Costs
  <1>2. TreesKept(t)
    <2>1. PICK places, x : Affect(t, Mcp, Grow(fs[Mcp], places, x))
      BY DEF LocalCopy, Scratch
    <2>2. Mcp \in DOMAIN fs => WellFormed(Grow(fs[Mcp], places, x))
      BY GrowWellFormed, TreesAre
    <2>3. QED
      BY <2>1, <2>2, AffectKeeps
  <1>3. Goes(t)
    BY DEF LocalCopy, Goes, Pcs
  <1>4. Keeps(t)
    BY Positions DEF LocalCopy, Keeps, Keep, Others, LocalsOK, Locals
  <1>5. QED
    BY <1>1, <1>2, <1>3, <1>4, EffectIntro

LEMMA LocalSweepEffect ==
  ASSUME FilesInv, NEW t \in Calls, LocalSweep(t)
  PROVE  Effect(t)
  <1>1. UNCHANGED <<req, cut, clock, proc, loc, made>> /\ Costs
    BY DEF LocalSweep, Scratch, Rest, Costs
  <1>2. TreesKept(t)
    <2>1. CASE CanRemove(fs[Mcp], LocalTmp(t))
      <3>1. Affect(t, Mcp, RemoveTree(fs[Mcp], LocalTmp(t)))
        BY <2>1 DEF LocalSweep, Scratch
      <3>2. Mcp \in DOMAIN fs => WellFormed(RemoveTree(fs[Mcp], LocalTmp(t)))
        BY <2>1, RemoveWellFormed, TreesAre
      <3>3. QED
        BY <3>1, <3>2, AffectKeeps
    <2>2. CASE ~CanRemove(fs[Mcp], LocalTmp(t))
      BY <2>2 DEF LocalSweep, TreesKept
    <2>3. QED
      BY <2>1, <2>2
  <1>3. Ends(t)
    BY DEF LocalSweep, Raise, Ends, Outs
  <1>4. QED
    BY <1>1, <1>2, <1>3, EffectIntro

LEMMA ReplacingThreadEffect ==
  ASSUME FilesInv, NEW t \in Calls, ReplacingThread(t)
  PROVE  Effect(t)
  <1>1. UNCHANGED <<req, cut, clock, loc, at, out>> /\ Costs
    BY DEF ReplacingThread, Costs
  <1>2. TreesKept(t) /\ (UNCHANGED made \/ Makes(t))
    <2>1. CASE CanReplace(t)
      <3>1. Affect(t, Mcp, RenameTree(fs[Mcp], LocalTmp(t), loc[t].to))
        BY <2>1 DEF ReplacingThread, Replace, Change
      <3>2. Mcp \in DOMAIN fs => WellFormed(RenameTree(fs[Mcp], LocalTmp(t), loc[t].to))
        BY <2>1, RenameWellFormed, TreesAre DEF CanReplace
      <3>3. Makes(t)
        BY <2>1 DEF ReplacingThread, Replace, Change, Makes, Others, FilesInv, FilesTypeOK
      <3>4. QED
        BY <3>1, <3>2, <3>3, AffectKeeps
    <2>2. CASE ~CanReplace(t)
      BY <2>2 DEF ReplacingThread, TreesKept
    <2>3. QED
      BY <2>1, <2>2
  <1>3. Runs(t)
    BY Positions DEF ReplacingThread, Runs, Others
  <1>4. QED
    BY <1>1, <1>2, <1>3, EffectIntro DEF Stays

\* A step of a remote process: what it does to the tree of the host, and where
\* it goes on.
Works(t) ==
  /\ \/ UNCHANGED <<fs, made, raced>>
     \/ \E tree : Affect(t, On(t), tree) /\ WellFormed(tree) /\ (UNCHANGED made \/ Makes(t))
  /\ \E p : proc[t] # "none" /\ proc' = [proc EXCEPT ![t] = p] /\ (p = "removing" => loc[t].path # <<>>)
LEMMA WorksEffect ==
  ASSUME FilesInv, NEW t \in Calls, Works(t), UNCHANGED <<req, at, out, cut, clock, faults>>,
         UNCHANGED loc \/ Keeps(t)
  PROVE  Effect(t)
  <1>1. TreesKept(t) /\ (UNCHANGED made \/ Makes(t))
    BY DEF Works, TreesKept
  <1>2. Runs(t)
    BY Positions DEF Works, Runs, Others
  <1>3. QED
    BY <1>1, <1>2, EffectIntro DEF Stays, Costs

LEMMA MadeKept ==
  ASSUME FilesInv, NEW t \in Calls
  PROVE  /\ \A h, tree : Change(t, h, tree) => Affect(t, h, tree) /\ Makes(t)
         /\ \A h, tree : Scratch(t, h, tree) => Affect(t, h, tree) /\ UNCHANGED made
         /\ \A m \in {"no", "part", "whole"} : made' = [made EXCEPT ![t] = m] => Makes(t)
  BY DEF Change, Scratch, Makes, Others, FilesInv, FilesTypeOK

LEMMA ScriptStepEffect ==
  ASSUME FilesInv, NEW t \in Calls, ScriptStep(t)
  PROVE  Effect(t)
  <1> DEFINE tree == fs[On(t)]
             tmp == TmpOf(t, loc[t].path)
  <1>0. WellFormed(tree)
    BY TreesAre DEF Here
  <1>1. proc[t] \in {"mktemp", "cat", "chmod", "move", "remove"}
        /\ \E p \in {"cat", "chmod", "move", "remove", "ok", "failed"} : proc' = [proc EXCEPT ![t] = p]
    BY DEF ScriptStep
  <1>2. UNCHANGED <<fs, made, raced>> \/ \E T : Affect(t, On(t), T) /\ WellFormed(T) /\ (UNCHANGED made \/ Makes(t))
    <2>1. CASE proc[t] = "mktemp"
      <3>1. CanCreate(tree, tmp) => WellFormed(CreateTree(tree, tmp, File(<<>>, "0600")))
        BY <1>0, CreateWellFormed
      <3>2. \/ UNCHANGED <<fs, made, raced>>
            \/ CanCreate(tree, tmp) /\ Scratch(t, On(t), CreateTree(tree, tmp, File(<<>>, "0600")))
        BY <2>1 DEF ScriptStep
      <3>3. QED
        BY <3>1, <3>2, MadeKept
    <2>2. CASE proc[t] = "cat"
      <3>1. \E places, x : Scratch(t, On(t), Grow(tree, places, x))
        BY <2>2 DEF ScriptStep
      <3>2. \A places, x : WellFormed(Grow(tree, places, x))
        BY <1>0, GrowWellFormed
      <3>3. QED
        BY <3>1, <3>2, MadeKept
    <2>3. CASE proc[t] = "chmod"
      <3>1. WellFormed([tree EXCEPT ![RealM(tree, tmp)].mode = loc[t].mode])
        BY <1>0, RewriteWellFormed
      <3>2. \/ UNCHANGED <<fs, made, raced>>
            \/ Scratch(t, On(t), [tree EXCEPT ![RealM(tree, tmp)].mode = loc[t].mode])
        BY <2>3 DEF ScriptStep
      <3>3. QED
        BY <3>1, <3>2, MadeKept
    <2>4. CASE proc[t] = "move"
      <3>1. CanMv(tree, tmp, loc[t].path) => WellFormed(MvTree(tree, tmp, loc[t].path))
        BY <1>0, MvWellFormed
      <3>2. \/ UNCHANGED <<fs, made, raced>>
            \/ /\ CanMv(tree, tmp, loc[t].path) /\ Affect(t, On(t), MvTree(tree, tmp, loc[t].path))
               /\ made' = [made EXCEPT ![t] = IF Lstat(tree, tmp).text = Text(t) THEN "whole" ELSE "part"]
        BY <2>4 DEF ScriptStep
      <3>3. QED
        BY <3>1, <3>2, MadeKept
    <2>5. CASE proc[t] = "remove"
      <3>1. CanRemove(tree, tmp) => WellFormed(RemoveTree(tree, tmp))
        BY <1>0, RemoveWellFormed
      <3>2. \/ UNCHANGED <<fs, made, raced>>
            \/ CanRemove(tree, tmp) /\ Scratch(t, On(t), RemoveTree(tree, tmp))
        BY <2>5 DEF ScriptStep
      <3>3. QED
        BY <3>1, <3>2, MadeKept
    <2>6. QED
      BY <1>1, <2>1, <2>2, <2>3, <2>4, <2>5
  <1>3. Works(t)
    BY <1>1, <1>2 DEF Works
  <1>4. QED
    BY <1>3, WorksEffect DEF ScriptStep

LEMMA RmStepEffect ==
  ASSUME FilesInv, NEW t \in Calls, RmStep(t)
  PROVE  Effect(t)
  <1> DEFINE tree == ShellTree(On(t), Here(t))
             below == Under(tree, Path(t))
  <1>0. WellFormed(tree) /\ (proc[t] = "removing" => Path(t) # <<>>) /\ IsPath(Path(t))
    BY TreesAre, Positions DEF FilesInv, Path, Canonic
  <1>1. UNCHANGED loc \/ Keeps(t)
    BY Positions DEF RmStep, Keeps, Keep, Others, LocalsOK, Locals
  <1>2. \E p : proc[t] # "none" /\ proc' = [proc EXCEPT ![t] = p] /\ (p = "removing" => loc[t].path # <<>>)
    <2>1. proc[t] \in {"rm", "removing"} /\ \E p \in {"ok", "failed", "removing"} : proc' = [proc EXCEPT ![t] = p]
      BY DEF RmStep, Becomes
    <2>2. CASE proc' = [proc EXCEPT ![t] = "removing"] /\ Path(t) # <<>>
      BY <2>1, <2>2 DEF Path
    <2>3. CASE \E p \in {"ok", "failed"} : proc' = [proc EXCEPT ![t] = p]
      BY <2>1, <2>3
    <2>4. CASE Path(t) = <<>>
      <3>1. \E p \in {"ok", "failed"} : proc' = [proc EXCEPT ![t] = p]
        BY <1>0, <2>4 DEF RmStep, Becomes
      <3>2. QED
        BY <2>3, <3>1
    <2>5. QED
      BY <2>1, <2>2, <2>3, <2>4
  <1>3. UNCHANGED <<fs, made, raced>> \/ \E T : Affect(t, On(t), T) /\ WellFormed(T) /\ (UNCHANGED made \/ Makes(t))
    <2>1. ASSUME NEW q \in loc[t].seen \cap below, proc[t] = "removing",
                 Change(t, On(t), Without(tree, q))
          PROVE  \E T : Affect(t, On(t), T) /\ WellFormed(T) /\ (UNCHANGED made \/ Makes(t))
      <3>1. IsPath(q) /\ q # <<>>
        <4>1. q \in DOMAIN tree /\ IsPrefix(Path(t), q)
          BY DEF Under
        <4>2. IsPath(q)
          BY <1>0, <4>1, TreePaths
        <4>3. Len(Path(t)) <= Len(q) /\ Len(Path(t)) \in Nat /\ Len(Path(t)) # 0
          BY <1>0, <2>1, <4>1, <4>2, PathPrefix, PathDef
        <4>4. QED
          BY <4>2, <4>3, EmptyCanonic
      <3>2. WellFormed(Without(tree, q))
        BY <1>0, <3>1, WithoutWellFormed
      <3>3. QED
        BY <2>1, <3>2, MadeKept
    <2>2. QED
      BY <2>1 DEF RmStep, Unmoved
  <1>4. Works(t)
    BY <1>2, <1>3 DEF Works
  <1>5. QED
    BY <1>1, <1>4, WorksEffect DEF RmStep

LEMMA CpStepEffect ==
  ASSUME FilesInv, NEW t \in Calls, CpStep(t)
  PROVE  Effect(t)
  <1> DEFINE tree == ShellTree(On(t), Here(t))
             src == Path(t)
             dst == loc[t].to
             there == Target(tree, src, dst)
  <1>0. WellFormed(tree)
    BY TreesAre
  <1>1. proc[t] \in {"cp", "fill"} /\ \E p \in {"ok", "failed", "fill"} : proc' = [proc EXCEPT ![t] = p]
    BY DEF CpStep, Becomes
  <1>2. \/ UNCHANGED <<fs, made, raced>>
        \/ \E m \in {"part", "whole"} :
             /\ made' = [made EXCEPT ![t] = m]
             /\ \/ /\ CanCreate(tree, there)
                   /\ Affect(t, On(t), CreateTree(tree, there, File(<<>>, Lstat(tree, src).mode)))
                \/ CanCp(tree, src, dst) /\ Affect(t, On(t), CpTree(tree, src, dst))
                \/ \E q, x : Affect(t, On(t), [tree EXCEPT ![q].text = x])
    BY DEF CpStep, Change, Unmoved
  <1>3. /\ CanCreate(tree, there) => WellFormed(CreateTree(tree, there, File(<<>>, Lstat(tree, src).mode)))
        /\ CanCp(tree, src, dst) => WellFormed(CpTree(tree, src, dst))
        /\ \A q, x : WellFormed([tree EXCEPT ![q].text = x])
    BY <1>0, CreateWellFormed, CpWellFormed, RewriteWellFormed
  <1>4. UNCHANGED <<fs, made, raced>> \/ \E T : Affect(t, On(t), T) /\ WellFormed(T) /\ (UNCHANGED made \/ Makes(t))
    BY <1>2, <1>3, MadeKept
  <1>5. Works(t)
    BY <1>1, <1>4 DEF Works
  <1>6. QED
    BY <1>5, WorksEffect DEF CpStep, Stepped

LEMMA MvStepEffect ==
  ASSUME FilesInv, NEW t \in Calls, MvStep(t)
  PROVE  Effect(t)
  <1> DEFINE tree == ShellTree(On(t), Here(t))
             src == Path(t)
             dst == loc[t].to
             there == Target(tree, src, dst)
  <1>0. WellFormed(tree)
    BY TreesAre
  <1>1. proc[t] \in {"mv", "unlink"} /\ \E p \in {"ok", "failed", "unlink"} : proc' = [proc EXCEPT ![t] = p]
    BY DEF MvStep, Becomes
  <1>2. \/ UNCHANGED <<fs, made, raced>>
        \/ \E m \in {"part", "whole"} :
             /\ made' = [made EXCEPT ![t] = m]
             /\ \/ CanMv(tree, src, dst) /\ Affect(t, On(t), MvTree(tree, src, dst))
                \/ /\ CanMv(tree, src, dst)
                   /\ Affect(t, On(t), CopyTree(Without(tree, there), Place(tree, src), there))
                \/ /\ Place(tree, src) \in DOMAIN tree \ {<<>>}
                   /\ Affect(t, On(t), Without(tree, Place(tree, src)))
    BY DEF MvStep, Change, Unmoved
  <1>3. CanMv(tree, src, dst) => /\ WellFormed(MvTree(tree, src, dst))
                                 /\ WellFormed(CopyTree(Without(tree, there), Place(tree, src), there))
    BY <1>0, MvWellFormed
  <1>4. Place(tree, src) \in DOMAIN tree \ {<<>>} => WellFormed(Without(tree, Place(tree, src)))
    BY <1>0, WithoutWellFormed, TreePaths
  <1>5. UNCHANGED <<fs, made, raced>> \/ \E T : Affect(t, On(t), T) /\ WellFormed(T) /\ (UNCHANGED made \/ Makes(t))
    BY <1>2, <1>3, <1>4, MadeKept
  <1>6. Works(t)
    BY <1>1, <1>5 DEF Works
  <1>7. QED
    BY <1>6, WorksEffect DEF MvStep, Stepped

LEMMA LnStepEffect ==
  ASSUME FilesInv, NEW t \in Calls, LnStep(t)
  PROVE  Effect(t)
  <1> DEFINE tree == ShellTree(On(t), Here(t))
             there == Target(tree, loc[t].to, Path(t))
  <1>0. WellFormed(tree)
    BY TreesAre
  <1>1. proc[t] = "ln" /\ \E p \in {"ok", "failed"} : proc' = [proc EXCEPT ![t] = p]
    BY DEF LnStep, Becomes
  <1>2. \/ UNCHANGED <<fs, made, raced>>
        \/ /\ HardLinkOk(t, tree) /\ there \notin DOMAIN tree \cup {Nowhere} /\ IsDir(tree, Front(there))
           /\ Change(t, On(t), Put(tree, there, Lstat(tree, loc[t].to)))
    BY DEF LnStep, Unmoved
  <1>3. ASSUME HardLinkOk(t, tree), there \notin DOMAIN tree \cup {Nowhere}, IsDir(tree, Front(there))
        PROVE  WellFormed(Put(tree, there, Lstat(tree, loc[t].to)))
    <2>1. IsPath(there) /\ there # Nowhere /\ ~IsDir(tree, there)
      BY <1>3, TargetIsPath DEF IsDir
    <2>2. there # <<>>
      BY <1>0, <1>3 DEF WellFormed, IsDir
    <2>3. IsNode(Lstat(tree, loc[t].to))
      BY <1>0, <1>3, TreePaths DEF HardLinkOk, LstatOk, Lstat
    <2>4. QED
      BY <1>0, <1>3, <2>1, <2>2, <2>3, PutWellFormed
  <1>4. UNCHANGED <<fs, made, raced>> \/ \E T : Affect(t, On(t), T) /\ WellFormed(T) /\ (UNCHANGED made \/ Makes(t))
    BY <1>2, <1>3, MadeKept
  <1>5. Works(t)
    BY <1>1, <1>4 DEF Works
  <1>6. QED
    BY <1>5, WorksEffect DEF LnStep, Stepped

-----------------------------------------------------------------------------
(* Every step, and what is always so *)

LEMMA StepEffect ==
  ASSUME FilesInv, NEW t \in Calls, Step(t)
  PROVE  Effect(t)
  <1>1. CASE Failures(t) \/ WriteMoves(t) \/ TreeMoves(t) \/ ReadMoves(t) \/ Begins(t)
    BY <1>1, FailuresMove, WriteMovesMove, TreeMovesMove, ReadMovesMove, BeginsMove, MovesEffect
  <1>2. CASE Launches(t) \/ Changes(t)
    BY <1>2, LaunchesEffect, ChangesEffect
  <1>3. CASE WriteTmp(t) \/ SweepTmp(t) \/ ScriptStep(t)
    BY <1>3, WriteTmpEffect, SweepTmpEffect, ScriptStepEffect
  <1>4. CASE RmStep(t) \/ CpStep(t) \/ MvStep(t) \/ LnStep(t)
    BY <1>4, RmStepEffect, CpStepEffect, MvStepEffect, LnStepEffect
  <1>5. CASE LocalOpenCancelled(t) \/ LocalCopy(t) \/ LocalSweep(t) \/ ReplacingThread(t)
    BY <1>5, LocalOpenCancelledEffect, LocalCopyEffect, LocalSweepEffect, ReplacingThreadEffect
  <1>6. CASE WriteStep(t)
    BY <1>1, <1>2, <1>3, <1>6
       DEF WriteStep, Failures, WriteMoves, Begins, Launches, Changes
  <1>7. CASE TreeStep(t)
    BY <1>1, <1>2, <1>4, <1>7
       DEF TreeStep, Failures, TreeMoves, Begins, Launches, Changes
  <1>8. CASE ReadStep(t)
    BY <1>1, <1>2, <1>5, <1>8
       DEF ReadStep, Failures, ReadMoves, Begins, Launches, Changes
  <1>9. CASE PrepareFails(t) \/ Returns(t)
    BY <1>1, <1>9 DEF Failures, ReadMoves
  <1>10. QED
    BY <1>6, <1>7, <1>8, <1>9 DEF Step

\* The environment: a connection is lost, a call cancelled.
LEMMA EnvironmentEffect ==
  ASSUME FilesInv, NEW t \in Calls, LoseConnection(t) \/ Cancel(t)
  PROVE  Effect(t)
  <1>1. CASE Cancel(t)
    <2>1. UNCHANGED <<fs, req, loc, cut, proc, clock, made, raced>> /\ Costs
      BY <1>1 DEF Cancel, Costs
    <2>2. Ends(t)
      BY <1>1 DEF Cancel, Ends, Outs
    <2>3. QED
      BY <2>1, <2>2, EffectIntro DEF TreesKept
  <1>2. CASE LoseConnection(t)
    <2>1. /\ UNCHANGED <<fs, req, at, loc, out, proc, clock, made, raced>> /\ cut' = cut \cup {t}
          /\ faults < MaxFaults /\ faults' = faults + 1
      BY <1>2 DEF LoseConnection
    <2>2. faults' \in 0..MaxFaults /\ faults <= faults' /\ faults' > 0
      BY <2>1, CallsAssumption DEF FilesInv, FilesTypeOK
    <2>3. Others(at, t) /\ Others(out, t) /\ Others(made, t) /\ Others(loc, t) /\ Others(proc, t)
      BY <2>1 DEF Others
    <2>4. QED
      BY <2>1, <2>2, <2>3 DEF Effect, TreesKept, FilesInv, FilesTypeOK, Outs
  <1>3. QED
    BY <1>1, <1>2

LEMMA FilesInit ==
  ASSUME CallsInit
  PROVE  FilesInv
  <1>1. PICK s \in Scenarios : fs = s.fs /\ req = s.req /\ faults = s.faults
                               /\ at = [t \in Calls |-> IF s.req[t].tool = "none" THEN "done" ELSE "start"]
    BY DEF CallsInit
  <1>2. /\ \A h \in DOMAIN fs : WellFormed(fs[h])
        /\ \A t \in Calls : IsPath(req[t].path) /\ IsPath(req[t].to) /\ On(t) \in DOMAIN fs
        /\ faults \in 0..MaxFaults
    <2>1. \A h \in DOMAIN s.fs : WellFormed(s.fs[h])
      BY ScenariosAssumption
    <2>2. \A t \in Calls : IsPath(s.req[t].path) /\ IsPath(s.req[t].to) /\ s.req[t].host \in DOMAIN s.fs
      BY ScenariosAssumption
    <2>3. s.faults \in 0..MaxFaults
      BY ScenariosAssumption
    <2>4. QED
      BY <1>1, <2>1, <2>2, <2>3 DEF On
  <1>3. at \in [Calls -> Pcs]
    BY <1>1 DEF Pcs
  <1>4. LocalsOK(NoLocals)
    BY EmptyCanonic DEF LocalsOK, NoLocals, Locals
  <1>5. FilesTypeOK
    BY <1>2, <1>3, CallsAssumption DEF CallsInit, FilesTypeOK
  <1>6. QED
    BY <1>2, <1>4, <1>5 DEF CallsInit, FilesInv

LEMMA FilesNext ==
  ASSUME FilesInv, [Next]_callVars
  PROVE  FilesInv'
  <1>1. ASSUME NEW t \in Calls, Step(t) \/ LoseConnection(t) \/ Cancel(t)
        PROVE  FilesInv'
    BY <1>1, StepEffect, EnvironmentEffect, EffectKeeps
  <1>2. CASE Tick
    <2>1. UNCHANGED <<fs, req, at, loc, out, cut, proc, faults, made, raced>> /\ clock' \in 0..MaxClock
      BY <1>2, CallsAssumption DEF Tick, FilesInv, FilesTypeOK
    <2>2. FilesTypeOK'
      BY <2>1 DEF FilesInv, FilesTypeOK
    <2>3. QED
      BY <2>1, <2>2 DEF FilesInv, On
  <1>3. CASE UNCHANGED callVars
    BY <1>3 DEF callVars, FilesInv, FilesTypeOK, On
  <1>4. QED
    BY <1>1, <1>2, <1>3 DEF Next, Over

\* However calls of the file tools interleave on whatever trees, every call is at
\* one of its awaits and has answered only if it is done, the faults and the
\* clock stay in their bounds, and no request, script or `rm`, `cp`, `mv` and
\* `ln` leaves a name without its directory.
THEOREM FilesTypeCorrect == Spec => []FilesTypeOK
  <1>1. CallsInit => FilesInv
    BY FilesInit
  <1>2. FilesInv /\ [Next]_callVars => FilesInv'
    BY FilesNext
  <1>3. FilesInv => FilesTypeOK
    BY DEF FilesInv
  <1>4. QED
    BY <1>1, <1>2, <1>3, PTL DEF Spec

-----------------------------------------------------------------------------
(* Which steps a call can take where it is *)

WritePcs == {"oldStat", "backup", "editStat", "editRead", "sudoEditRead", "sourceStat", "targetStat",
             "openSource", "open", "write", "chmod", "rename", "sweep", "owner", "mode", "pipe"}
ScriptProcs == {"mktemp", "cat", "chmod", "move", "remove"}
Writing == Uploads \cup Edits \cup {"ssh_sudo_write", "ssh_transfer"}
OtherTreePcs == {"mkdir", "parentStat", "parentMake", "deleteLook", "delete", "sizeLook", "posixRename",
                 "symlink", "linkSource", "linkDir", "linkLook", "link"}
OtherTreeProcs == {"cp", "fill", "mv", "unlink", "ln"}
OtherTreeTools == {"ssh_mkdir", "ssh_delete", "ssh_cp", "ssh_mv", "ssh_link"}
FolderStep(t) ==
  \/ Tool(t) = "ssh_delete_folder" /\ PrepareCall(t, FolderStart(t))
  \/ Rmdir(t) \/ RmdirFails(t) \/ WalkFolder(t) \/ WalkSkips(t) \/ WalkFails(t)
  \/ Recheck(t) \/ RecheckFails(t) \/ SweepEntry(t) \/ SweepEntrySkips(t) \/ SweepEntryFails(t)
  \/ RmStep(t) \/ ShellReturns(t) \/ ShellFails(t)
ReadPcs == {"list", "entry", "entryLink", "stat", "readlink", "sudoLs", "find", "findWalk", "hash",
            "hashSize", "downloadStat", "readAll", "sudoCat", "localOpen", "localRead", "localCopy",
            "localReplace", "localSweep"}

LEMMA WriteStepsAt ==
  ASSUME NEW t, WriteStep(t)
  PROVE  \/ at[t] \in {"start", "second"} /\ Tool(t) \in Writing
         \/ at[t] \in WritePcs \/ proc[t] \in ScriptProcs
  <1>1. CASE StartUpload(t) \/ PayloadRefused(t) \/ OldStat(t) \/ OldStatFails(t)
    BY <1>1 DEF StartUpload, PayloadRefused, OldStat, OldStatFails, RaiseAt, IgnoreAt, Request,
       WritePcs, ScriptProcs, Writing, Uploads, Edits
  <1>2. CASE MoveToBackup(t) \/ MoveToBackupFails(t) \/ LookBeforeEdit(t) \/ LookBeforeEditFails(t)
    BY <1>2 DEF MoveToBackup, MoveToBackupFails, LookBeforeEdit, LookBeforeEditFails, RaiseAt,
       IgnoreAt, Request, WritePcs, ScriptProcs, Writing, Uploads, Edits
  <1>3. CASE ReadAndEdit(t) \/ ReadAndEditFails(t) \/ TransferSize(t) \/ TransferSizeFails(t)
    BY <1>3 DEF ReadAndEdit, ReadAndEditFails, TransferSize, TransferSizeFails, RaiseAt,
       IgnoreAt, Request, WritePcs, ScriptProcs, Writing, Uploads, Edits
  <1>4. CASE TargetExists(t) \/ TargetExistsFails(t) \/ OpenSource(t) \/ OpenTmp(t)
    BY <1>4 DEF TargetExists, TargetExistsFails, OpenSource, OpenTmp, RaiseAt, IgnoreAt, Request,
       WritePcs, ScriptProcs, Writing, Uploads, Edits
  <1>5. CASE WriteTmp(t) \/ ChmodTmp(t) \/ RenameTmp(t) \/ WriteFails(t)
    BY <1>5 DEF WriteTmp, ChmodTmp, RenameTmp, WriteFails, RaiseAt, IgnoreAt, Request, WritePcs,
       ScriptProcs, Writing, Uploads, Edits
  <1>6. CASE SweepTmp(t) \/ SweepFails(t) \/ SudoOwner(t) \/ SudoOwnerFails(t)
    BY <1>6 DEF SweepTmp, SweepFails, SudoOwner, SudoOwnerFails, RaiseAt, IgnoreAt, Request,
       WritePcs, ScriptProcs, Writing, Uploads, Edits
  <1>7. CASE SudoMode(t) \/ SudoModeFails(t) \/ ScriptStep(t) \/ ScriptStepFails(t)
    BY <1>7 DEF SudoMode, SudoModeFails, ScriptStep, ScriptStepFails, RaiseAt, IgnoreAt, Request,
       WritePcs, ScriptProcs, Writing, Uploads, Edits
  <1>8. CASE ScriptReturns(t) \/ ScriptTimesOut(t)
    BY <1>8 DEF ScriptReturns, ScriptTimesOut, RaiseAt, IgnoreAt, Request, WritePcs, ScriptProcs,
       Writing, Uploads, Edits
  <1>9. CASE Tool(t) \in {"ssh_edit", "ssh_patch"} /\ PrepareCall(t, "editStat")
    BY <1>9 DEF PrepareCall, PrepareSecond, RaiseAt, WritePcs, ScriptProcs, Writing, Uploads, Edits
  <1>10. CASE Tool(t) = "ssh_sudo_edit" /\ PrepareCall(t, "sudoEditRead")
    BY <1>10 DEF PrepareCall, PrepareSecond, RaiseAt, WritePcs, ScriptProcs, Writing, Uploads, Edits
  <1>11. CASE Tool(t) = "ssh_transfer" /\ (PrepareCall(t, "second") \/ PrepareSecond(t, "sourceStat"))
    BY <1>11 DEF PrepareCall, PrepareSecond, RaiseAt, WritePcs, ScriptProcs, Writing, Uploads, Edits
  <1>12. CASE Tool(t) = "ssh_transfer" /\ RaiseAt(t, "second", SecondOk(t))
    BY <1>12 DEF PrepareCall, PrepareSecond, RaiseAt, WritePcs, ScriptProcs, Writing, Uploads, Edits
  <1>13. QED
    BY <1>1, <1>2, <1>3, <1>4, <1>5, <1>6, <1>7, <1>8, <1>9, <1>10, <1>11, <1>12 DEF WriteStep

LEMMA TreeStepsAt ==
  ASSUME NEW t, TreeStep(t)
  PROVE  \/ FolderStep(t)
         \/ at[t] \in {"start", "second"} /\ Tool(t) \in OtherTreeTools
         \/ at[t] \in OtherTreePcs \/ proc[t] \in OtherTreeProcs
  <1>1. CASE Mkdir(t) \/ MkdirFails(t) \/ ParentStat(t) \/ ParentStatFails(t)
    BY <1>1 DEF Mkdir, MkdirFails, ParentStat, ParentStatFails, RaiseAt, IgnoreAt, Request,
       OtherTreePcs, OtherTreeProcs, OtherTreeTools
  <1>2. CASE ParentMake(t) \/ ParentMakeFails(t) \/ DeleteLook(t) \/ DeleteLookFails(t)
    BY <1>2 DEF ParentMake, ParentMakeFails, DeleteLook, DeleteLookFails, RaiseAt, IgnoreAt,
       Request, OtherTreePcs, OtherTreeProcs, OtherTreeTools
  <1>3. CASE Delete(t) \/ DeleteFails(t) \/ SizeLook(t) \/ Rename(t)
    BY <1>3 DEF Delete, DeleteFails, SizeLook, Rename, RaiseAt, IgnoreAt, Request, OtherTreePcs,
       OtherTreeProcs, OtherTreeTools
  <1>4. CASE RenameFallsBack(t) \/ RenameFails(t) \/ CpStep(t) \/ MvStep(t)
    BY <1>4 DEF RenameFallsBack, RenameFails, CpStep, MvStep, RaiseAt, IgnoreAt, Request,
       OtherTreePcs, OtherTreeProcs, OtherTreeTools
  <1>5. CASE LnStep(t) \/ Symlink(t) \/ SymlinkFails(t) \/ FindLinkSource(t)
    BY <1>5 DEF LnStep, Symlink, SymlinkFails, FindLinkSource, RaiseAt, IgnoreAt, Request,
       OtherTreePcs, OtherTreeProcs, OtherTreeTools
  <1>6. CASE FindLinkSourceFails(t) \/ LinkLook(t) \/ LinkLookFails(t) \/ HardLink(t)
    BY <1>6 DEF FindLinkSourceFails, LinkLook, LinkLookFails, HardLink, RaiseAt, IgnoreAt,
       Request, OtherTreePcs, OtherTreeProcs, OtherTreeTools
  <1>7. CASE HardLinkFails(t)
    BY <1>7 DEF HardLinkFails, RaiseAt, IgnoreAt, Request, OtherTreePcs, OtherTreeProcs,
       OtherTreeTools
  <1>8. CASE Tool(t) = "ssh_mkdir" /\ PrepareCall(t, IF Opt(t, "parents") THEN "parentStat" ELSE "mkdir")
    BY <1>8 DEF PrepareCall, PrepareSecond, RaiseAt, OtherTreePcs, OtherTreeProcs, OtherTreeTools
  <1>9. CASE Tool(t) = "ssh_delete" /\ PrepareCall(t, "deleteLook")
    BY <1>9 DEF PrepareCall, PrepareSecond, RaiseAt, OtherTreePcs, OtherTreeProcs, OtherTreeTools
  <1>10. CASE Tool(t) \in {"ssh_cp", "ssh_mv"} /\ (PrepareCall(t, "second") \/ PrepareSecond(t, "sizeLook"))
    BY <1>10 DEF PrepareCall, PrepareSecond, RaiseAt, OtherTreePcs, OtherTreeProcs, OtherTreeTools
  <1>11. CASE Tool(t) \in {"ssh_cp", "ssh_mv"} /\ RaiseAt(t, "second", SecondOk(t))
    BY <1>11 DEF PrepareCall, PrepareSecond, RaiseAt, OtherTreePcs, OtherTreeProcs, OtherTreeTools
  <1>12. CASE Tool(t) = "ssh_link" /\ PrepareCall(t, LinkStart(t))
    BY <1>12 DEF PrepareCall, PrepareSecond, RaiseAt, OtherTreePcs, OtherTreeProcs, OtherTreeTools
  <1>13. QED
    BY <1>1, <1>2, <1>3, <1>4, <1>5, <1>6, <1>7, <1>8, <1>9, <1>10, <1>11, <1>12 DEF TreeStep, FolderStep

LEMMA FolderStepsAt ==
  ASSUME NEW t, FolderStep(t)
  PROVE  \/ at[t] = "start" /\ Tool(t) = "ssh_delete_folder"
         \/ at[t] \in {"rmdir", "walk", "recheck", "sweepEntry", "shell"}
         \/ proc[t] \in {"rm", "removing"}
  <1>1. CASE Rmdir(t) \/ RmdirFails(t) \/ WalkFolder(t) \/ WalkSkips(t)
    BY <1>1 DEF Rmdir, RmdirFails, WalkFolder, WalkSkips, RaiseAt, IgnoreAt, Request, FolderStep
  <1>2. CASE WalkFails(t) \/ Recheck(t) \/ RecheckFails(t) \/ SweepEntry(t)
    BY <1>2 DEF WalkFails, Recheck, RecheckFails, SweepEntry, RaiseAt, IgnoreAt, Request, FolderStep
  <1>3. CASE SweepEntrySkips(t) \/ SweepEntryFails(t) \/ RmStep(t) \/ ShellReturns(t)
    BY <1>3 DEF SweepEntrySkips, SweepEntryFails, RmStep, ShellReturns, RaiseAt, IgnoreAt,
       Request, FolderStep
  <1>4. CASE ShellFails(t)
    BY <1>4 DEF ShellFails, RaiseAt, IgnoreAt, Request, FolderStep
  <1>5. CASE Tool(t) = "ssh_delete_folder" /\ PrepareCall(t, FolderStart(t))
    BY <1>5 DEF PrepareCall, PrepareSecond, RaiseAt, FolderStep
  <1>6. QED
    BY <1>1, <1>2, <1>3, <1>4, <1>5 DEF FolderStep

LEMMA ReadStepsAt ==
  ASSUME NEW t, ReadStep(t)
  PROVE  \/ at[t] = "start" /\ Tool(t) \in Readers
         \/ at[t] \in ReadPcs \/ proc[t] = "replacing"
  <1>1. CASE StartLocal(t) \/ StartLocalRefused(t) \/ ListDir(t) \/ ListDirFails(t)
    BY <1>1 DEF StartLocal, StartLocalRefused, ListDir, ListDirFails, RaiseAt, IgnoreAt, Request,
       ReadPcs, Readers
  <1>2. CASE StatEntry(t) \/ StatEntryFails(t) \/ EntryLink(t) \/ StatOne(t)
    BY <1>2 DEF StatEntry, StatEntryFails, EntryLink, StatOne, RaiseAt, IgnoreAt, Request,
       ReadPcs, Readers
  <1>3. CASE StatOneFails(t) \/ ReadLink(t) \/ ReadLinkFails(t) \/ SudoList(t)
    BY <1>3 DEF StatOneFails, ReadLink, ReadLinkFails, SudoList, RaiseAt, IgnoreAt, Request,
       ReadPcs, Readers
  <1>4. CASE SudoListFails(t) \/ Find(t) \/ FindFails(t) \/ FindWalk(t)
    BY <1>4 DEF SudoListFails, Find, FindFails, FindWalk, RaiseAt, IgnoreAt, Request, ReadPcs,
       Readers
  <1>5. CASE FindSkips(t) \/ Hash(t) \/ HashFails(t) \/ HashSize(t)
    BY <1>5 DEF FindSkips, Hash, HashFails, HashSize, RaiseAt, IgnoreAt, Request, ReadPcs, Readers
  <1>6. CASE DownloadStat(t) \/ DownloadStatFails(t) \/ ReadAll(t) \/ ReadAllFails(t)
    BY <1>6 DEF DownloadStat, DownloadStatFails, ReadAll, ReadAllFails, RaiseAt, IgnoreAt,
       Request, ReadPcs, Readers
  <1>7. CASE SudoCat(t) \/ SudoCatFails(t) \/ LocalOpen(t) \/ LocalOpenFails(t)
    BY <1>7 DEF SudoCat, SudoCatFails, LocalOpen, LocalOpenFails, RaiseAt, IgnoreAt, Request,
       ReadPcs, Readers
  <1>8. CASE LocalOpenCancelled(t) \/ LocalRead(t) \/ LocalCopy(t) \/ LocalReplace(t)
    BY <1>8 DEF LocalOpenCancelled, LocalRead, LocalCopy, LocalReplace, RaiseAt, IgnoreAt,
       Request, ReadPcs, Readers
  <1>9. CASE LocalFails(t) \/ ReplacingThread(t) \/ LocalSweep(t)
    BY <1>9 DEF LocalFails, ReplacingThread, LocalSweep, RaiseAt, IgnoreAt, Request, ReadPcs,
       Readers
  <1>10. CASE Tool(t) \in Readers /\ ~Opt(t, "local") /\ PrepareCall(t, FirstRead(t))
    BY <1>10 DEF PrepareCall, PrepareSecond, RaiseAt, ReadPcs, Readers
  <1>11. QED
    BY <1>1, <1>2, <1>3, <1>4, <1>5, <1>6, <1>7, <1>8, <1>9, <1>10 DEF ReadStep

-----------------------------------------------------------------------------
(* What another call's step leaves alone *)

LEMMA WalkOfNothing ==
  ASSUME NEW t, NEW last
  PROVE  Walked(t, <<>>, last)[Hops].rest = <<>> /\ Walked(t, <<>>, last)[Hops].at = <<>>
  <1> DEFINE w == Walked(t, <<>>, last)
  <1>0. /\ w[0] = [at |-> <<>>, rest |-> <<>>, there |-> TRUE]
        /\ \A i \in 1..Hops : w[i] = IF w[i - 1].rest = <<>> THEN w[i - 1] ELSE WalkStep(t, w[i - 1], last)
    BY WalkedUnfolds
  <1> HIDE DEF w
  <1>1. w[0].rest = <<>> /\ w[0].at = <<>>
    BY <1>0
  <1>2. \A i \in 1..Hops : w[i - 1].rest = <<>> => w[i] = w[i - 1]
    BY <1>0
  <1>3. w[1] = w[0] /\ w[2] = w[1] /\ w[3] = w[2] /\ w[4] = w[3]
    BY <1>1, <1>2 DEF Hops
  <1>4. w[5] = w[4] /\ w[6] = w[5] /\ w[7] = w[6] /\ w[8] = w[7]
    BY <1>1, <1>2, <1>3 DEF Hops
  <1>5. QED
    BY <1>1, <1>3, <1>4 DEF Hops, w

LEMMA RealMRoot ==
  ASSUME NEW t, NEW p, p = <<>>
  PROVE  RealM(t, p) = <<>>
  BY WalkOfNothing DEF RealM, Walk

LEMMA RacedGrows ==
  ASSUME NEW t \in Calls, Effect(t)
  PROVE  raced \subseteq raced' /\ DOMAIN fs' = DOMAIN fs
  BY DEF Effect, TreesKept, Affect

\* Unless it is raced, a call finds at its path what it found there.
LEMMA PathUntouched ==
  ASSUME FilesInv, NEW t \in Calls, NEW u \in Calls \ {t}, Effect(u), t \notin raced'
  PROVE  Finds(t, fs'[On(t)], loc[t].path) = Finds(t, fs[On(t)], loc[t].path)
  <1>1. CASE UNCHANGED <<fs, raced>>
    BY <1>1
  <1>2. ASSUME NEW h, NEW tree, Affect(u, h, tree)
        PROVE  Finds(t, fs'[On(t)], loc[t].path) = Finds(t, fs[On(t)], loc[t].path)
    <2>1. ~Touches(t, h, tree) /\ fs' = [fs EXCEPT ![h] = tree] /\ On(t) \in DOMAIN fs
      BY <1>2 DEF Affect, FilesInv
    <2>2. <<On(t), loc[t].path>> \in Names(t)
      BY DEF Names
    <2>3. h = On(t) => Finds(t, tree, loc[t].path) = Finds(t, fs[h], loc[t].path)
      BY <2>1, <2>2 DEF Touches
    <2>4. QED
      BY <2>1, <2>3
  <1>3. QED
    BY <1>1, <1>2 DEF Effect, TreesKept

LEMMA PathKept ==
  ASSUME FilesInv, NEW t \in Calls, NEW u \in Calls \ {t}, Effect(u), t \notin raced',
         NEW p, p = loc[t].path, NEW was, was = Remote(t), NEW is, is = fs'[On(t)]
  PROVE  /\ p \in DOMAIN is <=> p \in DOMAIN was
         /\ StatOk(is, p) <=> StatOk(was, p)
         /\ StatOk(was, p) => SizeOf(Stat(is, p)) = SizeOf(Stat(was, p))
         /\ IsFile(is, p) <=> IsFile(was, p)
         /\ IsFile(was, p) => Stat(is, p).text = Stat(was, p).text
  <1>1. Finds(t, is, p) = Finds(t, was, p)
    BY PathUntouched DEF Remote
  <1>2. NodeAt(is, p) = NodeAt(was, p) /\ NodeAt(is, RealM(is, p)) = NodeAt(was, RealM(was, p))
    BY <1>1 DEF Finds
  <1>3. p \in DOMAIN is <=> p \in DOMAIN was
    BY <1>2 DEF NodeAt
  <1>4. /\ RealM(is, p) \in DOMAIN is <=> RealM(was, p) \in DOMAIN was
        /\ RealM(was, p) \in DOMAIN was => is[RealM(is, p)] = was[RealM(was, p)]
    BY <1>2 DEF NodeAt
  <1>5. QED
    BY <1>3, <1>4 DEF StatOk, Stat, IsFile

-----------------------------------------------------------------------------
(* A read returns one version *)

Reporting(t) == Tool(t) \in Readers \ {"ssh_sftp_stat"}
WholeRead(t) == \A n \in loc[t].size : n = Len(loc[t].text) \/ (n > Cap /\ loc[t].text = <<>>)

\* What a call that reads knows: nothing before its first look; then the digest
\* or the size of what is at its path still, unless it is raced.
FirstLooks == {"start", "list", "entry", "entryLink", "sudoLs", "find", "findWalk", "hash",
               "downloadStat", "sudoCat"}
ReaderPcs == FirstLooks \cup {"hashSize", "readAll", "localOpen", "localRead", "localCopy",
                              "localReplace", "localSweep", "return", "done"}
ReaderInv(t) ==
  /\ at[t] \in ReaderPcs /\ proc[t] \in {"none", "replacing", "cancelled"}
  /\ proc[t] = "replacing" => at[t] \in {"localSweep", "done"}
  /\ at[t] \in FirstLooks => loc[t].size = {} /\ loc[t].text = <<>>
  /\ at[t] = "hashSize" =>
       /\ loc[t].size = {}
       /\ t \notin raced => IsFile(Remote(t), loc[t].path) /\ Stat(Remote(t), loc[t].path).text = loc[t].text
  /\ at[t] = "readAll" =>
       /\ loc[t].text = <<>>
       /\ t \notin raced => /\ StatOk(Remote(t), loc[t].path)
                            /\ loc[t].size = {SizeOf(Stat(Remote(t), loc[t].path))}
  /\ at[t] = "localReplace" => loc[t].size = {Len(loc[t].text)}
  /\ at[t] = "return" /\ t \notin raced => WholeRead(t)

LEMMA ReaderEnds ==
  ASSUME FilesInv, NEW t \in Calls, ReaderInv(t), Ends(t), UNCHANGED proc
  PROVE  ReaderInv(t)'
  <1>1. at'[t] = "done" /\ proc'[t] = proc[t]
    BY Positions DEF Ends, End, Go
  <1>2. at'[t] \in ReaderPcs \ FirstLooks
    BY <1>1 DEF ReaderPcs, FirstLooks
  <1>3. QED
    BY <1>1, <1>2 DEF ReaderInv

LEMMA ReaderTakes ==
  ASSUME FilesInv, NEW t \in Calls, Reporting(t), ReaderInv(t), Step(t)
  PROVE  ReadStep(t) \/ PrepareFails(t) \/ Returns(t)
  <1>1. at[t] \in ReaderPcs /\ proc[t] \in {"none", "replacing", "cancelled"}
    BY DEF ReaderInv
  <1>2. ~WriteStep(t)
    <2>1. Tool(t) \notin Writing
      BY DEF Reporting, Writing, Readers, Redacted, Uploads, Edits
    <2>2. at[t] \notin WritePcs /\ proc[t] \notin ScriptProcs
      BY <1>1 DEF ReaderPcs, FirstLooks, WritePcs, ScriptProcs
    <2>3. QED
      BY <2>1, <2>2, WriteStepsAt
  <1>3. ~TreeStep(t)
    <2>1. Tool(t) \notin OtherTreeTools /\ Tool(t) # "ssh_delete_folder"
      BY DEF Reporting, OtherTreeTools, Readers, Redacted
    <2>2. /\ at[t] \notin OtherTreePcs /\ proc[t] \notin OtherTreeProcs
          /\ at[t] \notin {"rmdir", "walk", "recheck", "sweepEntry", "shell"} /\ proc[t] \notin {"rm", "removing"}
      BY <1>1 DEF ReaderPcs, FirstLooks, OtherTreePcs, OtherTreeProcs
    <2>3. QED
      BY <2>1, <2>2, TreeStepsAt, FolderStepsAt
  <1>4. QED
    BY <1>2, <1>3 DEF Step

\* What a shell reads is what the SFTP server shows.
LEMMA ShellFile ==
  ASSUME NEW t, NEW p, IsFile(ShellSees(t), p)
  PROVE  ShellSees(t) = Remote(t)
  <1>1. CASE On(t) \in Chrooted
    <2> DEFINE bare == [q \in {<<>>} |-> Dir]
    <2>1. ShellSees(t) = bare
      BY <1>1 DEF ShellSees, ShellTree
    <2> HIDE DEF bare
    <2>2. RealM(bare, p) \in DOMAIN bare /\ bare[RealM(bare, p)].kind = "file"
      BY <2>1 DEF IsFile, StatOk, Stat
    <2>3. FALSE
      BY <2>2 DEF bare, Dir
    <2>4. QED
      BY <2>3
  <1>2. CASE On(t) \notin Chrooted
    BY <1>2 DEF ShellSees, ShellTree, Remote
  <1>3. QED
    BY <1>1, <1>2

LEMMA ReaderStep ==
  ASSUME FilesInv, NEW t \in Calls, Reporting(t), ReaderInv(t), Step(t)
  PROVE  ReaderInv(t)'
  <1> USE DEF Go, Keep, Quiet
  <1>0. /\ at \in [Calls -> Pcs] /\ DOMAIN loc = Calls /\ DOMAIN loc[t] = Locals /\ DOMAIN proc = Calls
        /\ Tool(t) # "ssh_sftp_stat"
    BY Positions DEF Reporting
  <1>1. CASE ListDirFails(t) \/ StatEntryFails(t) \/ StatOneFails(t) \/ ReadLinkFails(t) \/ SudoListFails(t) \/ FindFails(t)
    <2>1. Ends(t) /\ UNCHANGED proc
      BY <1>1 DEF ListDirFails, StatEntryFails, StatOneFails, ReadLinkFails, SudoListFails,
       FindFails, RaiseAt, Raise, Ends, Outs
    <2>2. QED
      BY <2>1, ReaderEnds
  <1>2. CASE HashFails(t) \/ DownloadStatFails(t) \/ ReadAllFails(t) \/ SudoCatFails(t) \/ LocalOpenFails(t)
    <2>1. Ends(t) /\ UNCHANGED proc
      BY <1>2 DEF HashFails, DownloadStatFails, ReadAllFails, SudoCatFails, LocalOpenFails,
       RaiseAt, Raise, Ends, Outs
    <2>2. QED
      BY <2>1, ReaderEnds
  <1>3. CASE StartLocalRefused(t) \/ PrepareFails(t) \/ Returns(t)
    <2>1. Ends(t) /\ UNCHANGED proc
      BY <1>3 DEF StartLocalRefused, PrepareFails, Returns, Raise, Ends, Outs
    <2>2. QED
      BY <2>1, ReaderEnds
  <1>4. CASE Tool(t) \in Readers /\ ~Opt(t, "local") /\ PrepareCall(t, FirstRead(t))
    <2>1. FirstRead(t) \in FirstLooks \ {"start"}
      BY DEF FirstRead, FirstLooks, Reporting, Readers, Redacted
    <2>2. /\ at'[t] = FirstRead(t) /\ loc'[t].size = loc[t].size /\ loc'[t].text = loc[t].text
          /\ proc' = proc /\ at[t] = "start"
      BY <1>0, <1>4 DEF PrepareCall, Locals
    <2>3. at'[t] \in ReaderPcs /\ at[t] \in FirstLooks /\ at'[t] \notin {"hashSize", "readAll", "localReplace", "return"}
      BY <2>1, <2>2 DEF ReaderPcs, FirstLooks
    <2>4. QED
      BY <2>1, <2>2, <2>3 DEF ReaderInv
  <1>5. CASE StartLocal(t)
    BY <1>0, <1>5 DEF StartLocal, Rest, ReaderInv, ReaderPcs, FirstLooks, WholeRead, Remote, On,
       Locals
  <1>6. CASE ListDir(t)
    BY <1>0, <1>6 DEF ListDir, Rest, ReaderInv, ReaderPcs, FirstLooks, WholeRead, Remote, On, Locals
  <1>7. CASE StatEntry(t)
    <2>1. /\ at[t] = "entry" /\ at'[t] \in {"entry", "entryLink", "return"} /\ proc' = proc
          /\ loc'[t].size = loc[t].size /\ loc'[t].text = loc[t].text
      <3>1. CASE Lstat(Remote(t), Listed(t)).kind = "link"
        BY <1>0, <1>7, <3>1 DEF StatEntry
      <3>2. CASE Lstat(Remote(t), Listed(t)).kind # "link"
        <4>1. PICK kind : Entered(t, kind)
          BY <1>7, <3>2 DEF StatEntry
        <4>2. at[t] = "entry" /\ proc' = proc
          BY <1>7 DEF StatEntry
        <4>3. QED
          BY <1>0, <4>1, <4>2 DEF Entered, Locals
      <3>3. QED
        BY <3>1, <3>2
    <2>2. QED
      BY <2>1 DEF ReaderInv, ReaderPcs, FirstLooks, WholeRead
  <1>8. CASE EntryLink(t)
    BY <1>0, <1>8 DEF EntryLink, Entered, Rest, ReaderInv, ReaderPcs, FirstLooks, WholeRead,
       Remote, On, Locals
  <1>9. CASE SudoList(t)
    BY <1>0, <1>9 DEF SudoList, Rest, ReaderInv, ReaderPcs, FirstLooks, WholeRead, Remote, On,
       Locals
  <1>10. CASE Find(t)
    BY <1>0, <1>10 DEF Find, Rest, ReaderInv, ReaderPcs, FirstLooks, WholeRead, Remote, On, Locals
  <1>11. CASE FindWalk(t)
    BY <1>0, <1>11 DEF FindWalk, FindWalked, Rest, ReaderInv, ReaderPcs, FirstLooks, WholeRead,
       Remote, On, Locals
  <1>12. CASE FindSkips(t)
    BY <1>0, <1>12 DEF FindSkips, FindWalked, Rest, ReaderInv, ReaderPcs, FirstLooks, WholeRead,
       Remote, On, Locals
  <1>13. CASE Hash(t)
    <2>1. IsFile(Remote(t), loc[t].path) /\ Stat(ShellSees(t), loc[t].path) = Stat(Remote(t), loc[t].path)
      BY <1>13, ShellFile DEF Hash
    <2>2. /\ at[t] = "hash" /\ at'[t] = "hashSize" /\ proc' = proc /\ fs' = fs /\ req' = req /\ raced' = raced
          /\ loc'[t].path = loc[t].path /\ loc'[t].size = loc[t].size
          /\ loc'[t].text = Stat(Remote(t), loc[t].path).text
      BY <1>0, <1>13, <2>1 DEF Hash, Locals
    <2>3. Remote(t)' = Remote(t)
      BY <2>2 DEF Remote, On
    <2>4. QED
      BY <2>1, <2>2, <2>3 DEF ReaderInv, ReaderPcs, FirstLooks, WholeRead
  <1>14. CASE HashSize(t)
    BY <1>0, <1>14 DEF HashSize, SizeOf, IsFile, Rest, ReaderInv, ReaderPcs, FirstLooks,
       WholeRead, Remote, On, Locals
  <1>15. CASE DownloadStat(t)
    <2> DEFINE size == SizeOf(Stat(Remote(t), loc[t].path))
    <2>1. /\ at[t] = "downloadStat" /\ proc' = proc /\ fs' = fs /\ req' = req /\ raced' = raced
          /\ loc'[t].size = {size} /\ loc'[t].text = loc[t].text /\ loc'[t].path = loc[t].path
          /\ StatOk(Remote(t), loc[t].path)
      BY <1>0, <1>15 DEF DownloadStat, Locals
    <2>2. \/ at'[t] \in {"localOpen", "readAll", "done"}
          \/ at'[t] = "return" /\ size > Cap
      BY <1>0, <1>15 DEF DownloadStat, Raise, End
    <2> HIDE DEF size
    <2>3. loc[t].text = <<>> /\ Remote(t)' = Remote(t) /\ size' = size
      BY <2>1 DEF ReaderInv, FirstLooks, Remote, On, size
    <2>4. QED
      BY <2>1, <2>2, <2>3 DEF ReaderInv, ReaderPcs, FirstLooks, WholeRead, size
  <1>16. CASE ReadAll(t)
    BY <1>0, <1>16 DEF ReadAll, SizeOf, IsFile, Rest, ReaderInv, ReaderPcs, FirstLooks,
       WholeRead, Remote, On, Locals
  <1>17. CASE SudoCat(t)
    <2>1. /\ at[t] = "sudoCat" /\ proc' = proc
          /\ \/ at'[t] = "done"
             \/ at'[t] = "return" /\ loc'[t].size = {Len(loc'[t].text)}
      <3> DEFINE text == Stat(ShellSees(t), loc[t].path).text
      <3>1. CASE Len(text) > Cap
        BY <1>0, <1>17, <3>1 DEF SudoCat, Raise, End
      <3>2. CASE ~(Len(text) > Cap)
        <4>1. /\ at' = [at EXCEPT ![t] = "return"]
              /\ loc' = [loc EXCEPT ![t] = [loc[t] EXCEPT !.text = text, !.size = {Len(text)}]]
          BY <1>17, <3>2 DEF SudoCat
        <4> HIDE DEF text
        <4>2. QED
          BY <1>0, <1>17, <4>1 DEF SudoCat, Locals
      <3>3. QED
        BY <3>1, <3>2
    <2>2. QED
      BY <2>1 DEF ReaderInv, ReaderPcs, FirstLooks, WholeRead
  <1>18. CASE LocalOpen(t)
    BY <1>0, <1>18 DEF LocalOpen, Rest, ReaderInv, ReaderPcs, FirstLooks, WholeRead, Remote, On,
       Locals
  <1>19. CASE LocalRead(t)
    BY <1>0, <1>19 DEF LocalRead, Rest, ReaderInv, ReaderPcs, FirstLooks, WholeRead, Remote, On,
       Locals
  <1>20. CASE LocalCopy(t)
    BY <1>0, <1>20 DEF LocalCopy, Rest, ReaderInv, ReaderPcs, FirstLooks, WholeRead, Remote, On,
       Locals
  <1>21. CASE LocalReplace(t)
    BY <1>0, <1>21 DEF LocalReplace, Rest, ReaderInv, ReaderPcs, FirstLooks, WholeRead, Remote,
       On, Locals
  <1>22. CASE LocalFails(t)
    BY <1>0, <1>22 DEF LocalFails, Rest, ReaderInv, ReaderPcs, FirstLooks, WholeRead, Remote, On,
       Locals
  <1>23. CASE LocalOpenCancelled(t)
    BY <1>0, <1>23 DEF LocalOpenCancelled, End, Rest, ReaderInv, ReaderPcs, FirstLooks,
       WholeRead, Remote, On, Locals
  <1>24. CASE LocalSweep(t)
    BY <1>0, <1>24 DEF LocalSweep, End, Raise, Rest, ReaderInv, ReaderPcs, FirstLooks, WholeRead,
       Remote, On, Locals
  <1>25. CASE ReplacingThread(t)
    BY <1>0, <1>25 DEF ReplacingThread, Rest, ReaderInv, ReaderPcs, FirstLooks, WholeRead,
       Remote, On, Locals
  <1>26. CASE StatOne(t) \/ ReadLink(t)
    <2>1. at[t] \in {"stat", "readlink"}
      BY <1>26 DEF StatOne, ReadLink
    <2>2. QED
      BY <2>1 DEF ReaderInv, ReaderPcs, FirstLooks
  <1>27. QED
    BY <1>1, <1>2, <1>3, <1>4, <1>5, <1>6, <1>7, <1>8, <1>9, <1>10, <1>11, <1>12, <1>13, <1>14,
       <1>15, <1>16, <1>17, <1>18, <1>19, <1>20, <1>21, <1>22, <1>23, <1>24, <1>25, <1>26, ReaderTakes DEF ReadStep

LEMMA ReaderUndisturbed ==
  ASSUME FilesInv, NEW t \in Calls, NEW u \in Calls \ {t}, Effect(u), ReaderInv(t)
  PROVE  ReaderInv(t)'
  <1>1. at'[t] = at[t] /\ loc'[t] = loc[t] /\ proc'[t] = proc[t] /\ req' = req
    BY DEF Effect, Others
  <1>2. raced \subseteq raced' /\ Remote(t)' = fs'[On(t)]
    BY <1>1, RacedGrows DEF Remote, On
  <1>3. t \notin raced' =>
          /\ StatOk(Remote(t)', loc[t].path) <=> StatOk(Remote(t), loc[t].path)
          /\ StatOk(Remote(t), loc[t].path) =>
               SizeOf(Stat(Remote(t)', loc[t].path)) = SizeOf(Stat(Remote(t), loc[t].path))
          /\ IsFile(Remote(t)', loc[t].path) <=> IsFile(Remote(t), loc[t].path)
          /\ IsFile(Remote(t), loc[t].path) =>
               Stat(Remote(t)', loc[t].path).text = Stat(Remote(t), loc[t].path).text
    BY <1>2, PathKept
  <1>4. QED
    BY <1>1, <1>2, <1>3 DEF ReaderInv, WholeRead

LEMMA ReaderUnmoved ==
  ASSUME NEW t \in Calls, ReaderInv(t), UNCHANGED <<fs, req, at, loc, proc, raced>>
  PROVE  ReaderInv(t)'
  BY DEF ReaderInv, WholeRead, Remote, On

ReportsInv == FilesInv /\ \A t \in Calls : Reporting(t) => ReaderInv(t)

LEMMA ReportsInit ==
  ASSUME CallsInit
  PROVE  ReportsInv
  <1>1. ASSUME NEW t \in Calls
        PROVE  ReaderInv(t)
    <2>1. at[t] \in {"start", "done"} /\ loc[t] = NoLocals /\ proc[t] = "none"
      BY DEF CallsInit
    <2>2. QED
      BY <2>1 DEF ReaderInv, ReaderPcs, FirstLooks, NoLocals
  <1>2. QED
    BY <1>1, FilesInit DEF ReportsInv

LEMMA ReportsNext ==
  ASSUME ReportsInv, [Next]_callVars
  PROVE  ReportsInv'
  <1>0. FilesInv /\ FilesInv' /\ \A t \in Calls : Reporting(t) => ReaderInv(t)
    BY FilesNext DEF ReportsInv
  <1>1. ASSUME NEW u \in Calls, Step(u) \/ LoseConnection(u) \/ Cancel(u),
               NEW t \in Calls, Reporting(t)
        PROVE  ReaderInv(t)'
    <2>1. Effect(u)
      BY <1>0, <1>1, StepEffect, EnvironmentEffect
    <2>2. CASE u # t
      BY <1>0, <1>1, <2>1, <2>2, ReaderUndisturbed
    <2>3. CASE u = t /\ Step(u)
      BY <1>0, <1>1, <2>3, ReaderStep
    <2>4. CASE u = t /\ LoseConnection(u)
      BY <1>0, <1>1, <2>4, ReaderUnmoved DEF LoseConnection
    <2>5. CASE u = t /\ Cancel(u)
      <3>1. Ends(t) /\ UNCHANGED proc
        BY <2>5 DEF Cancel, Ends, Outs
      <3>2. QED
        BY <1>0, <1>1, <3>1, ReaderEnds
    <2>6. QED
      BY <1>1, <2>2, <2>3, <2>4, <2>5
  <1>2. \A t \in Calls : Reporting(t)' <=> Reporting(t)
    <2>1. UNCHANGED req
      <3>1. ASSUME NEW u \in Calls, Step(u) \/ LoseConnection(u) \/ Cancel(u) PROVE UNCHANGED req
        BY <1>0, <3>1, StepEffect, EnvironmentEffect DEF Effect
      <3>2. QED
        BY <3>1 DEF Next, Tick, Over, callVars
    <2>2. QED
      BY <2>1 DEF Reporting, Tool
  <1>3. ASSUME Tick \/ UNCHANGED callVars, NEW t \in Calls, Reporting(t)
        PROVE  ReaderInv(t)'
    BY <1>0, <1>3, ReaderUnmoved DEF Tick, callVars
  <1>4. \A t \in Calls : Reporting(t) => ReaderInv(t)'
    BY <1>1, <1>3 DEF Next, Over
  <1>5. QED
    BY <1>0, <1>2, <1>4 DEF ReportsInv

\* A read that comes back with a size, of any tree and among any other calls, has
\* the bytes that size was taken of, or was too long to be read; unless another
\* call changed what it reads, or its own temporary file, in between.
THEOREM ReadsOneVersionCorrect == Spec => []ReadsOneVersion
  <1>1. CallsInit => ReportsInv
    BY ReportsInit
  <1>2. ReportsInv /\ [Next]_callVars => ReportsInv'
    BY ReportsNext
  <1>3. ReportsInv => ReadsOneVersion
    BY DEF ReportsInv, ReaderInv, ReadsOneVersion, Reporting, WholeRead
  <1>4. QED
    BY <1>1, <1>2, <1>3, PTL DEF Spec

-----------------------------------------------------------------------------
(* A folder that was deleted is gone *)

Deleting(t) == Tool(t) = "ssh_delete_folder" /\ ~Opt(t, "dryRun")
Removed(t) == t \notin raced /\ On(t) \notin Chrooted => loc[t].path \notin DOMAIN fs[On(t)]

\* The shell's `rm` starts once, after the recheck; what it saw when it started
\* has the folder in it; and it succeeds only when the folder is gone.
BeforeRemoval == {"start", "walk", "recheck", "rmdir", "sweepEntry"}
FolderPcs == BeforeRemoval \cup {"shell", "return", "done"}
FolderProcs == {"none", "rm", "removing", "ok", "failed"}
FolderInv(t) ==
  /\ at[t] \in FolderPcs /\ proc[t] \in FolderProcs
  /\ at[t] \in BeforeRemoval => proc[t] = "none"
  /\ at[t] = "sweepEntry" => On(t) \in Windows
  /\ at[t] = "return" => proc[t] \in {"none", "ok"}
  /\ Len(loc[t].path) <= Hops
  /\ proc[t] = "removing" => loc[t].path \in loc[t].seen
  /\ proc[t] = "ok" => Removed(t)
  /\ at[t] = "return" /\ (On(t) \in Windows => faults = 0) => Removed(t)

LEMMA FolderEnds ==
  ASSUME FilesInv, NEW t \in Calls, FolderInv(t), Ends(t), UNCHANGED <<fs, req, loc, proc, raced>>
  PROVE  FolderInv(t)'
  <1>1. at'[t] = "done" /\ loc'[t] = loc[t] /\ proc'[t] = proc[t]
    BY Positions DEF Ends, End, Go
  <1>2. at'[t] \in FolderPcs \ BeforeRemoval
    BY <1>1 DEF FolderPcs, BeforeRemoval
  <1>3. Removed(t)' <=> Removed(t)
    BY DEF Removed, On
  <1>4. QED
    BY <1>1, <1>2, <1>3 DEF FolderInv

LEMMA FolderTakes ==
  ASSUME FilesInv, NEW t \in Calls, Deleting(t), FolderInv(t), Step(t)
  PROVE  FolderStep(t) \/ PrepareFails(t) \/ Returns(t)
  <1>1. at[t] \in FolderPcs /\ proc[t] \in FolderProcs
    BY DEF FolderInv
  <1>2. ~WriteStep(t)
    <2>1. Tool(t) \notin Writing
      BY DEF Deleting, Writing, Uploads, Edits
    <2>2. at[t] \notin WritePcs /\ proc[t] \notin ScriptProcs
      BY <1>1 DEF FolderPcs, BeforeRemoval, FolderProcs, WritePcs, ScriptProcs
    <2>3. QED
      BY <2>1, <2>2, WriteStepsAt
  <1>3. ~ReadStep(t)
    <2>1. Tool(t) \notin Readers
      BY DEF Deleting, Readers, Redacted
    <2>2. at[t] \notin ReadPcs /\ proc[t] # "replacing"
      BY <1>1 DEF FolderPcs, BeforeRemoval, FolderProcs, ReadPcs
    <2>3. QED
      BY <2>1, <2>2, ReadStepsAt
  <1>4. TreeStep(t) => FolderStep(t)
    <2>1. Tool(t) \notin OtherTreeTools
      BY DEF Deleting, OtherTreeTools
    <2>2. at[t] \notin OtherTreePcs /\ proc[t] \notin OtherTreeProcs
      BY <1>1 DEF FolderPcs, BeforeRemoval, FolderProcs, OtherTreePcs, OtherTreeProcs
    <2>3. QED
      BY <2>1, <2>2, TreeStepsAt
  <1>5. QED
    BY <1>2, <1>3, <1>4 DEF Step

\* A removal of what is at the path leaves nothing there.
LEMMA RemovalRemoves ==
  ASSUME NEW tree, WellFormed(tree), NEW p, Canonic(p), Len(p) <= Hops
  PROVE  /\ p \notin DOMAIN RemoveTree(tree, p) /\ p \notin DOMAIN Without(tree, p)
         /\ ~LstatOk(tree, p) => p \notin DOMAIN tree
  <1>1. IsPath(p) /\ IsPrefix(p, p)
    BY PrefixSelf DEF Canonic
  <1>2. p \in DOMAIN tree => Place(tree, p) = p
    BY StraightWalk
  <1>3. \A q : DOMAIN Without(tree, q) = DOMAIN tree \ Under(tree, q)
    BY DEF Without, Restrict
  <1>4. p \in DOMAIN tree => p \in Under(tree, p)
    BY <1>1 DEF Under
  <1>5. QED
    BY <1>2, <1>3, <1>4 DEF RemoveTree, LstatOk

LEMMA FolderStepKeeps ==
  ASSUME FilesInv, NEW t \in Calls, Deleting(t), FolderInv(t), FolderStep(t)
  PROVE  FolderInv(t)'
  <1> USE DEF Go, Keep, Quiet
  <1> DEFINE p == loc[t].path
             tree == fs[On(t)]
  <1>0. /\ at \in [Calls -> Pcs] /\ DOMAIN loc = Calls /\ DOMAIN loc[t] = Locals /\ DOMAIN proc = Calls
        /\ On(t) \in DOMAIN fs /\ WellFormed(tree) /\ Canonic(p) /\ Len(p) <= Hops
    BY Positions DEF FolderInv, FilesInv, FilesTypeOK
  <1>1. CASE RmdirFails(t) \/ WalkFails(t) \/ RecheckFails(t) \/ SweepEntryFails(t) \/ ShellFails(t)
    <2>1. Ends(t) /\ UNCHANGED <<fs, req, loc, proc, raced>>
      BY <1>1 DEF RmdirFails, WalkFails, RecheckFails, SweepEntryFails, ShellFails, RaiseAt, Raise,
                  Ends, Outs
    <2>2. QED
      BY <2>1, FolderEnds
  <1>2. CASE PrepareCall(t, FolderStart(t))
    <2>1. /\ at[t] = "start" /\ at'[t] = FolderStart(t) /\ UNCHANGED <<fs, req, proc, raced>>
          /\ \E q \in Resolved(t) : loc'[t].path = q
      BY <1>0, <1>2 DEF PrepareCall, Locals
    <2>2. FolderStart(t) \in {"walk", "rmdir"}
      BY DEF FolderStart, Deleting
    <2>3. Len(loc'[t].path) <= Hops
      BY <2>1, ResolvedCanonic DEF Deleting, Creating, Uploads
    <2>4. QED
      BY <2>1, <2>2, <2>3 DEF FolderInv, FolderPcs, FolderProcs, BeforeRemoval
  <1>3. CASE WalkFolder(t) \/ WalkSkips(t)
    <2>1. /\ at[t] = "walk" /\ at'[t] \in {"walk", "done", "recheck"} /\ UNCHANGED proc
          /\ loc'[t].path = p
      <3>1. at[t] = "walk" /\ UNCHANGED proc /\ \E queue, list : AfterWalk(t, queue, list)
        <4>1. CASE WalkFolder(t)
          BY <4>1 DEF WalkFolder
        <4>2. CASE WalkSkips(t)
          BY <4>2 DEF WalkSkips
        <4>3. QED
          BY <1>3, <4>1, <4>2
      <3>2. QED
        BY <1>0, <3>1 DEF AfterWalk, Raise, End, Deleting, Locals
    <2>2. QED
      BY <2>1 DEF FolderInv, FolderPcs, FolderProcs, BeforeRemoval
  <1>4. CASE Recheck(t)
    <2>1. /\ at[t] = "recheck" /\ loc'[t].path = p /\ UNCHANGED req
          /\ \/ at'[t] = "sweepEntry" /\ UNCHANGED proc /\ On(t) \in Windows
             \/ at'[t] = "shell" /\ proc'[t] = "rm"
      BY <1>0, <1>4 DEF Recheck, RunShell, Locals
    <2>2. QED
      BY <2>1, <1>0 DEF FolderInv, FolderPcs, FolderProcs, BeforeRemoval, On
  <1>5. CASE ShellReturns(t)
    <2>1. /\ at[t] = "shell" /\ UNCHANGED <<fs, req, loc, proc, raced>>
          /\ at'[t] = "done" \/ (at'[t] = "return" /\ proc[t] = "ok")
      BY <1>0, <1>5 DEF ShellReturns, Raise, End
    <2>2. Removed(t)' <=> Removed(t)
      BY <2>1 DEF Removed, On
    <2>3. QED
      BY <2>1, <2>2 DEF FolderInv, FolderPcs, FolderProcs, BeforeRemoval
  <1>6. CASE Rmdir(t)
    <2>1. /\ at[t] = "rmdir" /\ at'[t] = "return" /\ UNCHANGED <<req, loc, proc>>
          /\ fs' = [fs EXCEPT ![On(t)] = RemoveTree(tree, p)]
      BY <1>0, <1>6 DEF Rmdir, Request, Change, Affect, Rest, Here, Path
    <2>2. Removed(t)'
      BY <1>0, <2>1, RemovalRemoves DEF Removed, On
    <2>3. QED
      BY <2>1, <2>2 DEF FolderInv, FolderPcs, FolderProcs, BeforeRemoval
  <1>7. CASE SweepEntry(t)
    <2>1. /\ at[t] = "sweepEntry" /\ loc'[t].path = p /\ UNCHANGED <<req, proc>>
          /\ fs' = [fs EXCEPT ![On(t)] = RemoveTree(tree, Entry(t))]
          /\ at'[t] = IF Entry(t) = p THEN "return" ELSE "sweepEntry"
      BY <1>0, <1>7 DEF SweepEntry, Swept, Change, Affect, Rest, Here, Path, Locals
    <2>2. Entry(t) = p => Removed(t)'
      BY <1>0, <2>1, RemovalRemoves DEF Removed, On
    <2>3. QED
      BY <1>0, <2>1, <2>2 DEF FolderInv, FolderPcs, FolderProcs, BeforeRemoval, On
  <1>8. CASE SweepEntrySkips(t)
    <2>1. /\ at[t] = "sweepEntry" /\ loc'[t].path = p /\ UNCHANGED <<fs, req, proc, raced, cut>>
          /\ Trouble(t, LstatOk(tree, Entry(t)))
          /\ at'[t] = IF Entry(t) = p THEN "return" ELSE "sweepEntry"
      BY <1>0, <1>8 DEF SweepEntrySkips, Swept, Here, Path, Locals
    <2>2. faults' = 0 => ~LstatOk(tree, Entry(t))
      <3>1. faults \in Nat /\ (t \in cut => faults > 0)
        BY CallsAssumption DEF FilesInv, FilesTypeOK
      <3>2. QED
        BY <2>1, <3>1 DEF Trouble
    <2>3. Entry(t) = p /\ faults' = 0 => Removed(t)'
      BY <1>0, <2>1, <2>2, RemovalRemoves DEF Removed, On
    <2>4. QED
      BY <1>0, <2>1, <2>3 DEF FolderInv, FolderPcs, FolderProcs, BeforeRemoval, On
  <1>9. CASE RmStep(t)
    <2> DEFINE seen == ShellTree(On(t), Here(t))
               below == Under(seen, p)
    <2>1. /\ proc[t] \in {"rm", "removing"} /\ UNCHANGED <<req, at, faults>> /\ loc'[t].path = p
          /\ at[t] \notin BeforeRemoval /\ at[t] # "return"
          /\ proc[t] = "removing" => p \in loc[t].seen
      <3>1. /\ proc[t] \in {"rm", "removing"} /\ UNCHANGED <<req, at, faults>>
            /\ proc[t] = "removing" => p \in loc[t].seen
        BY <1>9 DEF RmStep, FolderInv
      <3>2. loc'[t].path = p
        BY <1>0, <1>9 DEF RmStep, Locals
      <3>3. at[t] \notin BeforeRemoval /\ at[t] # "return"
        BY <3>1 DEF FolderInv
      <3>4. QED
        BY <3>1, <3>2, <3>3
    <2>2. proc'[t] \in {"ok", "removing", "failed"} /\ (proc'[t] = "removing" => p \in loc'[t].seen)
      <3>1. CASE proc[t] = "removing"
        BY <1>0, <1>9, <2>1, <3>1 DEF RmStep, Becomes
      <3>2. CASE proc[t] = "rm"
        <4>1. /\ proc'[t] \in {"ok", "removing", "failed"}
              /\ proc'[t] = "removing" => below # {} /\ loc'[t].seen = below
          BY <1>0, <1>9, <3>2 DEF RmStep, Becomes, Path, Locals
        <4>2. below # {} => p \in below
          <5>1. ASSUME NEW q \in below PROVE p \in below
            <6>1. WellFormed(seen) /\ IsPath(p) /\ IsPrefix(p, p)
              BY <1>0, TreesAre, PrefixSelf DEF Canonic
            <6>2. q \in DOMAIN seen /\ IsPrefix(p, q)
              BY DEF Under
            <6>3. p \in DOMAIN seen
              BY <6>1, <6>2, AboveAreDirs DEF IsDir
            <6>4. QED
              BY <6>1, <6>3 DEF Under
          <5>2. QED
            BY <5>1
        <4>3. QED
          BY <4>1, <4>2
      <3>3. QED
        BY <2>1, <3>1, <3>2
    <2>3. proc'[t] = "ok" => Removed(t)'
      <3>1. SUFFICES ASSUME proc'[t] = "ok", On(t) \notin Chrooted
                     PROVE  p \notin DOMAIN fs'[On(t)]
        BY <2>1 DEF Removed, On
      <3>2. seen = tree
        BY <3>1 DEF ShellTree, Here
      <3>3. p \notin below => p \notin DOMAIN tree
        BY <1>0, <3>2, PrefixSelf DEF Under, Canonic
      <3>4. CASE UNCHANGED fs /\ p \notin below
        BY <3>3, <3>4
      <3>5. CASE fs' = [fs EXCEPT ![On(t)] = Without(tree, p)]
        BY <1>0, <3>5, RemovalRemoves
      <3>6. \/ UNCHANGED fs /\ p \notin below
            \/ fs' = [fs EXCEPT ![On(t)] = Without(tree, p)]
        <4>1. CASE proc[t] = "rm"
          BY <1>0, <1>9, <3>1, <4>1 DEF RmStep, Becomes, Unmoved, Path
        <4>2. CASE proc[t] = "removing" /\ loc[t].seen \cap below = {}
          BY <1>0, <1>9, <2>1, <4>2, <3>1 DEF RmStep, Becomes, Unmoved, Path
        <4>3. CASE proc[t] = "removing" /\ loc[t].seen \cap below # {}
          <5>1. PICK q \in loc[t].seen \cap below :
                  /\ Children(seen, q) = {} => /\ fs' = [fs EXCEPT ![On(t)] = Without(seen, q)]
                                               /\ Becomes(t, IF q = p THEN "ok" ELSE "removing")
                  /\ Children(seen, q) # {} => Becomes(t, "failed")
            BY <1>9, <4>3 DEF RmStep, Change, Affect, Path
          <5>2. q = p /\ Children(seen, q) = {}
            BY <1>0, <3>1, <5>1 DEF Becomes
          <5>3. QED
            BY <3>2, <5>1, <5>2
        <4>4. QED
          BY <2>1, <4>1, <4>2, <4>3
      <3>7. QED
        BY <3>4, <3>5, <3>6
    <2>4. QED
      BY <1>0, <2>1, <2>2, <2>3 DEF FolderInv, FolderPcs, FolderProcs
  <1>10. QED
    BY <1>1, <1>2, <1>3, <1>4, <1>5, <1>6, <1>7, <1>8, <1>9 DEF FolderStep

LEMMA FolderUndisturbed ==
  ASSUME FilesInv, NEW t \in Calls, NEW u \in Calls \ {t}, Effect(u), FolderInv(t)
  PROVE  FolderInv(t)'
  <1>1. at'[t] = at[t] /\ loc'[t] = loc[t] /\ proc'[t] = proc[t] /\ req' = req
    BY DEF Effect, Others
  <1>2. raced \subseteq raced' /\ (faults' = 0 => faults = 0)
    <2>1. faults \in Nat /\ faults' \in Nat /\ faults <= faults'
      BY CallsAssumption DEF FilesInv, FilesTypeOK, Effect
    <2>2. QED
      BY <2>1, RacedGrows
  <1>3. t \notin raced' => (loc[t].path \in DOMAIN fs'[On(t)] <=> loc[t].path \in DOMAIN fs[On(t)])
    BY PathKept DEF Remote
  <1>4. Removed(t) => Removed(t)'
    BY <1>1, <1>2, <1>3 DEF Removed, On
  <1>5. QED
    BY <1>1, <1>2, <1>4 DEF FolderInv, On

LEMMA FolderUnmoved ==
  ASSUME FilesInv, NEW t \in Calls, FolderInv(t), UNCHANGED <<fs, req, at, loc, proc, raced>>,
         faults' = 0 => faults = 0
  PROVE  FolderInv(t)'
  BY DEF FolderInv, Removed, On

DeletesInv == FilesInv /\ \A t \in Calls : Deleting(t) => FolderInv(t)

LEMMA DeletesInit ==
  ASSUME CallsInit
  PROVE  DeletesInv
  <1>1. ASSUME NEW t \in Calls
        PROVE  FolderInv(t)
    <2>1. at[t] \in {"start", "done"} /\ loc[t] = NoLocals /\ proc[t] = "none"
      BY DEF CallsInit
    <2>2. Len(loc[t].path) <= Hops
      BY <2>1 DEF NoLocals, Hops
    <2>3. QED
      BY <2>1, <2>2 DEF FolderInv, FolderPcs, FolderProcs, BeforeRemoval
  <1>2. QED
    BY <1>1, FilesInit DEF DeletesInv

LEMMA DeletesNext ==
  ASSUME DeletesInv, [Next]_callVars
  PROVE  DeletesInv'
  <1>0. FilesInv /\ FilesInv' /\ \A t \in Calls : Deleting(t) => FolderInv(t)
    BY FilesNext DEF DeletesInv
  <1>1. ASSUME NEW u \in Calls, Step(u) \/ LoseConnection(u) \/ Cancel(u),
               NEW t \in Calls, Deleting(t)
        PROVE  FolderInv(t)'
    <2>1. Effect(u)
      BY <1>0, <1>1, StepEffect, EnvironmentEffect
    <2>2. CASE u # t
      BY <1>0, <1>1, <2>1, <2>2, FolderUndisturbed
    <2>3. CASE u = t /\ Step(u)
      <3>1. CASE FolderStep(t)
        BY <1>0, <1>1, <3>1, FolderStepKeeps
      <3>2. CASE PrepareFails(t) \/ Returns(t)
        <4>1. Ends(t) /\ UNCHANGED <<fs, req, loc, proc, raced>>
          BY <3>2 DEF PrepareFails, Returns, Raise, Ends, Outs, Quiet
        <4>2. QED
          BY <1>0, <1>1, <4>1, FolderEnds
      <3>3. QED
        BY <1>0, <1>1, <2>3, <3>1, <3>2, FolderTakes
    <2>4. CASE u = t /\ LoseConnection(u)
      <3>1. faults' = 0 => faults = 0
        BY <1>0, <2>4, CallsAssumption DEF LoseConnection, FilesInv, FilesTypeOK
      <3>2. QED
        BY <1>0, <1>1, <2>4, <3>1, FolderUnmoved DEF LoseConnection
    <2>5. CASE u = t /\ Cancel(u)
      <3>1. Ends(t) /\ UNCHANGED <<fs, req, loc, proc, raced>>
        BY <2>5 DEF Cancel, Ends, Outs
      <3>2. QED
        BY <1>0, <1>1, <3>1, FolderEnds
    <2>6. QED
      BY <1>1, <2>2, <2>3, <2>4, <2>5
  <1>2. \A t \in Calls : Deleting(t)' <=> Deleting(t)
    <2>1. UNCHANGED req
      <3>1. ASSUME NEW u \in Calls, Step(u) \/ LoseConnection(u) \/ Cancel(u) PROVE UNCHANGED req
        BY <1>0, <3>1, StepEffect, EnvironmentEffect DEF Effect
      <3>2. QED
        BY <3>1 DEF Next, Tick, Over, callVars
    <2>2. QED
      BY <2>1 DEF Deleting, Tool, Opt
  <1>3. ASSUME Tick \/ UNCHANGED callVars, NEW t \in Calls, Deleting(t)
        PROVE  FolderInv(t)'
    BY <1>0, <1>3, FolderUnmoved DEF Tick, callVars
  <1>4. \A t \in Calls : Deleting(t) => FolderInv(t)'
    BY <1>1, <1>3 DEF Next, Over
  <1>5. QED
    BY <1>0, <1>2, <1>4 DEF DeletesInv

\* A delete of a folder that comes back has deleted it, by `rmdir`, by the
\* shell's `rm`, whatever it met on its way, or by the sweep of a Windows host;
\* unless the shell sees another tree, another call put something there again,
\* or on Windows a request was refused or lost.
THEOREM FolderGoneCorrect == Spec => []FolderGone
  <1>1. CallsInit => DeletesInv
    BY DeletesInit
  <1>2. DeletesInv /\ [Next]_callVars => DeletesInv'
    BY DeletesNext
  <1>3. DeletesInv => FolderGone
    BY DEF DeletesInv, FolderInv, FolderGone, Deleting, Removed
  <1>4. QED
    BY <1>1, <1>2, <1>3, PTL DEF Spec
=============================================================================
