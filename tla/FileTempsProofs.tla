--------------------------- MODULE FileTempsProofs ---------------------------
(***************************************************************************)
(* The temporary files of the tools, for every set of hosts, trees and     *)
(* requests, and any number of calls: none outlives its call, and the one  *)
(* an edit puts in the place of its file has the mode of that file.  Nor   *)
(* does a deploy write over a file it has not set aside.                   *)
(*                                                                         *)
(* Names are of two kinds, those there are before the tools make any and   *)
(* those of temporary files (NamesAssumption).  A resolution never mixes   *)
(* them, so a tree step makes no temporary name but by copying a file that *)
(* has it; a call has at most one file with a name of its own, where it    *)
(* looks for it, and only while it is still to rename or to remove it.     *)
(***************************************************************************)
EXTENDS FileToolsProofs

-----------------------------------------------------------------------------
(* Names *)

OwnNames(t) == {TmpName(x, t) : x \in PlainNames}
Temps == UNION {OwnNames(t) : t \in Calls}

LEMMA NamesApart ==
  /\ ".." \in PlainNames /\ "" \in PlainNames /\ Nowhere \in Seq(PlainNames) /\ <<>> \in Seq(PlainNames)
  /\ \A c \in Temps : c \notin PlainNames
  /\ \A t, u \in Calls : t # u => OwnNames(t) \cap OwnNames(u) = {}
  /\ \A t \in Calls : OwnNames(t) \subseteq Temps
  /\ \A x \in PlainNames, n \in 0..MaxClock : BakName(x, n) \notin Temps
  <1>1. ".." \in PlainNames /\ "" \in PlainNames /\ Nowhere[1] \in PlainNames
    BY DEF PlainNames
  <1>2. Nowhere \in Seq(PlainNames) /\ <<>> \in Seq(PlainNames)
    <2>1. "(nowhere)" \in PlainNames /\ <<>> \in Seq(PlainNames)
      BY <1>1, EmptySeq DEF Nowhere
    <2>2. Nowhere = Append(<<>>, "(nowhere)")
      BY DEF Nowhere
    <2>3. QED
      BY <2>1, <2>2, AppendProperties
  <1>3. \A c \in Temps : c \notin PlainNames
    BY NamesAssumption DEF Temps, OwnNames
  <1>4. \A t, u \in Calls : t # u => OwnNames(t) \cap OwnNames(u) = {}
    BY NamesAssumption DEF OwnNames
  <1>5. \A x \in PlainNames, n \in 0..MaxClock : BakName(x, n) \notin Temps
    BY NamesAssumption DEF Temps, OwnNames
  <1>6. \A t \in Calls : OwnNames(t) \subseteq Temps
    BY DEF Temps
  <1>7. QED
    BY <1>1, <1>2, <1>3, <1>4, <1>5, <1>6

LEMMA PathParts ==
  ASSUME NEW S, NEW p \in Seq(S)
  PROVE  /\ IsPath(p) /\ Front(p) \in Seq(S)
         /\ p # <<>> => Last(p) \in S /\ Head(p) \in S /\ Tail(p) \in Seq(S)
         /\ \A c \in S : Append(p, c) \in Seq(S)
         /\ \A q \in Seq(S) : p \o q \in Seq(S)
  <1>1. IsPath(p)
    BY PathIntro
  <1>2. Len(p) \in Nat /\ \A i \in 1..Len(p) : p[i] \in S
    BY LenProperties
  <1>3. Front(p) \in Seq(S)
    BY <1>2, SubSeqProperties DEF Front
  <1>4. p # <<>> => Last(p) \in S
    BY <1>1, <1>2, PathDef DEF Last
  <1>5. QED
    BY <1>1, <1>3, <1>4

\* The end of a path that is added to.
LEMMA AppendEnds ==
  ASSUME NEW p, IsPath(p), NEW c
  PROVE  /\ Append(p, c) # <<>> /\ Last(Append(p, c)) = c /\ Front(Append(p, c)) = p
         /\ IsPath(Append(p, c)) /\ Head(Append(p, c)) = IF p = <<>> THEN c ELSE Head(p)
         /\ Tail(Append(p, c)) = IF p = <<>> THEN <<>> ELSE Append(Tail(p), c)
  <1> DEFINE S == Range(p) \cup {c}
  <1>1. p \in Seq(S) /\ c \in S
    BY SeqMonotonic DEF IsPath
  <1>2. /\ Append(p, c) \in Seq(S) /\ Len(Append(p, c)) = Len(p) + 1 /\ Len(p) \in Nat
        /\ \A i \in 1..Len(p) : Append(p, c)[i] = p[i]
        /\ Append(p, c)[Len(p) + 1] = c
    BY <1>1, AppendProperties, LenProperties
  <1>3. IsPath(Append(p, c)) /\ Append(p, c) # <<>>
    BY PathAppend
  <1>4. Last(Append(p, c)) = c
    BY <1>2 DEF Last
  <1>5. Front(Append(p, c)) = p
    <2>1. /\ IsPath(Front(Append(p, c))) /\ Len(Front(Append(p, c))) = Len(Append(p, c)) - 1
          /\ \A i \in 1..Len(Append(p, c)) - 1 : Front(Append(p, c))[i] = Append(p, c)[i]
      BY <1>3, PathFront
    <2>2. Len(Append(p, c)) - 1 = Len(p)
      BY <1>2
    <2>3. QED
      BY <1>2, <2>1, <2>2, PathEqual
  <1>6. CASE p = <<>>
    <2>1. Append(p, c) = <<c>>
      BY <1>6
    <2>2. QED
      BY <1>3, <1>4, <1>5, <1>6, <2>1
  <1>7. CASE p # <<>>
    <2>1. 1 <= Len(p) /\ p[1] = Head(p)
      BY <1>1, <1>7, <1>2, PathDef
    <2>2. Head(Append(p, c)) = Head(p)
      BY <1>2, <2>1
    <2>3. /\ IsPath(Tail(p)) /\ Len(Tail(p)) = Len(p) - 1 /\ \A i \in 1..Len(p) - 1 : Tail(p)[i] = p[i + 1]
      BY <1>1, <1>7, PathTail, HeadTailProperties
    <2>4. /\ IsPath(Tail(Append(p, c))) /\ Len(Tail(Append(p, c))) = Len(p)
          /\ \A i \in 1..Len(p) : Tail(Append(p, c))[i] = Append(p, c)[i + 1]
      <3>1. IsPath(Tail(Append(p, c)))
        BY <1>3, PathTail
      <3>2. /\ Len(Tail(Append(p, c))) = Len(Append(p, c)) - 1
            /\ \A i \in 1..Len(Append(p, c)) - 1 : Tail(Append(p, c))[i] = Append(p, c)[i + 1]
        BY <1>2, <1>3, HeadTailProperties
      <3>3. Len(Append(p, c)) - 1 = Len(p)
        BY <1>2
      <3>4. QED
        BY <3>1, <3>2, <3>3
    <2>5. /\ IsPath(Append(Tail(p), c)) /\ Len(Append(Tail(p), c)) = Len(p) - 1 + 1
          /\ \A i \in 1..Len(p) - 1 : Append(Tail(p), c)[i] = Tail(p)[i]
          /\ Append(Tail(p), c)[Len(p) - 1 + 1] = c
      BY <2>3, PathAppend
    <2>6. Tail(Append(p, c)) = Append(Tail(p), c)
      <3>1. \A i \in 1..Len(p) : Tail(Append(p, c))[i] = Append(Tail(p), c)[i]
        BY <1>2, <2>3, <2>4, <2>5
      <3>2. Len(Append(Tail(p), c)) = Len(p) /\ Len(Tail(Append(p, c))) = Len(p)
        BY <1>2, <2>4, <2>5
      <3>3. QED
        BY <2>4, <2>5, <3>1, <3>2, PathEqual
    <2>7. QED
      BY <1>3, <1>4, <1>5, <1>7, <2>2, <2>6
  <1>8. QED
    BY <1>6, <1>7

-----------------------------------------------------------------------------
(* Resolutions *)

\* What is so of every tree: links lead to plain names, a temporary name is that
\* of a file.
TreeOK(t) ==
  \A q \in DOMAIN t :
    /\ t[q].kind = "link" => t[q].names \in Seq(PlainNames)
    /\ q # <<>> /\ Last(q) \in Temps => t[q].kind = "file"

LEMMA WalkStepStaysIn ==
  ASSUME NEW S, PlainNames \subseteq S, NEW t, TreeOK(t), NEW last,
         NEW s, s.at \in Seq(S), s.rest \in Seq(S), s.rest # <<>>
  PROVE  WalkStep(t, s, last).at \in Seq(S) /\ WalkStep(t, s, last).rest \in Seq(S)
  <1> DEFINE c == Head(s.rest) rest == Tail(s.rest) p == Append(s.at, c)
  <1>1. c \in S /\ rest \in Seq(S) /\ p \in Seq(S) /\ <<>> \in Seq(S) /\ Front(s.at) \in Seq(S)
    BY PathParts, EmptySeq
  <1>2. ASSUME p \in DOMAIN t, t[p].kind = "link" PROVE t[p].names \o rest \in Seq(S)
    <2>1. t[p].names \in Seq(S)
      BY <1>2, SeqMonotonic DEF TreeOK
    <2>2. QED
      BY <1>1, <2>1, PathParts
  <1>3. WalkStep(t, s, last).at \in {<<>>, Front(s.at), s.at, p}
    BY DEF WalkStep
  <1>4. \/ WalkStep(t, s, last).rest = rest
        \/ p \in DOMAIN t /\ t[p].kind = "link" /\ WalkStep(t, s, last).rest = t[p].names \o rest
    BY DEF WalkStep
  <1> HIDE DEF c, rest, p
  <1>5. QED
    BY <1>1, <1>2, <1>3, <1>4

\* A resolution gives no name but those it was given and those of links.
LEMMA WalkedStaysIn ==
  ASSUME NEW S, PlainNames \subseteq S, NEW t, TreeOK(t), NEW last, NEW path \in Seq(S), NEW n \in 0..Hops
  PROVE  Walked(t, path, last)[n].at \in Seq(S) /\ Walked(t, path, last)[n].rest \in Seq(S)
  <1> DEFINE W == Walked(t, path, last)
             Good(i) == W[i].at \in Seq(S) /\ W[i].rest \in Seq(S)
             Bad == {i \in 0..Hops : ~Good(i)}
  <1>0. Hops \in Nat
    BY DEF Hops
  <1>1. /\ W[0] = [at |-> <<>>, rest |-> path, there |-> TRUE]
        /\ \A i \in 1..Hops : W[i] = IF W[i - 1].rest = <<>> THEN W[i - 1] ELSE WalkStep(t, W[i - 1], last)
    BY WalkedUnfolds
  <1> HIDE DEF W
  <1>2. SUFFICES ASSUME Bad # {} PROVE FALSE
    BY DEF W
  <1>3. Bad \in SUBSET Nat
    BY <1>0
  <1>4. PICK x \in Bad : \A y \in Bad : x <= y
    BY <1>2, <1>3, LeastNatural
  <1>5. Good(0)
    BY <1>1, EmptySeq
  <1>6. x # 0 /\ x \in 0..Hops
    BY <1>4, <1>5
  <1>7. x \in 1..Hops /\ x - 1 \in 0..Hops /\ ~(x <= x - 1)
    BY <1>0, <1>6
  <1>8. Good(x - 1)
    BY <1>4, <1>7
  <1>9. W[x - 1].rest # <<>> =>
          WalkStep(t, W[x - 1], last).at \in Seq(S) /\ WalkStep(t, W[x - 1], last).rest \in Seq(S)
    BY <1>8, WalkStepStaysIn
  <1>10. Good(x)
    BY <1>1, <1>7, <1>8, <1>9
  <1>11. QED
    BY <1>4, <1>10

LEMMA StaysIn ==
  ASSUME NEW S, PlainNames \subseteq S, NEW t, TreeOK(t), NEW p \in Seq(S)
  PROVE  RealM(t, p) \in Seq(S) /\ RealE(t, p) \in Seq(S) /\ Place(t, p) \in Seq(S)
  <1>1. Nowhere \in Seq(S) /\ <<>> \in Seq(S)
    BY NamesApart, SeqMonotonic, EmptySeq
  <1>2. ASSUME NEW last PROVE Walk(t, p, last).at \in Seq(S)
    <2>1. Walked(t, p, last)[Hops].at \in Seq(S)
      BY WalkedStaysIn DEF Hops
    <2>2. Walk(t, p, last).at \in {Walked(t, p, last)[Hops].at, Nowhere}
      BY DEF Walk
    <2>3. QED
      BY <1>1, <2>1, <2>2
  <1>3. QED
    BY <1>1, <1>2 DEF RealM, RealE, Place

LEMMA PlainStays ==
  ASSUME NEW t, TreeOK(t), NEW p \in Seq(PlainNames)
  PROVE  RealM(t, p) \in Seq(PlainNames) /\ RealE(t, p) \in Seq(PlainNames) /\ Place(t, p) \in Seq(PlainNames)
  BY StaysIn

\* On the way to a temporary name, which is that of no link.
Heads(s, c) ==
  \/ \E r \in Seq(PlainNames) : s.rest = Append(r, c) /\ s.at \in Seq(PlainNames)
  \/ s.rest = <<>> /\ \E a \in Seq(PlainNames) : s.at = Append(a, c)

LEMMA WalkStepHeads ==
  ASSUME NEW t, TreeOK(t), NEW c \in Temps, NEW s, Heads(s, c), s.rest # <<>>
  PROVE  WalkStep(t, s, TRUE) = WalkStep(t, s, FALSE) /\ Heads(WalkStep(t, s, FALSE), c)
  <1>1. PICK r \in Seq(PlainNames) : s.rest = Append(r, c) /\ s.at \in Seq(PlainNames)
    BY DEF Heads
  <1>2. c \notin PlainNames /\ c # ".."
    BY NamesApart
  <1>3. /\ Head(s.rest) = IF r = <<>> THEN c ELSE Head(r)
        /\ Tail(s.rest) = IF r = <<>> THEN <<>> ELSE Append(Tail(r), c)
    BY <1>1, PathParts, AppendEnds
  <1>4. CASE r = <<>>
    <2> DEFINE p == Append(s.at, c)
    <2>1. Head(s.rest) = c /\ Tail(s.rest) = <<>>
      BY <1>3, <1>4
    <2>2. p # <<>> /\ Last(p) = c
      BY <1>1, PathParts, AppendEnds
    <2>3. ~(p \in DOMAIN t /\ t[p].kind = "link")
      BY <2>2 DEF TreeOK
    <2> HIDE DEF p
    <2>4. ASSUME NEW last
          PROVE  WalkStep(t, s, last) = [at |-> p, rest |-> <<>>, there |-> s.there /\ p \in DOMAIN t /\ (<<>> # <<>> => IsDir(t, p))]
      BY <1>2, <2>1, <2>3 DEF WalkStep, p
    <2>5. WalkStep(t, s, TRUE) = WalkStep(t, s, FALSE)
      BY <2>4
    <2>6. WalkStep(t, s, FALSE).rest = <<>> /\ WalkStep(t, s, FALSE).at = Append(s.at, c)
      BY <1>2, <2>1, <2>3 DEF WalkStep, p
    <2>7. QED
      BY <1>1, <2>5, <2>6 DEF Heads
  <1>5. CASE r # <<>>
    <2> DEFINE p == Append(s.at, Head(r))
               rest == Append(Tail(r), c)
    <2>1. Head(s.rest) = Head(r) /\ Tail(s.rest) = rest /\ Head(r) \in PlainNames /\ Tail(r) \in Seq(PlainNames)
      BY <1>3, <1>5, PathParts
    <2>2. rest # <<>>
      BY <2>1, PathParts, AppendEnds
    <2>3. WalkStep(t, s, TRUE) = WalkStep(t, s, FALSE)
      BY <2>1, <2>2 DEF WalkStep
    <2>4. /\ WalkStep(t, s, FALSE).at \in {<<>>, Front(s.at), s.at, p}
          /\ \/ WalkStep(t, s, FALSE).rest = rest
             \/ p \in DOMAIN t /\ t[p].kind = "link" /\ WalkStep(t, s, FALSE).rest = t[p].names \o rest
      BY <2>1 DEF WalkStep
    <2>5. WalkStep(t, s, FALSE).at \in Seq(PlainNames)
      <3>1. p \in Seq(PlainNames) /\ Front(s.at) \in Seq(PlainNames) /\ <<>> \in Seq(PlainNames)
        BY <1>1, <2>1, PathParts, EmptySeq
      <3> HIDE DEF p, rest
      <3>2. QED
        BY <1>1, <2>4, <3>1
    <2>6. ASSUME p \in DOMAIN t, t[p].kind = "link"
          PROVE  \E q \in Seq(PlainNames) : t[p].names \o rest = Append(q, c)
      <3>1. t[p].names \in Seq(PlainNames)
        BY <2>6 DEF TreeOK
      <3>2. t[p].names \o Tail(r) \in Seq(PlainNames)
        BY <2>1, <3>1, PathParts
      <3>3. t[p].names \o rest = Append(t[p].names \o Tail(r), c)
        <4> DEFINE S == PlainNames \cup {c}
        <4>1. t[p].names \in Seq(S) /\ Tail(r) \in Seq(S) /\ <<c>> \in Seq(S) /\ c \in S
          BY <2>1, <3>1, SeqMonotonic
        <4> HIDE DEF S
        <4>2. rest = Tail(r) \o <<c>> /\ t[p].names \o Tail(r) \in Seq(S)
          BY <4>1, AppendIsConcat, ConcatProperties
        <4>3. \A x, y, z \in Seq(S) : (x \o y) \o z = x \o (y \o z)
          BY ConcatAssociative
        <4>4. Append(t[p].names \o Tail(r), c) = (t[p].names \o Tail(r)) \o <<c>>
          BY <4>1, <4>2, AppendIsConcat
        <4>5. QED
          <5>1. (t[p].names \o Tail(r)) \o <<c>> = t[p].names \o (Tail(r) \o <<c>>)
            BY <4>1, <4>3
          <5> HIDE DEF rest
          <5>2. QED
            BY <4>2, <4>4, <5>1
      <3>4. QED
        BY <3>2, <3>3
    <2>7. \E q \in Seq(PlainNames) : WalkStep(t, s, FALSE).rest = Append(q, c)
      BY <2>1, <2>4, <2>6
    <2>8. QED
      BY <2>3, <2>5, <2>7 DEF Heads
  <1>6. QED
    BY <1>4, <1>5

LEMMA TmpWalked ==
  ASSUME NEW t, TreeOK(t), NEW c \in Temps, NEW d \in Seq(PlainNames), NEW n \in 0..Hops
  PROVE  /\ Walked(t, Append(d, c), TRUE)[n] = Walked(t, Append(d, c), FALSE)[n]
         /\ Heads(Walked(t, Append(d, c), FALSE)[n], c)
  <1> DEFINE path == Append(d, c)
             V == Walked(t, path, TRUE)
             W == Walked(t, path, FALSE)
             Good(i) == V[i] = W[i] /\ Heads(W[i], c)
             Bad == {i \in 0..Hops : ~Good(i)}
  <1>0. Hops \in Nat
    BY DEF Hops
  <1>1. /\ W[0] = [at |-> <<>>, rest |-> path, there |-> TRUE]
        /\ \A i \in 1..Hops : W[i] = IF W[i - 1].rest = <<>> THEN W[i - 1] ELSE WalkStep(t, W[i - 1], FALSE)
    BY WalkedUnfolds
  <1>2. /\ V[0] = [at |-> <<>>, rest |-> path, there |-> TRUE]
        /\ \A i \in 1..Hops : V[i] = IF V[i - 1].rest = <<>> THEN V[i - 1] ELSE WalkStep(t, V[i - 1], TRUE)
    BY WalkedUnfolds
  <1> HIDE DEF V, W
  <1>3. SUFFICES ASSUME Bad # {} PROVE FALSE
    BY DEF V, W
  <1>4. Bad \in SUBSET Nat
    BY <1>0
  <1>5. PICK x \in Bad : \A y \in Bad : x <= y
    BY <1>3, <1>4, LeastNatural
  <1>6. Good(0)
    <2>1. <<>> \in Seq(PlainNames)
      BY NamesApart
    <2>2. QED
      BY <1>1, <1>2, <2>1 DEF Heads
  <1>7. x # 0 /\ x \in 0..Hops
    BY <1>5, <1>6
  <1>8. x \in 1..Hops /\ x - 1 \in 0..Hops /\ ~(x <= x - 1)
    BY <1>0, <1>7
  <1>9. Good(x - 1)
    BY <1>5, <1>8
  <1>10. W[x - 1].rest # <<>> =>
           WalkStep(t, W[x - 1], TRUE) = WalkStep(t, W[x - 1], FALSE) /\ Heads(WalkStep(t, W[x - 1], FALSE), c)
    BY <1>9, WalkStepHeads
  <1>11. Good(x)
    BY <1>1, <1>2, <1>8, <1>9, <1>10
  <1>12. QED
    BY <1>5, <1>11

\* A temporary name is looked for, and found, in one place.
LEMMA TmpPlace ==
  ASSUME NEW t, TreeOK(t), NEW c \in Temps, NEW d \in Seq(PlainNames)
  PROVE  /\ RealM(t, Append(d, c)) = Place(t, Append(d, c))
         /\ \/ RealM(t, Append(d, c)) = Nowhere
            \/ \E a \in Seq(PlainNames) : RealM(t, Append(d, c)) = Append(a, c)
  <1> DEFINE path == Append(d, c)
             W == Walked(t, path, FALSE)
  <1>1. Hops \in 0..Hops
    BY DEF Hops
  <1>2. Walked(t, path, TRUE)[Hops] = W[Hops] /\ Heads(W[Hops], c)
    BY <1>1, TmpWalked
  <1>3. path # <<>>
    BY PathParts, AppendEnds
  <1> HIDE DEF path, W
  <1>4. /\ RealM(t, path) = IF W[Hops].rest = <<>> THEN W[Hops].at ELSE Nowhere
        /\ Place(t, path) = IF W[Hops].rest = <<>> THEN W[Hops].at ELSE Nowhere
    BY <1>2, <1>3 DEF RealM, Place, Walk, W
  <1>5. W[Hops].rest = <<>> => \E a \in Seq(PlainNames) : W[Hops].at = Append(a, c)
    <2>1. \A r \in Seq(PlainNames) : Append(r, c) # <<>>
      BY PathParts, AppendEnds
    <2>2. QED
      BY <1>2, <2>1 DEF Heads
  <1>6. QED
    BY <1>4, <1>5 DEF path

\* Resolution looks at nothing but the links.
IsLink(t, q) == q \in DOMAIN t /\ t[q].kind = "link"
SameLinks(t, u) ==
  \A q : /\ IsLink(t, q) <=> IsLink(u, q)
         /\ IsLink(t, q) => t[q].abs = u[q].abs /\ t[q].names = u[q].names

LEMMA SameStep ==
  ASSUME NEW t, NEW u, SameLinks(t, u), NEW last, NEW r, NEW s, r.at = s.at, r.rest = s.rest
  PROVE  /\ WalkStep(t, r, last).at = WalkStep(u, s, last).at
         /\ WalkStep(t, r, last).rest = WalkStep(u, s, last).rest
  <1> DEFINE c == Head(s.rest) rest == Tail(s.rest) p == Append(s.at, c)
             goes == rest # <<>> \/ last
  <1>1. IsLink(t, p) <=> IsLink(u, p)
    BY DEF SameLinks
  <1>2. CASE c = ".."
    BY <1>2 DEF WalkStep
  <1>3. CASE c # ".." /\ IsLink(t, p) /\ goes
    <2>1. t[p].abs = u[p].abs /\ t[p].names = u[p].names
      BY <1>3 DEF SameLinks
    <2>2. WalkStep(t, r, last) = [at |-> IF t[p].abs THEN <<>> ELSE s.at, rest |-> t[p].names \o rest,
                                  there |-> r.there]
      BY <1>3 DEF WalkStep, IsLink
    <2>3. WalkStep(u, s, last) = [at |-> IF u[p].abs THEN <<>> ELSE s.at, rest |-> u[p].names \o rest,
                                  there |-> s.there]
      BY <1>1, <1>3 DEF WalkStep, IsLink
    <2> HIDE DEF c, rest, p
    <2>4. QED
      BY <2>1, <2>2, <2>3
  <1>4. CASE c # ".." /\ ~(IsLink(t, p) /\ goes)
    <2>1. WalkStep(t, r, last).at = p /\ WalkStep(t, r, last).rest = rest
      BY <1>4 DEF WalkStep, IsLink
    <2>2. WalkStep(u, s, last).at = p /\ WalkStep(u, s, last).rest = rest
      BY <1>1, <1>4 DEF WalkStep, IsLink
    <2>3. QED
      BY <2>1, <2>2
  <1>5. QED
    BY <1>2, <1>3, <1>4

LEMMA SameWalked ==
  ASSUME NEW t, NEW u, SameLinks(t, u), NEW path, NEW last, NEW n \in 0..Hops
  PROVE  /\ Walked(t, path, last)[n].at = Walked(u, path, last)[n].at
         /\ Walked(t, path, last)[n].rest = Walked(u, path, last)[n].rest
  <1> DEFINE V == Walked(t, path, last)
             W == Walked(u, path, last)
             Good(i) == V[i].at = W[i].at /\ V[i].rest = W[i].rest
             Bad == {i \in 0..Hops : ~Good(i)}
  <1>0. Hops \in Nat
    BY DEF Hops
  <1>1. /\ W[0] = [at |-> <<>>, rest |-> path, there |-> TRUE]
        /\ \A i \in 1..Hops : W[i] = IF W[i - 1].rest = <<>> THEN W[i - 1] ELSE WalkStep(u, W[i - 1], last)
    BY WalkedUnfolds
  <1>2. /\ V[0] = [at |-> <<>>, rest |-> path, there |-> TRUE]
        /\ \A i \in 1..Hops : V[i] = IF V[i - 1].rest = <<>> THEN V[i - 1] ELSE WalkStep(t, V[i - 1], last)
    BY WalkedUnfolds
  <1> HIDE DEF V, W
  <1>3. SUFFICES ASSUME Bad # {} PROVE FALSE
    BY DEF V, W
  <1>4. Bad \in SUBSET Nat
    BY <1>0
  <1>5. PICK x \in Bad : \A y \in Bad : x <= y
    BY <1>3, <1>4, LeastNatural
  <1>6. Good(0)
    BY <1>1, <1>2
  <1>7. x # 0 /\ x \in 0..Hops
    BY <1>5, <1>6
  <1>8. x \in 1..Hops /\ x - 1 \in 0..Hops /\ ~(x <= x - 1)
    BY <1>0, <1>7
  <1>9. Good(x - 1)
    BY <1>5, <1>8
  <1>10. /\ WalkStep(t, V[x - 1], last).at = WalkStep(u, W[x - 1], last).at
         /\ WalkStep(t, V[x - 1], last).rest = WalkStep(u, W[x - 1], last).rest
    BY <1>9, SameStep
  <1>11. Good(x)
    BY <1>1, <1>2, <1>8, <1>9, <1>10
  <1>12. QED
    BY <1>5, <1>11

LEMMA SameResolution ==
  ASSUME NEW t, NEW u, SameLinks(t, u), NEW p
  PROVE  RealM(t, p) = RealM(u, p) /\ Place(t, p) = Place(u, p)
  <1>1. ASSUME NEW last PROVE Walk(t, p, last).at = Walk(u, p, last).at
    <2>1. Hops \in 0..Hops
      BY DEF Hops
    <2>2. /\ Walked(t, p, last)[Hops].at = Walked(u, p, last)[Hops].at
          /\ Walked(t, p, last)[Hops].rest = Walked(u, p, last)[Hops].rest
      BY <2>1, SameWalked
    <2>3. QED
      BY <2>2 DEF Walk
  <1>2. QED
    BY <1>1 DEF RealM, Place

-----------------------------------------------------------------------------
(* Resolved paths have names that were there *)

LEMMA NormPlain ==
  ASSUME NEW path \in Seq(PlainNames)
  PROVE  Norm(path) \in Seq(PlainNames)
  <1> DEFINE N == Len(path)
             W == Normed(path)
             Good(n) == W[n] \in Seq(PlainNames)
             S == {n \in 0..N : ~Good(n)}
  <1>0. N \in Nat /\ IsPath(path) /\ \A i \in 1..N : path[i] \in PlainNames
    BY PathIntro, LenProperties
  <1>1. \A i \in 0..N : W[i] = IF i = 0 THEN <<>>
                               ELSE IF path[i] # ".." THEN Append(W[i - 1], path[i])
                               ELSE IF W[i - 1] = <<>> THEN <<>> ELSE Front(W[i - 1])
    <2>1. \E f : Norms(f, N, path)
      BY <1>0, NormsExist
    <2>2. Norms(W, N, path)
      BY <2>1 DEF Norms, Normed
    <2> HIDE DEF W
    <2>3. QED
      BY <2>2 DEF Norms
  <1> HIDE DEF W
  <1>2. Good(0)
    <2>1. 0 \in 0..N /\ <<>> \in Seq(PlainNames)
      BY <1>0, EmptySeq
    <2>2. W[0] = <<>>
      BY <1>1, <2>1
    <2>3. QED
      BY <2>1, <2>2
  <1>3. ASSUME NEW n \in 1..N, Good(n - 1) PROVE Good(n)
    <2>1. W[n] = IF path[n] # ".." THEN Append(W[n - 1], path[n])
                 ELSE IF W[n - 1] = <<>> THEN <<>> ELSE Front(W[n - 1])
      BY <1>0, <1>1
    <2>2. path[n] \in PlainNames /\ <<>> \in Seq(PlainNames)
      BY <1>0, EmptySeq
    <2>3. Append(W[n - 1], path[n]) \in Seq(PlainNames) /\ Front(W[n - 1]) \in Seq(PlainNames)
      BY <1>3, <2>2, PathParts
    <2>4. QED
      BY <2>1, <2>2, <2>3
  <1>4. S = {}
    <2> HIDE DEF Good
    <2>1. SUFFICES ASSUME S # {} PROVE FALSE
      OBVIOUS
    <2>2. S \in SUBSET Nat
      BY <1>0
    <2>3. PICK x \in S : \A y \in S : x <= y
      BY <2>1, <2>2, LeastNatural
    <2>4. x \in 0..N /\ ~Good(x)
      OBVIOUS
    <2>5. x # 0
      BY <1>2, <2>4
    <2>6. x \in 1..N /\ x - 1 \in 0..N /\ x - 1 \notin S
      BY <1>0, <2>3, <2>4, <2>5
    <2>7. QED
      BY <1>3, <2>4, <2>6
  <1>5. N \in 0..N
    BY <1>0
  <1>6. W[N] \in Seq(PlainNames)
    BY <1>4, <1>5
  <1>7. QED
    BY <1>6 DEF Norm, W

LEMMA ShellTreeOK ==
  ASSUME NEW h, NEW t, TreeOK(t)
  PROVE  TreeOK(ShellTree(h, t))
  <1> DEFINE T == [p \in {<<>>} |-> Dir]
  <1>1. DOMAIN T = {<<>>} /\ T[<<>>].kind = "dir"
    BY DEF Dir
  <1>2. TreeOK(T)
    BY <1>1 DEF TreeOK
  <1>3. QED
    BY <1>2 DEF ShellTree

LEMMA CheckedPlain ==
  ASSUME NEW h, NEW t, TreeOK(t), NEW path \in Seq(PlainNames), NEW mustExist,
         NEW q \in CanonicalizeAndCheck(h, t, path, mustExist)
  PROVE  q \in Seq(PlainNames)
  <1> DEFINE shell == IF mustExist THEN RealE(ShellTree(h, t), path) ELSE RealM(ShellTree(h, t), path)
             sftp == SftpReal(t, path)
  <1>1. shell \in Seq(PlainNames)
    BY ShellTreeOK, PlainStays
  <1>2. sftp \in Seq(PlainNames)
    <2>1. sftp \in {RealM(t, path), Nowhere}
      BY DEF SftpReal
    <2>2. QED
      BY <2>1, PlainStays, NamesApart
  <1>3. q \in {shell, sftp, Norm(path)}
    BY DEF CanonicalizeAndCheck, Canonical
  <1> HIDE DEF shell, sftp
  <1>4. QED
    BY <1>1, <1>2, <1>3, NormPlain

LEMMA LocalPlain ==
  ASSUME NEW t, TreeOK(t), NEW path \in Seq(PlainNames), NEW mode, NEW q \in ResolveLocal(t, path, mode)
  PROVE  q \in Seq(PlainNames)
  <1> DEFINE loose == RealM(t, path)
             parent == RealE(t, Front(loose))
  <1>1. loose \in Seq(PlainNames) /\ RealE(t, path) \in Seq(PlainNames)
    BY PlainStays
  <1>2. parent \in Seq(PlainNames) /\ (loose # <<>> => Append(parent, Last(loose)) \in Seq(PlainNames))
    BY <1>1, PathParts, PlainStays
  <1>3. q = RealE(t, path) \/ (loose # <<>> /\ q = Append(parent, Last(loose)))
    BY DEF ResolveLocal
  <1>4. QED
    BY <1>1, <1>2, <1>3

-----------------------------------------------------------------------------
(* What the requests do to the names of a tree *)

\* The temporary names there are.
TempsIn(t) == {c \in Temps : \E q \in DOMAIN t : q # <<>> /\ Last(q) = c}
\* A step from t to u that makes no temporary name but those of new.
Tidy(t, u, new) == TreeOK(u) /\ TempsIn(u) \subseteq TempsIn(t) \cup new

LEMMA TidyTransitive ==
  ASSUME NEW t, NEW u, NEW v, Tidy(t, u, {}), NEW new, Tidy(u, v, new)
  PROVE  Tidy(t, v, new)
  BY DEF Tidy

LEMMA TidyMore ==
  ASSUME NEW t, NEW u, NEW new, NEW more, Tidy(t, u, new), new \subseteq more
  PROVE  Tidy(t, u, more)
  BY DEF Tidy

LEMMA TidyIntro ==
  ASSUME NEW t, NEW u, NEW new, TreeOK(u),
         \A q \in DOMAIN u : q # <<>> /\ Last(q) \in Temps => Last(q) \in new \/ \E r \in DOMAIN t : r # <<>> /\ Last(r) = Last(q)
  PROVE  Tidy(t, u, new)
  BY DEF Tidy, TempsIn

LEMMA NodesTidy ==
  ASSUME NEW t, TreeOK(t), NEW u, DOMAIN u \subseteq DOMAIN t,
         \A q \in DOMAIN u : u[q].kind = t[q].kind /\ (u[q].kind = "link" => u[q].names = t[q].names)
  PROVE  Tidy(t, u, {})
  <1>1. TreeOK(u)
    BY DEF TreeOK
  <1>2. QED
    BY <1>1, TidyIntro

LEMMA WithoutTidy ==
  ASSUME NEW t, TreeOK(t), NEW p
  PROVE  Tidy(t, Without(t, p), {})
  <1>1. DOMAIN Without(t, p) \subseteq DOMAIN t /\ \A q \in DOMAIN Without(t, p) : Without(t, p)[q] = t[q]
    BY DEF Without, Restrict, Under
  <1>2. QED
    BY <1>1, NodesTidy

LEMMA ShellTidy ==
  ASSUME NEW h, NEW t, TreeOK(t)
  PROVE  Tidy(t, ShellTree(h, t), {})
  <1>1. CASE h \notin Chrooted
    <2>1. ShellTree(h, t) = t
      BY <1>1 DEF ShellTree
    <2>2. QED
      BY <2>1 DEF Tidy
  <1>2. CASE h \in Chrooted
    <2>1. DOMAIN ShellTree(h, t) = {<<>>}
      BY <1>2 DEF ShellTree
    <2>2. QED
      BY <2>1, ShellTreeOK, TidyIntro
  <1>3. QED
    BY <1>1, <1>2

LEMMA PutTidy ==
  ASSUME NEW t, TreeOK(t), NEW p, NEW node, node.kind = "link" => node.names \in Seq(PlainNames), NEW new,
         p # <<>> /\ Last(p) \in Temps => node.kind = "file" /\ Last(p) \in new
  PROVE  Tidy(t, Put(t, p, node), new)
  <1> DEFINE T == Put(t, p, node)
  <1>1. DOMAIN T = DOMAIN t \cup {p} /\ T[p] = node /\ \A q \in DOMAIN t \ {p} : T[q] = t[q]
    BY DEF Put
  <1> HIDE DEF T
  <1>2. TreeOK(T)
    BY <1>1 DEF TreeOK
  <1>3. Tidy(t, T, new)
    BY <1>1, <1>2, TidyIntro
  <1>4. QED
    BY <1>3 DEF T

LEMMA PlainEnd ==
  ASSUME NEW S, \A c \in S : c \notin Temps, NEW p \in Seq(S), p # <<>>
  PROVE  Last(p) \notin Temps
  BY PathParts

LEMMA PlainNotTemp == \A c \in PlainNames : c \notin Temps
  BY NamesApart

LEMMA FileIs == \A text, mode : File(text, mode).kind = "file"
  BY DEF File

\* Made at a plain path, whatever the node.
LEMMA PutPlainTidy ==
  ASSUME NEW t, TreeOK(t), NEW p \in Seq(PlainNames), NEW node,
         node.kind = "link" => node.names \in Seq(PlainNames)
  PROVE  Tidy(t, Put(t, p, node), {})
  BY PutTidy, PlainEnd, PlainNotTemp

\* The temporary file of a call.
LEMMA CreateTmpTidy ==
  ASSUME NEW t, TreeOK(t), NEW d \in Seq(PlainNames), NEW c \in Temps, NEW text, NEW mode,
         CanCreate(t, Append(d, c)), NEW new, c \in new
  PROVE  Tidy(t, CreateTree(t, Append(d, c), File(text, mode)), new)
  <1>1. PICK a \in Seq(PlainNames) : RealM(t, Append(d, c)) = Append(a, c)
    BY TmpPlace DEF CanCreate
  <1>2. Last(RealM(t, Append(d, c))) = c
    BY <1>1, PathParts, AppendEnds
  <1>3. QED
    BY <1>2, FileIs, PutTidy DEF CreateTree

\* What a file is written leaves everything where it is.
LEMMA RewriteSame ==
  ASSUME NEW t, WellFormed(t), TreeOK(t), NEW p, NEW x, NEW places,
         NEW u \in {[t EXCEPT ![p].text = x], [t EXCEPT ![p].mode = x], Grow(t, places, x)}
  PROVE  DOMAIN u = DOMAIN t /\ SameLinks(t, u) /\ Tidy(t, u, {})
  <1>1. ASSUME NEW n, IsNode(n)
        PROVE  /\ [n EXCEPT !.text = x].kind = n.kind /\ [n EXCEPT !.mode = x].kind = n.kind
               /\ n.kind = "link" => /\ [n EXCEPT !.text = x].names = n.names /\ [n EXCEPT !.mode = x].names = n.names
                                     /\ [n EXCEPT !.text = x].abs = n.abs /\ [n EXCEPT !.mode = x].abs = n.abs
    BY <1>1 DEF IsNode
  <1>2. \A q \in DOMAIN t : IsNode(t[q])
    BY TreePaths
  <1>3. /\ DOMAIN u = DOMAIN t
        /\ \A q \in DOMAIN t : u[q] \in {t[q], [t[q] EXCEPT !.text = x], [t[q] EXCEPT !.mode = x]}
    BY DEF Grow
  <1>4. \A q \in DOMAIN t : /\ u[q].kind = t[q].kind
                            /\ t[q].kind = "link" => u[q].names = t[q].names /\ u[q].abs = t[q].abs
    BY <1>1, <1>2, <1>3
  <1>5. SameLinks(t, u)
    BY <1>3, <1>4 DEF SameLinks, IsLink
  <1>6. Tidy(t, u, {})
    BY <1>3, <1>4, NodesTidy
  <1>7. QED
    BY <1>3, <1>5, <1>6

LEMMA RebaseLast ==
  ASSUME NEW q, IsPath(q), NEW s, IsPath(s), NEW d, IsPath(d), IsPrefix(s, q), q # s
  PROVE  q # <<>> /\ Last(Rebase(q, s, d)) = Last(q)
  <1>1. Len(q) \in Nat /\ Len(s) \in Nat /\ Len(d) \in Nat /\ Len(s) <= Len(q)
        /\ (\A i \in 1..Len(s) : s[i] = q[i])
    BY PathDef, PathPrefix
  <1>2. Len(s) # Len(q)
    BY <1>1, PathEqual
  <1>3. q # <<>>
    BY <1>1, <1>2, PathDef
  <1>4. Len(d) + Len(q) - Len(s) \in 1..Len(d) + Len(q) - Len(s) /\ ~(Len(d) + Len(q) - Len(s) <= Len(d))
        /\ Len(d) + Len(q) - Len(s) - Len(d) + Len(s) = Len(q)
    BY <1>1, <1>2
  <1>5. Rebase(q, s, d)[Len(d) + Len(q) - Len(s)] = q[Len(q)]
    BY <1>4, RebaseAt
  <1>6. Len(Rebase(q, s, d)) = Len(d) + Len(q) - Len(s)
    BY RebaseIsPath
  <1>7. QED
    BY <1>3, <1>5, <1>6 DEF Last

\* A copy, of the whole or of what the clashes leave, under another name.
LEMMA CopiesTidy ==
  ASSUME NEW t, WellFormed(t), TreeOK(t), NEW s, IsPath(s), s # <<>>,
         NEW d, IsPath(d), d # <<>>, d # Nowhere, Last(d) \in Temps => Last(d) = Last(s),
         NEW new, new \subseteq Copies(t, s, d),
         NEW u, DOMAIN u \subseteq DOMAIN t \cup new,
         \A q \in DOMAIN u : u[q] = IF q \in new THEN t[Rebase(q, d, s)] ELSE t[q]
  PROVE  Tidy(t, u, {})
  <1>1. ASSUME NEW q \in DOMAIN u
        PROVE  \E r \in DOMAIN t : u[q] = t[r] /\ (q # <<>> /\ Last(q) \in Temps => r # <<>> /\ Last(r) = Last(q))
    <2>1. CASE q \in new
      <3>1. PICK q0 \in Under(t, s) : q = Rebase(q0, s, d)
        BY <2>1 DEF Copies
      <3>2. q0 \in DOMAIN t /\ IsPath(q0) /\ IsPrefix(s, q0) /\ u[q] = t[q0] /\ (q0 = s => q = d)
        BY <2>1, <3>1, CopyOf DEF Under
      <3>3. q0 # s => q0 # <<>> /\ Last(q) = Last(q0)
        BY <3>1, <3>2, RebaseLast
      <3>4. QED
        BY <3>2, <3>3
    <2>2. CASE q \notin new
      BY <2>2
    <2>3. QED
      BY <2>1, <2>2
  <1>2. TreeOK(u)
    <2>1. SUFFICES ASSUME NEW q \in DOMAIN u
                   PROVE  /\ u[q].kind = "link" => u[q].names \in Seq(PlainNames)
                          /\ q # <<>> /\ Last(q) \in Temps => u[q].kind = "file"
      BY DEF TreeOK
    <2>2. PICK r \in DOMAIN t : u[q] = t[r] /\ (q # <<>> /\ Last(q) \in Temps => r # <<>> /\ Last(r) = Last(q))
      BY <1>1
    <2>3. QED
      BY <2>2 DEF TreeOK
  <1>3. QED
    BY <1>1, <1>2, TidyIntro

LEMMA MoveTidy ==
  ASSUME NEW t, WellFormed(t), TreeOK(t), NEW s, IsPath(s), NEW d, IsPath(d), Fits(t, s, d),
         Last(d) \in Temps => Last(d) = Last(s)
  PROVE  Tidy(t, MoveTree(t, s, d), {})
  <1>1. CASE s = d
    BY <1>1 DEF MoveTree, Tidy
  <1>2. CASE s # d
    <2> DEFINE T == MoveTree(t, s, d)
    <2>1. /\ DOMAIN T \subseteq DOMAIN t \cup Copies(t, s, d)
          /\ \A q \in DOMAIN T : T[q] = IF q \in Copies(t, s, d) THEN t[Rebase(q, d, s)] ELSE t[q]
      BY <1>2 DEF MoveTree, Copies
    <2>2. s # <<>> /\ d # <<>> /\ d # Nowhere
      BY DEF Fits
    <2> HIDE DEF T
    <2>3. Tidy(t, T, {})
      BY <2>1, <2>2, CopiesTidy
    <2>4. QED
      BY <2>3 DEF T
  <1>3. QED
    BY <1>1, <1>2

LEMMA CopyTidy ==
  ASSUME NEW t, WellFormed(t), TreeOK(t), NEW s, IsPath(s), s # <<>>,
         NEW d, IsPath(d), d # <<>>, d # Nowhere, Last(d) \in Temps => Last(d) = Last(s)
  PROVE  Tidy(t, CopyTree(t, s, d), {})
  <1> DEFINE T == CopyTree(t, s, d)
             new == {q \in Copies(t, s, d) : \A c \in Clashes(t, s, d) : ~IsPrefix(c, q)}
  <1>1. /\ DOMAIN T \subseteq DOMAIN t \cup new /\ new \subseteq Copies(t, s, d)
        /\ \A q \in DOMAIN T : T[q] = IF q \in new THEN t[Rebase(q, d, s)] ELSE t[q]
    BY DEF CopyTree
  <1> HIDE DEF T, new
  <1>2. Tidy(t, T, {})
    BY <1>1, CopiesTidy
  <1>3. QED
    BY <1>2 DEF T

LEMMA PlacesArePaths ==
  ASSUME NEW t, NEW p
  PROVE  IsPath(Place(t, p)) /\ IsPath(RealM(t, p))
  BY WalkGivesPath DEF Canonic

LEMMA RenameTidy ==
  ASSUME NEW t, WellFormed(t), TreeOK(t), NEW p, NEW S, PlainNames \subseteq S, \A c \in S : c \notin Temps,
         NEW r \in Seq(S), CanRename(t, p, r)
  PROVE  Tidy(t, RenameTree(t, p, r), {})
  <1>1. Fits(t, Place(t, p), Place(t, r)) /\ Place(t, r) # <<>>
    BY DEF CanRename, Fits
  <1>2. Last(Place(t, r)) \notin Temps
    BY <1>1, StaysIn, PlainEnd
  <1>3. QED
    BY <1>1, <1>2, PlacesArePaths, MoveTidy DEF RenameTree

\* The name of a call's temporary file for a path, and where it looks for it.
LEMMA TmpOfPlain ==
  ASSUME NEW t \in Calls, NEW p \in Seq(PlainNames)
  PROVE  /\ NameOf(p) \in PlainNames /\ TmpName(NameOf(p), t) \in OwnNames(t) /\ TmpName(NameOf(p), t) \in Temps
         /\ \E d \in Seq(PlainNames) : TmpOf(t, p) = Append(d, TmpName(NameOf(p), t)) /\ d = Front(p)
         /\ TmpOf(t, p) # <<>> /\ Last(TmpOf(t, p)) = TmpName(NameOf(p), t)
  <1>1. NameOf(p) \in PlainNames
    BY PathParts, NamesApart DEF NameOf
  <1>2. TmpName(NameOf(p), t) \in OwnNames(t)
    BY <1>1 DEF OwnNames
  <1>3. TmpName(NameOf(p), t) \in Temps
    BY <1>2, NamesApart
  <1>4. Front(p) \in Seq(PlainNames) /\ TmpOf(t, p) = Append(Front(p), TmpName(NameOf(p), t))
    BY PathParts DEF TmpOf
  <1>5. IsPath(Front(p))
    BY <1>4, PathIntro
  <1>6. TmpOf(t, p) # <<>> /\ Last(TmpOf(t, p)) = TmpName(NameOf(p), t)
    BY <1>4, <1>5, AppendEnds
  <1>7. QED
    BY <1>1, <1>2, <1>3, <1>4, <1>6

LEMMA TmpIs ==
  ASSUME NEW t \in Calls, NEW p \in Seq(PlainNames), NEW tree, TreeOK(tree)
  PROVE  /\ RealM(tree, TmpOf(t, p)) = Place(tree, TmpOf(t, p))
         /\ \/ RealM(tree, TmpOf(t, p)) = Nowhere
            \/ \E a \in Seq(PlainNames) : RealM(tree, TmpOf(t, p)) = Append(a, TmpName(NameOf(p), t))
         /\ RealM(tree, TmpOf(t, p)) # Nowhere =>
              RealM(tree, TmpOf(t, p)) # <<>> /\ Last(RealM(tree, TmpOf(t, p))) = TmpName(NameOf(p), t)
  <1>1. PICK d \in Seq(PlainNames) : TmpOf(t, p) = Append(d, TmpName(NameOf(p), t))
    BY TmpOfPlain
  <1>2. TmpName(NameOf(p), t) \in Temps
    BY TmpOfPlain
  <1>3. /\ RealM(tree, TmpOf(t, p)) = Place(tree, TmpOf(t, p))
        /\ \/ RealM(tree, TmpOf(t, p)) = Nowhere
           \/ \E a \in Seq(PlainNames) : RealM(tree, TmpOf(t, p)) = Append(a, TmpName(NameOf(p), t))
    BY <1>1, <1>2, TmpPlace
  <1>4. \A a \in Seq(PlainNames) : /\ Append(a, TmpName(NameOf(p), t)) # <<>>
                                   /\ Last(Append(a, TmpName(NameOf(p), t))) = TmpName(NameOf(p), t)
    BY PathParts, AppendEnds
  <1>5. QED
    BY <1>3, <1>4

\* Where `cp` and `mv` put a source: never under another temporary name than its own.
Sourced(src) == src \in Seq(PlainNames) \/ \E t \in Calls, p \in Seq(PlainNames) : src = TmpOf(t, p)
LEMMA TargetEnds ==
  ASSUME NEW t, WellFormed(t), TreeOK(t), NEW src, Sourced(src), src # <<>>, Place(t, src) \in DOMAIN t,
         NEW dst \in Seq(PlainNames), Target(t, src, dst) # <<>>, Last(Target(t, src, dst)) \in Temps
  PROVE  Last(Target(t, src, dst)) = Last(Place(t, src))
  <1>1. CASE ~IsDir(t, RealM(t, dst))
    <2>1. Target(t, src, dst) = Place(t, dst)
      BY <1>1 DEF Target
    <2>2. QED
      BY <2>1, PlainStays, PlainEnd, PlainNotTemp
  <1>2. CASE IsDir(t, RealM(t, dst))
    <2>1. Target(t, src, dst) = Append(RealM(t, dst), Last(src))
      BY <1>2 DEF Target
    <2>2. Last(Target(t, src, dst)) = Last(src)
      BY <2>1, PlacesArePaths, AppendEnds
    <2>3. CASE src \in Seq(PlainNames)
      BY <2>2, <2>3, PlainEnd, PlainNotTemp
    <2>4. ASSUME NEW u \in Calls, NEW p \in Seq(PlainNames), src = TmpOf(u, p)
          PROVE  Last(Target(t, src, dst)) = Last(Place(t, src))
      <3>1. Place(t, src) # Nowhere
        BY DEF WellFormed
      <3>2. Last(Place(t, src)) = Last(src)
        BY <2>4, <3>1, TmpIs, TmpOfPlain
      <3>3. QED
        BY <2>2, <3>2
    <2>5. QED
      BY <2>3, <2>4 DEF Sourced
  <1>3. QED
    BY <1>1, <1>2

LEMMA MvTidy ==
  ASSUME NEW t, WellFormed(t), TreeOK(t), NEW src, Sourced(src), NEW dst \in Seq(PlainNames), CanMv(t, src, dst)
  PROVE  /\ Tidy(t, MvTree(t, src, dst), {})
         /\ Tidy(t, CopyTree(Without(t, Target(t, src, dst)), Place(t, src), Target(t, src, dst)), {})
  <1> DEFINE s == Place(t, src) d == Target(t, src, dst) T == Without(t, d)
  <1>1. IsPath(s) /\ IsPath(d) /\ Fits(t, s, d)
    BY TargetIsPath, PlacesArePaths DEF CanMv
  <1>2. s # <<>> /\ d # <<>> /\ d # Nowhere /\ s \in DOMAIN t /\ src # <<>>
    BY <1>1 DEF Fits, CanMv
  <1>3. Last(d) \in Temps => Last(d) = Last(s)
    BY <1>2, TargetEnds
  <1>4. Tidy(t, MvTree(t, src, dst), {})
    BY <1>1, <1>3, MoveTidy DEF MvTree
  <1> HIDE DEF s, d
  <1>5. WellFormed(T) /\ Tidy(t, T, {})
    BY <1>1, <1>2, WithoutWellFormed, WithoutTidy
  <1>6. Tidy(T, CopyTree(T, s, d), {})
    BY <1>1, <1>2, <1>3, <1>5, CopyTidy DEF Tidy
  <1>7. Tidy(t, CopyTree(T, s, d), {})
    BY <1>5, <1>6, TidyTransitive
  <1>8. QED
    BY <1>4, <1>7 DEF s, d

LEMMA CpTidy ==
  ASSUME NEW t, WellFormed(t), TreeOK(t), NEW src \in Seq(PlainNames), NEW dst \in Seq(PlainNames), CanCp(t, src, dst)
  PROVE  Tidy(t, CpTree(t, src, dst), {})
  <1> DEFINE s == Place(t, src) d == Target(t, src, dst)
  <1>1. IsPath(s) /\ IsPath(d) /\ d # <<>> /\ d # Nowhere /\ src # <<>> /\ s \in DOMAIN t /\ ~IsPrefix(s, d)
    BY TargetIsPath, PlacesArePaths DEF CanCp
  <1>2. s # <<>>
    BY <1>1, EmptyCanonic, PathPrefix, PathDef
  <1>3. Last(d) \in Temps => Last(d) = Last(s)
    BY <1>1, TargetEnds DEF Sourced
  <1> HIDE DEF s, d
  <1>4. Tidy(t, CopyTree(t, s, d), {})
    BY <1>1, <1>2, <1>3, CopyTidy
  <1>5. QED
    BY <1>4 DEF CpTree, s, d

-----------------------------------------------------------------------------
(* What the names of a call are, and what its tool and process may be where it is *)

NamesInv ==
  /\ \A h \in DOMAIN fs : TreeOK(fs[h])
  /\ \A t \in Calls :
       /\ loc[t].path \in Seq(PlainNames) /\ loc[t].to \in Seq(PlainNames)
       /\ req[t].path \in Seq(PlainNames) /\ req[t].to \in Seq(PlainNames)
       /\ Opt(t, "local") => req[t].peer = Mcp
       /\ req[t].peer \in DOMAIN fs

SudoPcs == {"sudoEditRead", "owner", "mode", "pipe"}
LocalPcs == {"localOpen", "localRead", "localCopy", "localReplace", "localSweep"}
\* Where a process may have been started.
Late == {"pipe", "shell", "localSweep", "return", "done"}
ShellProcs == {"rm", "removing"} \cup OtherTreeProcs

Downloads(t) == Tool(t) = "ssh_sftp_download" /\ Opt(t, "local")
AtInv(t) ==
  /\ at[t] \in SudoPcs => Tool(t) \in SudoWrites
  /\ at[t] \in LocalPcs => Downloads(t)
  /\ at[t] = "downloadStat" /\ Opt(t, "local") => Downloads(t)
  /\ at[t] = "start" => loc[t].todo = <<>>
  /\ at[t] = "parentStat" => Len(loc[t].todo) \in Nat /\ (Path(t) = <<>> \/ Len(loc[t].todo) < Len(Path(t)))
  /\ at[t] = "parentMake" => Len(loc[t].todo) \in Nat /\ Len(loc[t].todo) < Len(Path(t))
ProcInv(t) ==
  /\ proc[t] # "none" => at[t] \in Late
  /\ proc[t] \in ScriptProcs => at[t] \in {"pipe", "done"} /\ Tool(t) \in SudoWrites
  /\ proc[t] \in ShellProcs => at[t] \in {"shell", "done"}
  /\ proc[t] = "replacing" => at[t] \in {"localSweep", "done"} /\ Downloads(t)

PhasesInv == ReportsInv /\ NamesInv /\ \A t \in Calls : AtInv(t) /\ ProcInv(t)

LEMMA TreesHere ==
  ASSUME PhasesInv, NEW t \in Calls
  PROVE  /\ On(t) \in DOMAIN fs /\ WellFormed(fs[On(t)]) /\ TreeOK(fs[On(t)])
         /\ Home(t) \in DOMAIN fs /\ WellFormed(fs[Home(t)]) /\ TreeOK(fs[Home(t)])
         /\ Downloads(t) => Mcp \in DOMAIN fs /\ WellFormed(fs[Mcp]) /\ TreeOK(fs[Mcp])
         /\ WellFormed(ShellSees(t)) /\ TreeOK(ShellSees(t)) /\ Tidy(fs[On(t)], ShellSees(t), {})
         /\ Path(t) \in Seq(PlainNames) /\ loc[t].path \in Seq(PlainNames) /\ loc[t].to \in Seq(PlainNames)
         /\ Final(t) \in Seq(PlainNames)
  <1>1. /\ On(t) \in DOMAIN fs /\ req[t].peer \in DOMAIN fs /\ \A h \in DOMAIN fs : WellFormed(fs[h]) /\ TreeOK(fs[h])
        /\ loc[t].path \in Seq(PlainNames) /\ loc[t].to \in Seq(PlainNames)
        /\ Opt(t, "local") => req[t].peer = Mcp
    BY DEF PhasesInv, ReportsInv, FilesInv, FilesTypeOK, NamesInv
  <1>2. Home(t) \in {On(t), req[t].peer} /\ Final(t) \in {loc[t].path, loc[t].to}
    BY DEF Home, Final
  <1>3. WellFormed(ShellSees(t)) /\ TreeOK(ShellSees(t)) /\ Tidy(fs[On(t)], ShellSees(t), {})
    BY <1>1, ShellTreeWellFormed, ShellTreeOK, ShellTidy DEF ShellSees
  <1>4. QED
    BY <1>1, <1>2, <1>3 DEF Path, Downloads

-----------------------------------------------------------------------------
(* Every step makes no temporary name, or its own *)

TidyStep(t, new) ==
  \/ UNCHANGED <<fs, raced>>
  \/ \E h \in DOMAIN fs : \E tree : Affect(t, h, tree) /\ Tidy(fs[h], tree, new)

\* The names a step may make.
News(t) == IF at[t] \in {"open", "localOpen"} \/ proc[t] = "mktemp" THEN OwnNames(t) ELSE {}

LEMMA TidyStepIntro ==
  ASSUME NEW t, NEW h \in DOMAIN fs, NEW tree, Change(t, h, tree) \/ Scratch(t, h, tree) \/ Affect(t, h, tree),
         Tidy(fs[h], tree, {}) \/ Tidy(fs[h], tree, News(t))
  PROVE  TidyStep(t, News(t))
  <1>1. Tidy(fs[h], tree, News(t))
    BY TidyMore
  <1>2. QED
    BY <1>1 DEF TidyStep, Change, Scratch

\* A call makes its temporary file.
LEMMA MakesTmp ==
  ASSUME NEW t \in Calls, NEW p \in Seq(PlainNames), NEW tree, TreeOK(tree), NEW mode,
         CanCreate(tree, TmpOf(t, p))
  PROVE  Tidy(tree, CreateTree(tree, TmpOf(t, p), File(<<>>, mode)), OwnNames(t))
  <1>1. PICK d \in Seq(PlainNames) : TmpOf(t, p) = Append(d, TmpName(NameOf(p), t))
    BY TmpOfPlain
  <1>2. TmpName(NameOf(p), t) \in OwnNames(t) /\ TmpName(NameOf(p), t) \in Temps
    BY TmpOfPlain
  <1>3. QED
    BY <1>1, <1>2, CreateTmpTidy

LEMMA WriteTidy ==
  ASSUME PhasesInv, NEW t \in Calls,
         MoveToBackup(t) \/ OpenTmp(t) \/ WriteTmp(t) \/ ChmodTmp(t) \/ RenameTmp(t) \/ SweepTmp(t)
  PROVE  TidyStep(t, News(t))
  <1> DEFINE tree == fs[Home(t)]
  <1>0. /\ On(t) \in DOMAIN fs /\ WellFormed(fs[On(t)]) /\ TreeOK(fs[On(t)])
        /\ Home(t) \in DOMAIN fs /\ WellFormed(tree) /\ TreeOK(tree)
        /\ loc[t].path \in Seq(PlainNames) /\ Final(t) \in Seq(PlainNames)
    BY TreesHere
  <1>1. CASE MoveToBackup(t)
    <2> DEFINE p == loc[t].path
               c == BakName(NameOf(p), clock)
               S == PlainNames \cup {c}
    <2>1. NameOf(p) \in PlainNames /\ Front(p) \in Seq(PlainNames)
      BY <1>0, PathParts, NamesApart DEF NameOf
    <2>2. clock \in 0..MaxClock
      BY DEF PhasesInv, ReportsInv, FilesInv, FilesTypeOK
    <2>3. PlainNames \subseteq S /\ \A x \in S : x \notin Temps
      BY <2>1, <2>2, NamesApart, PlainNotTemp
    <2>4. Backup(t) \in Seq(S)
      <3>1. Front(p) \in Seq(S) /\ c \in S
        BY <2>1, SeqMonotonic
      <3>2. QED
        BY <3>1, AppendProperties DEF Backup
    <2>5. CanRename(fs[On(t)], p, Backup(t)) /\ Affect(t, On(t), RenameTree(fs[On(t)], p, Backup(t)))
      BY <1>1 DEF MoveToBackup
    <2> HIDE DEF S
    <2>6. Tidy(fs[On(t)], RenameTree(fs[On(t)], p, Backup(t)), {})
      BY <1>0, <2>3, <2>4, <2>5, RenameTidy
    <2>7. QED
      BY <1>0, <2>5, <2>6, TidyStepIntro
  <1>2. CASE OpenTmp(t)
    <2>1. /\ at[t] = "open" /\ CanCreate(tree, Tmp(t))
          /\ Scratch(t, Home(t), CreateTree(tree, Tmp(t), File(<<>>, "0644")))
      BY <1>2 DEF OpenTmp
    <2>2. Tidy(tree, CreateTree(tree, Tmp(t), File(<<>>, "0644")), OwnNames(t))
      BY <1>0, <2>1, MakesTmp DEF Tmp
    <2>3. QED
      BY <1>0, <2>1, <2>2, TidyStepIntro DEF News
  <1>3. CASE WriteTmp(t)
    <2>1. \E places, x : Scratch(t, Home(t), Grow(tree, places, x))
      BY <1>3 DEF WriteTmp
    <2>2. \A places, x : Tidy(tree, Grow(tree, places, x), {})
      BY <1>0, RewriteSame
    <2>3. QED
      BY <1>0, <2>1, <2>2, TidyStepIntro
  <1>4. CASE ChmodTmp(t)
    <2>1. \E p, x : Scratch(t, Home(t), [tree EXCEPT ![p].mode = x])
      BY <1>4 DEF ChmodTmp
    <2>2. \A p, x : Tidy(tree, [tree EXCEPT ![p].mode = x], {})
      BY <1>0, RewriteSame
    <2>3. QED
      BY <1>0, <2>1, <2>2, TidyStepIntro
  <1>5. CASE RenameTmp(t)
    <2>1. CanRename(tree, Tmp(t), Final(t)) /\ Change(t, Home(t), RenameTree(tree, Tmp(t), Final(t)))
      BY <1>5 DEF RenameTmp
    <2>2. Tidy(tree, RenameTree(tree, Tmp(t), Final(t)), {})
      BY <1>0, <2>1, RenameTidy, PlainNotTemp
    <2>3. QED
      BY <1>0, <2>1, <2>2, TidyStepIntro
  <1>6. CASE SweepTmp(t)
    <2>1. Scratch(t, Home(t), RemoveTree(tree, Tmp(t))) \/ UNCHANGED <<fs, raced>>
      BY <1>6 DEF SweepTmp
    <2>2. Tidy(tree, RemoveTree(tree, Tmp(t)), {})
      BY <1>0, WithoutTidy DEF RemoveTree
    <2>3. QED
      BY <1>0, <2>1, <2>2, TidyStepIntro DEF TidyStep
  <1>7. QED
    BY <1>1, <1>2, <1>3, <1>4, <1>5, <1>6

LEMMA ScriptTidy ==
  ASSUME PhasesInv, NEW t \in Calls, ScriptStep(t)
  PROVE  TidyStep(t, News(t))
  <1> DEFINE tree == fs[On(t)] tmp == TmpOf(t, loc[t].path)
  <1>0. /\ On(t) \in DOMAIN fs /\ WellFormed(tree) /\ TreeOK(tree) /\ loc[t].path \in Seq(PlainNames)
    BY TreesHere
  <1>1. CASE proc[t] = "mktemp"
    <2>1. \/ UNCHANGED <<fs, raced>>
          \/ CanCreate(tree, tmp) /\ Scratch(t, On(t), CreateTree(tree, tmp, File(<<>>, "0600")))
      BY <1>1 DEF ScriptStep
    <2>2. CanCreate(tree, tmp) => Tidy(tree, CreateTree(tree, tmp, File(<<>>, "0600")), OwnNames(t))
      BY <1>0, MakesTmp
    <2>3. QED
      BY <1>0, <1>1, <2>1, <2>2, TidyStepIntro DEF News, TidyStep
  <1>2. CASE proc[t] = "cat"
    <2>1. \E places, x : Scratch(t, On(t), Grow(tree, places, x))
      BY <1>2 DEF ScriptStep
    <2>2. \A places, x : Tidy(tree, Grow(tree, places, x), {})
      BY <1>0, RewriteSame
    <2>3. QED
      BY <1>0, <2>1, <2>2, TidyStepIntro
  <1>3. CASE proc[t] = "chmod"
    <2>1. UNCHANGED <<fs, raced>> \/ \E p, x : Scratch(t, On(t), [tree EXCEPT ![p].mode = x])
      BY <1>3 DEF ScriptStep
    <2>2. \A p, x : Tidy(tree, [tree EXCEPT ![p].mode = x], {})
      BY <1>0, RewriteSame
    <2>3. QED
      BY <1>0, <2>1, <2>2, TidyStepIntro DEF TidyStep
  <1>4. CASE proc[t] = "move"
    <2>1. \/ UNCHANGED <<fs, raced>>
          \/ CanMv(tree, tmp, loc[t].path) /\ Affect(t, On(t), MvTree(tree, tmp, loc[t].path))
      BY <1>4 DEF ScriptStep
    <2>2. CanMv(tree, tmp, loc[t].path) => Tidy(tree, MvTree(tree, tmp, loc[t].path), {})
      BY <1>0, MvTidy DEF Sourced
    <2>3. QED
      BY <1>0, <2>1, <2>2, TidyStepIntro DEF TidyStep
  <1>5. CASE proc[t] = "remove"
    <2>1. UNCHANGED <<fs, raced>> \/ Scratch(t, On(t), RemoveTree(tree, tmp))
      BY <1>5 DEF ScriptStep
    <2>2. Tidy(tree, RemoveTree(tree, tmp), {})
      BY <1>0, WithoutTidy DEF RemoveTree
    <2>3. QED
      BY <1>0, <2>1, <2>2, TidyStepIntro DEF TidyStep
  <1>6. QED
    BY <1>1, <1>2, <1>3, <1>4, <1>5 DEF ScriptStep

LEMMA LocalTidy ==
  ASSUME PhasesInv, NEW t \in Calls,
         LocalOpen(t) \/ LocalOpenCancelled(t) \/ LocalCopy(t) \/ LocalReplace(t) \/ ReplacingThread(t) \/ LocalSweep(t)
  PROVE  TidyStep(t, News(t))
  <1> DEFINE tree == fs[Mcp]
  <1>0. Mcp \in DOMAIN fs /\ WellFormed(tree) /\ TreeOK(tree) /\ loc[t].to \in Seq(PlainNames)
    <2>1. at[t] \in LocalPcs \/ proc[t] = "replacing"
      BY DEF LocalOpen, LocalOpenCancelled, LocalCopy, LocalReplace, ReplacingThread, LocalSweep, LocalPcs
    <2>2. Downloads(t)
      BY <2>1 DEF PhasesInv, AtInv, ProcInv
    <2>3. QED
      BY <2>2, TreesHere
  <1>1. CASE LocalOpen(t) \/ LocalOpenCancelled(t)
    <2>1. at[t] = "localOpen"
      BY <1>1 DEF LocalOpen, LocalOpenCancelled
    <2>2. \/ UNCHANGED <<fs, raced>>
          \/ CanCreate(tree, LocalTmp(t)) /\ Scratch(t, Mcp, CreateTree(tree, LocalTmp(t), File(<<>>, "0644")))
      BY <1>1 DEF LocalOpen, LocalOpenCancelled
    <2>3. CanCreate(tree, LocalTmp(t)) => Tidy(tree, CreateTree(tree, LocalTmp(t), File(<<>>, "0644")), OwnNames(t))
      BY <1>0, MakesTmp DEF LocalTmp
    <2>4. QED
      BY <1>0, <2>1, <2>2, <2>3, TidyStepIntro DEF News, TidyStep
  <1>2. CASE LocalCopy(t)
    <2>1. \E places, x : Scratch(t, Mcp, Grow(tree, places, x))
      BY <1>2 DEF LocalCopy
    <2>2. \A places, x : Tidy(tree, Grow(tree, places, x), {})
      BY <1>0, RewriteSame
    <2>3. QED
      BY <1>0, <2>1, <2>2, TidyStepIntro
  <1>3. CASE LocalReplace(t) \/ ReplacingThread(t)
    <2>1. \/ UNCHANGED <<fs, raced>>
          \/ CanReplace(t) /\ Change(t, Mcp, RenameTree(tree, LocalTmp(t), loc[t].to))
      BY <1>3 DEF LocalReplace, ReplacingThread, Replace
    <2>2. CanReplace(t) => Tidy(tree, RenameTree(tree, LocalTmp(t), loc[t].to), {})
      BY <1>0, RenameTidy, PlainNotTemp DEF CanReplace
    <2>3. QED
      BY <1>0, <2>1, <2>2, TidyStepIntro DEF TidyStep
  <1>4. CASE LocalSweep(t)
    <2>1. UNCHANGED <<fs, raced>> \/ Scratch(t, Mcp, RemoveTree(tree, LocalTmp(t)))
      BY <1>4 DEF LocalSweep
    <2>2. Tidy(tree, RemoveTree(tree, LocalTmp(t)), {})
      BY <1>0, WithoutTidy DEF RemoveTree
    <2>3. QED
      BY <1>0, <2>1, <2>2, TidyStepIntro DEF TidyStep
  <1>5. QED
    BY <1>1, <1>2, <1>3, <1>4

LEMMA PlainTarget ==
  ASSUME NEW t, TreeOK(t), NEW src \in Seq(PlainNames), src # <<>>, NEW dst \in Seq(PlainNames)
  PROVE  Target(t, src, dst) \in Seq(PlainNames)
  <1>1. Place(t, dst) \in Seq(PlainNames) /\ RealM(t, dst) \in Seq(PlainNames) /\ Last(src) \in PlainNames
    BY PlainStays, PathParts
  <1>2. Append(RealM(t, dst), Last(src)) \in Seq(PlainNames)
    BY <1>1, PathParts
  <1>3. QED
    BY <1>1, <1>2 DEF Target

LEMMA NodeNames ==
  ASSUME NEW t, TreeOK(t), NEW q \in DOMAIN t
  PROVE  t[q].kind = "link" => t[q].names \in Seq(PlainNames)
  BY DEF TreeOK

LEMMA PrefixPlain ==
  ASSUME PhasesInv, NEW t \in Calls, Len(loc[t].todo) \in Nat, Len(loc[t].todo) < Len(Path(t))
  PROVE  Prefix(t) \in Seq(PlainNames) /\ Len(Prefix(t)) = Len(loc[t].todo) + 1
  <1>1. Path(t) \in Seq(PlainNames) /\ Len(Path(t)) \in Nat
    BY TreesHere, LenProperties
  <1>2. Len(loc[t].todo) + 1 \in 1..Len(Path(t))
    BY <1>1
  <1>3. \A i \in 1..Len(loc[t].todo) + 1 : Path(t)[i] \in PlainNames
    BY <1>1, <1>2, LenProperties
  <1>4. QED
    BY <1>1, <1>2, <1>3, SubSeqProperties DEF Prefix

LEMMA TreeTidy ==
  ASSUME PhasesInv, NEW t \in Calls,
         \/ Mkdir(t) \/ ParentMake(t) \/ Delete(t) \/ Rmdir(t) \/ SweepEntry(t) \/ Rename(t)
         \/ Symlink(t) \/ HardLink(t)
  PROVE  TidyStep(t, News(t))
  <1> DEFINE tree == fs[On(t)]
  <1>0. /\ On(t) \in DOMAIN fs /\ WellFormed(tree) /\ TreeOK(tree)
        /\ Path(t) \in Seq(PlainNames) /\ loc[t].to \in Seq(PlainNames) /\ req[t].to \in Seq(PlainNames)
    BY TreesHere DEF PhasesInv, NamesInv
  <1>1. ASSUME NEW p, p \in Seq(PlainNames), NEW node, node.kind = "link" => node.names \in Seq(PlainNames),
               Change(t, On(t), Put(tree, Place(tree, p), node))
        PROVE  TidyStep(t, News(t))
    <2>1. Tidy(tree, Put(tree, Place(tree, p), node), {})
      BY <1>0, <1>1, PlainStays, PutPlainTidy
    <2>2. QED
      BY <1>0, <1>1, <2>1, TidyStepIntro
  <1>2. ASSUME NEW p, Change(t, On(t), RemoveTree(tree, p))
        PROVE  TidyStep(t, News(t))
    <2>1. Tidy(tree, RemoveTree(tree, p), {})
      BY <1>0, WithoutTidy DEF RemoveTree
    <2>2. QED
      BY <1>0, <1>2, <2>1, TidyStepIntro
  <1>3. Dir.kind # "link"
    BY DEF Dir
  <1>4. CASE Mkdir(t)
    <2>1. Change(t, On(t), Put(tree, Place(tree, Path(t)), Dir))
      BY <1>4 DEF Mkdir, Request, MkdirTree, Here
    <2>2. QED
      BY <1>0, <1>1, <1>3, <2>1
  <1>5. CASE ParentMake(t)
    <2>1. at[t] = "parentMake" /\ Change(t, On(t), Put(tree, Place(tree, Prefix(t)), Dir))
      BY <1>5 DEF ParentMake, MkdirTree, Here
    <2>2. Prefix(t) \in Seq(PlainNames)
      BY <2>1, PrefixPlain DEF PhasesInv, AtInv
    <2>3. QED
      BY <1>1, <1>3, <2>1, <2>2
  <1>6. CASE Delete(t) \/ Rmdir(t)
    <2>1. Change(t, On(t), RemoveTree(tree, Path(t)))
      BY <1>6 DEF Delete, Rmdir, Request, Here
    <2>2. QED
      BY <1>2, <2>1
  <1>7. CASE SweepEntry(t)
    <2>1. Change(t, On(t), RemoveTree(tree, Entry(t)))
      BY <1>7 DEF SweepEntry, Here
    <2>2. QED
      BY <1>2, <2>1
  <1>8. CASE Rename(t)
    <2>1. CanRename(tree, Path(t), loc[t].to) /\ Change(t, On(t), RenameTree(tree, Path(t), loc[t].to))
      BY <1>8 DEF Rename, Here
    <2>2. Tidy(tree, RenameTree(tree, Path(t), loc[t].to), {})
      BY <1>0, <2>1, RenameTidy, PlainNotTemp
    <2>3. QED
      BY <1>0, <2>1, <2>2, TidyStepIntro
  <1>9. CASE Symlink(t)
    <2> DEFINE node == Link(~Opt(t, "relative"), req[t].to)
    <2>1. Change(t, On(t), Put(tree, Place(tree, Path(t)), node))
      BY <1>9 DEF Symlink, Request, Here
    <2>2. node.names = req[t].to
      BY DEF Link
    <2>3. QED
      BY <1>0, <1>1, <2>1, <2>2
  <1>10. CASE HardLink(t)
    <2>1. /\ HardLinkOk(t, tree)
          /\ Change(t, On(t), Put(tree, Place(tree, Path(t)), Lstat(tree, loc[t].to)))
      BY <1>10 DEF HardLink, Request, Here
    <2>2. LET node == Lstat(tree, loc[t].to) IN node.kind = "link" => node.names \in Seq(PlainNames)
      BY <1>0, <2>1, NodeNames DEF HardLinkOk, LstatOk, Lstat
    <2>3. QED
      BY <1>0, <1>1, <2>1, <2>2
  <1>11. QED
    BY <1>4, <1>5, <1>6, <1>7, <1>8, <1>9, <1>10

LEMMA ShellStepTidy ==
  ASSUME PhasesInv, NEW t \in Calls, RmStep(t) \/ CpStep(t) \/ MvStep(t) \/ LnStep(t)
  PROVE  TidyStep(t, News(t))
  <1> DEFINE tree == ShellSees(t) src == Path(t) dst == loc[t].to
  <1>0. /\ On(t) \in DOMAIN fs /\ WellFormed(tree) /\ TreeOK(tree) /\ Tidy(fs[On(t)], tree, {})
        /\ src \in Seq(PlainNames) /\ dst \in Seq(PlainNames) /\ tree = ShellTree(On(t), Here(t))
    BY TreesHere DEF ShellSees, Here
  <1> HIDE DEF tree, src, dst
  <1>1. ASSUME NEW T, Change(t, On(t), T) \/ Affect(t, On(t), T), Tidy(tree, T, {})
        PROVE  TidyStep(t, News(t))
    <2>1. Tidy(fs[On(t)], T, {})
      BY <1>0, <1>1, TidyTransitive
    <2>2. QED
      BY <1>0, <1>1, <2>1, TidyStepIntro
  <1>2. CASE RmStep(t)
    <2>1. UNCHANGED <<fs, raced>> \/ \E q : Change(t, On(t), Without(tree, q))
      BY <1>0, <1>2 DEF RmStep, Unmoved
    <2>2. QED
      BY <1>0, <1>1, <2>1, WithoutTidy DEF TidyStep
  <1>3. CASE CpStep(t)
    <2> DEFINE there == Target(tree, src, dst)
    <2>1. \/ UNCHANGED <<fs, raced>>
          \/ /\ CanCp(tree, src, dst)
             /\ Affect(t, On(t), CreateTree(tree, there, File(<<>>, Lstat(tree, src).mode)))
          \/ CanCp(tree, src, dst) /\ Affect(t, On(t), CpTree(tree, src, dst))
          \/ \E q, x : Change(t, On(t), [tree EXCEPT ![q].text = x])
      BY <1>0, <1>3 DEF CpStep, Unmoved, src, dst
    <2>2. CanCp(tree, src, dst) => Tidy(tree, CreateTree(tree, there, File(<<>>, Lstat(tree, src).mode)), {})
      <3>1. SUFFICES ASSUME CanCp(tree, src, dst)
                     PROVE  Tidy(tree, CreateTree(tree, there, File(<<>>, Lstat(tree, src).mode)), {})
        OBVIOUS
      <3>2. RealM(tree, there) \in Seq(PlainNames)
        BY <1>0, <3>1, PlainTarget, PlainStays DEF CanCp
      <3>3. QED
        BY <1>0, <3>2, PutPlainTidy, FileIs DEF CreateTree
    <2>3. CanCp(tree, src, dst) => Tidy(tree, CpTree(tree, src, dst), {})
      BY <1>0, CpTidy
    <2>4. \A q, x : Tidy(tree, [tree EXCEPT ![q].text = x], {})
      BY <1>0, RewriteSame
    <2> HIDE DEF there
    <2>5. QED
      BY <1>1, <2>1, <2>2, <2>3, <2>4 DEF TidyStep
  <1>4. CASE MvStep(t)
    <2> DEFINE there == Target(tree, src, dst)
               copied == CopyTree(Without(tree, there), Place(tree, src), there)
    <2>1. \/ UNCHANGED <<fs, raced>>
          \/ CanMv(tree, src, dst) /\ Change(t, On(t), MvTree(tree, src, dst))
          \/ CanMv(tree, src, dst) /\ Affect(t, On(t), copied)
          \/ Change(t, On(t), Without(tree, Place(tree, src)))
      BY <1>0, <1>4 DEF MvStep, Unmoved, src, dst
    <2>2. CanMv(tree, src, dst) => Tidy(tree, MvTree(tree, src, dst), {}) /\ Tidy(tree, copied, {})
      BY <1>0, MvTidy DEF Sourced
    <2>3. Tidy(tree, Without(tree, Place(tree, src)), {})
      BY <1>0, WithoutTidy
    <2> HIDE DEF there, copied
    <2>4. QED
      BY <1>1, <2>1, <2>2, <2>3 DEF TidyStep
  <1>5. CASE LnStep(t)
    <2> DEFINE there == Target(tree, dst, src) node == Lstat(tree, dst)
    <2>1. \/ UNCHANGED <<fs, raced>>
          \/ HardLinkOk(t, tree) /\ Change(t, On(t), Put(tree, there, node))
      BY <1>0, <1>5 DEF LnStep, Unmoved, src, dst
    <2>2. ASSUME HardLinkOk(t, tree) PROVE Tidy(tree, Put(tree, there, node), {})
      <3>1. Place(tree, dst) \in DOMAIN tree /\ node = tree[Place(tree, dst)] /\ node.kind # "dir"
        BY <2>2 DEF HardLinkOk, LstatOk, Lstat, dst
      <3>2. dst # <<>>
        BY <1>0, <3>1 DEF WellFormed, IsDir, Place
      <3>3. there \in Seq(PlainNames)
        BY <1>0, <3>2, PlainTarget
      <3>4. node.kind = "link" => node.names \in Seq(PlainNames)
        BY <1>0, <3>1, NodeNames
      <3>5. QED
        BY <1>0, <3>3, <3>4, PutPlainTidy
    <2> HIDE DEF there, node
    <2>3. QED
      BY <1>1, <2>1, <2>2 DEF TidyStep
  <1>6. QED
    BY <1>2, <1>3, <1>4, <1>5

LEMMA StepTidy ==
  ASSUME PhasesInv, NEW t \in Calls, Step(t)
  PROVE  TidyStep(t, News(t))
  <1>0. FilesInv
    BY DEF PhasesInv, ReportsInv
  <1>1. CASE Failures(t) \/ WriteMoves(t) \/ TreeMoves(t) \/ ReadMoves(t) \/ Begins(t)
    <2>1. Moves(t)
      BY <1>0, <1>1, FailuresMove, WriteMovesMove, TreeMovesMove, ReadMovesMove, BeginsMove
    <2>2. QED
      BY <2>1 DEF Moves, TidyStep
  <1>2. CASE Launches(t)
    BY <1>2 DEF Launches, TidyStep, SudoOwner, SudoMode, ScriptStepFails, Recheck, SizeLook, RenameFallsBack,
       LinkLook, LocalFails
  <1>3. CASE Changes(t) \/ WriteTmp(t) \/ SweepTmp(t) \/ ScriptStep(t)
    BY <1>3, WriteTidy, ScriptTidy, LocalTidy, TreeTidy DEF Changes
  <1>4. CASE RmStep(t) \/ CpStep(t) \/ MvStep(t) \/ LnStep(t)
    BY <1>4, ShellStepTidy
  <1>5. CASE LocalOpenCancelled(t) \/ LocalCopy(t) \/ LocalSweep(t) \/ ReplacingThread(t)
    BY <1>5, LocalTidy
  <1>6. CASE WriteStep(t)
    BY <1>1, <1>2, <1>3, <1>6
       DEF WriteStep, Failures, WriteMoves, Begins, Launches, Changes
  <1>7. CASE TreeStep(t)
    BY <1>1, <1>2, <1>3, <1>4, <1>7
       DEF TreeStep, Failures, TreeMoves, Begins, Launches, Changes
  <1>8. CASE ReadStep(t)
    BY <1>1, <1>2, <1>3, <1>5, <1>8
       DEF ReadStep, Failures, ReadMoves, Begins, Launches, Changes
  <1>9. CASE PrepareFails(t) \/ Returns(t)
    BY <1>1, <1>9 DEF Failures, ReadMoves
  <1>10. QED
    BY <1>6, <1>7, <1>8, <1>9 DEF Step

-----------------------------------------------------------------------------
(* What the names of a call are, and where its process may be, is kept *)

HoldPcs == {"write", "chmod", "rename", "sweep", "localRead", "localCopy", "localReplace", "localSweep"}
\* Where a call has, or may have had, a temporary file or a process.
Busy == HoldPcs \cup Late \cup {"open", "localOpen"}
\* Where AtInv says nothing.
Free == Pcs \ (SudoPcs \cup LocalPcs \cup {"start", "downloadStat", "parentStat", "parentMake"})

Settled(t) ==
  /\ loc'[t].path \in Seq(PlainNames) /\ loc'[t].to \in Seq(PlainNames)
  /\ AtInv(t)' /\ ProcInv(t)'
\* A step of a call that is nowhere there.
Calm(t) == at[t] \notin Busy /\ Settled(t)

LEMMA FreeAt ==
  ASSUME NEW t, at'[t] \in Free
  PROVE  AtInv(t)'
  BY DEF AtInv, Free

LEMMA SettledIntro ==
  ASSUME PhasesInv, NEW t \in Calls, at[t] \notin Late, UNCHANGED <<req, proc>>,
         loc'[t].path \in Seq(PlainNames) /\ loc'[t].to \in Seq(PlainNames), at'[t] \in Free \/ AtInv(t)'
  PROVE  Settled(t)
  <1>1. proc'[t] = "none"
    BY DEF PhasesInv, ProcInv
  <1>2. ProcInv(t)'
    BY <1>1 DEF ProcInv, ScriptProcs, ShellProcs, OtherTreeProcs
  <1>3. QED
    BY <1>2, FreeAt DEF Settled

LEMMA SettledAtEnd ==
  ASSUME PhasesInv, NEW t \in Calls, at'[t] = "done", UNCHANGED <<req, proc>>,
         loc'[t].path = loc[t].path /\ loc'[t].to = loc[t].to
  PROVE  Settled(t)
  <1>1. AtInv(t)'
    BY FreeAt DEF Free, Pcs, SudoPcs, LocalPcs
  <1>2. ProcInv(t)'
    BY DEF PhasesInv, ProcInv, Late, Tool, Downloads, Opt
  <1>3. QED
    BY <1>1, <1>2 DEF Settled, PhasesInv, NamesInv

LEMMA CallsAt ==
  ASSUME PhasesInv, NEW t \in Calls
  PROVE  /\ at \in [Calls -> Pcs] /\ DOMAIN proc = Calls
         /\ DOMAIN loc = Calls /\ DOMAIN loc[t] = Locals
         /\ loc[t].path \in Seq(PlainNames) /\ loc[t].to \in Seq(PlainNames)
         /\ AtInv(t) /\ ProcInv(t)
  BY Positions DEF PhasesInv, ReportsInv, NamesInv

LEMMA Raises ==
  ASSUME PhasesInv, NEW t \in Calls, NEW here, here \notin Busy, NEW possible, RaiseAt(t, here, possible)
  PROVE  Calm(t)
  <1>1. at[t] = here /\ at'[t] = "done" /\ UNCHANGED <<req, loc, proc>>
    BY CallsAt DEF RaiseAt, Raise, End, Go
  <1>2. QED
    BY <1>1, SettledAtEnd DEF Calm

\* A call that goes on, as it was.
LEMMA GoesOn ==
  ASSUME PhasesInv, NEW t \in Calls, at[t] \notin Busy, UNCHANGED <<req, proc>>,
         Raise(t) \/ \E p \in Free : Go(t, p),
         UNCHANGED loc \/ \E l : Keep(t, l) /\ l.path = loc[t].path /\ l.to = loc[t].to
  PROVE  Calm(t)
  <1>1. at'[t] \in Free
    BY CallsAt DEF Raise, End, Go, Free, Pcs, SudoPcs, LocalPcs
  <1>2. loc'[t].path = loc[t].path /\ loc'[t].to = loc[t].to
    BY CallsAt DEF Keep
  <1>3. at[t] \notin Late
    BY DEF Busy
  <1>4. QED
    BY <1>1, <1>2, <1>3, SettledIntro, CallsAt DEF Calm

LEMMA FailuresCalm ==
  ASSUME PhasesInv, NEW t \in Calls, Failures(t)
  PROVE  Calm(t) \/ SweepFails(t) \/ ScriptTimesOut(t) \/ ShellFails(t) \/ LocalOpenFails(t)
  <1> USE DEF Busy, HoldPcs, Late
  <1>1. CASE MoveToBackupFails(t) \/ LookBeforeEditFails(t) \/ ReadAndEditFails(t) \/ TransferSizeFails(t)
    BY <1>1, Raises DEF MoveToBackupFails, LookBeforeEditFails, ReadAndEditFails, TransferSizeFails
  <1>2. CASE TargetExistsFails(t) \/ SudoOwnerFails(t) \/ SudoModeFails(t) \/ RaiseAt(t, "second", SecondOk(t))
    BY <1>2, Raises DEF TargetExistsFails, SudoOwnerFails, SudoModeFails
  <1>3. CASE MkdirFails(t) \/ ParentStatFails(t) \/ ParentMakeFails(t) \/ DeleteLookFails(t) \/ DeleteFails(t)
    BY <1>3, Raises DEF MkdirFails, ParentStatFails, ParentMakeFails, DeleteLookFails, DeleteFails
  <1>4. CASE RmdirFails(t) \/ WalkFails(t) \/ RecheckFails(t) \/ SweepEntryFails(t) \/ RenameFails(t)
    BY <1>4, Raises DEF RmdirFails, WalkFails, RecheckFails, SweepEntryFails, RenameFails
  <1>5. CASE SymlinkFails(t) \/ FindLinkSourceFails(t) \/ LinkLookFails(t) \/ HardLinkFails(t)
    BY <1>5, Raises DEF SymlinkFails, FindLinkSourceFails, LinkLookFails, HardLinkFails
  <1>6. CASE ListDirFails(t) \/ StatEntryFails(t) \/ StatOneFails(t) \/ ReadLinkFails(t) \/ SudoListFails(t)
    BY <1>6, Raises DEF ListDirFails, StatEntryFails, StatOneFails, ReadLinkFails, SudoListFails
  <1>7. CASE FindFails(t) \/ HashFails(t) \/ DownloadStatFails(t) \/ ReadAllFails(t) \/ SudoCatFails(t)
    BY <1>7, Raises DEF FindFails, HashFails, DownloadStatFails, ReadAllFails, SudoCatFails
  <1>8. CASE PrepareFails(t)
    <2>1. at[t] = "start" /\ Raise(t) /\ UNCHANGED <<req, loc, proc>>
      BY <1>8 DEF PrepareFails
    <2>2. QED
      BY <2>1, GoesOn
  <1>9. QED
    BY <1>1, <1>2, <1>3, <1>4, <1>5, <1>6, <1>7, <1>8 DEF Failures

\* The paths a call resolves have names that were there.
LEMMA ResolvedPlain ==
  ASSUME PhasesInv, NEW t \in Calls
  PROVE  /\ \A p \in Resolved(t) : p \in Seq(PlainNames)
         /\ \A p \in Second(t) : p \in Seq(PlainNames)
         /\ Opt(t, "local") => \A mode : \A p \in ResolveLocal(fs[Mcp], req[t].to, mode) : p \in Seq(PlainNames)
  <1>1. /\ TreeOK(fs[On(t)]) /\ req[t].path \in Seq(PlainNames) /\ req[t].to \in Seq(PlainNames)
        /\ req[t].peer \in DOMAIN fs /\ TreeOK(fs[req[t].peer]) /\ (Opt(t, "local") => req[t].peer = Mcp)
    BY TreesHere DEF PhasesInv, NamesInv
  <1>2. ASSUME NEW p \in Resolved(t) PROVE p \in Seq(PlainNames)
    <2>1. CASE Tool(t) \in Redacted
      <3>1. p \in CanonicalizeAndCheck(On(t), fs[On(t)], req[t].path, TRUE)
        BY <1>2, <2>1, ResolvedInCheck DEF Resolved
      <3>2. QED
        BY <1>1, <3>1, CheckedPlain
    <2>2. CASE Tool(t) \notin Redacted
      <3>1. PICK b \in BOOLEAN : b <=> Tool(t) \notin Creating
        OBVIOUS
      <3>2. p \in ResolvePath(On(t), fs[On(t)], req[t].path, b)
        BY <1>2, <2>2, <3>1 DEF Resolved
      <3>3. p \in CanonicalizeAndCheck(On(t), fs[On(t)], req[t].path, b)
        BY <3>2, ResolvedInCheck
      <3>4. QED
        BY <1>1, <3>3, CheckedPlain
    <2>3. QED
      BY <2>1, <2>2
  <1>3. ASSUME NEW p \in Second(t) PROVE p \in Seq(PlainNames)
    <2>1. p \in CanonicalizeAndCheck(req[t].peer, fs[req[t].peer], req[t].to, FALSE)
      BY <1>3, ResolvedInCheck DEF Second
    <2>2. QED
      BY <1>1, <2>1, CheckedPlain
  <1>4. ASSUME Opt(t, "local"), NEW mode, NEW p \in ResolveLocal(fs[Mcp], req[t].to, mode)
        PROVE  p \in Seq(PlainNames)
    BY <1>1, <1>4, LocalPlain
  <1>5. QED
    BY <1>2, <1>3, <1>4

LEMMA FirstWriteAt ==
  ASSUME NEW t
  PROVE  FirstWrite(t) \in Free \/ (FirstWrite(t) = "owner" /\ Tool(t) \in SudoWrites)
  BY DEF FirstWrite, SudoWrites, Free, Pcs, SudoPcs, LocalPcs

LEMMA OwnerAt ==
  ASSUME NEW t, UNCHANGED req, at'[t] \in Free \/ (at'[t] \in SudoPcs /\ Tool(t) \in SudoWrites)
  PROVE  AtInv(t)'
  BY DEF AtInv, Tool, Free, SudoPcs, LocalPcs

LEMMA WritesCalm ==
  ASSUME PhasesInv, NEW t \in Calls,
         \/ StartUpload(t) \/ PayloadRefused(t) \/ OldStat(t) \/ OldStatFails(t) \/ MoveToBackup(t)
         \/ LookBeforeEdit(t) \/ ReadAndEdit(t) \/ TransferSize(t) \/ TargetExists(t) \/ OpenSource(t)
  PROVE  Calm(t)
  <1>0. \A p \in {"editRead", "openSource", "targetStat", "open", "backup"} : p \in Free
    BY DEF Free, Pcs, SudoPcs, LocalPcs
  <1>1. CASE StartUpload(t)
    <2>1. PICK p \in Resolved(t), s \in (IF Opt(t, "local") THEN LocalSource(t) ELSE {<<>>}) :
            Keep(t, [loc[t] EXCEPT !.path = p, !.to = s, !.mode = req[t].mode,
                  !.plan = IF ~Opt(t, "local") THEN {req[t].text}
                           ELSE IF Tool(t) = "ssh_sudo_write" THEN {fs[Mcp][s].text} ELSE {}])
      BY <1>1 DEF StartUpload
    <2>2. p \in Seq(PlainNames) /\ s \in Seq(PlainNames)
      BY ResolvedPlain, NamesApart DEF LocalSource
    <2>3. loc'[t].path = p /\ loc'[t].to = s
      BY <2>1, CallsAt DEF Keep, Locals
    <2>4. at[t] = "start" /\ at'[t] = FirstWrite(t) /\ UNCHANGED <<req, proc>>
      BY <1>1, CallsAt DEF StartUpload, Go, Quiet
    <2>5. AtInv(t)'
      BY <2>4, FirstWriteAt, OwnerAt DEF SudoPcs
    <2>6. QED
      BY <2>2, <2>3, <2>4, <2>5, SettledIntro DEF Calm, Busy, HoldPcs, Late
  <1>2. CASE PayloadRefused(t)
    <2>1. at[t] = "start" /\ Raise(t) /\ UNCHANGED <<req, loc, proc>>
      BY <1>2 DEF PayloadRefused, Quiet
    <2>2. QED
      BY <2>1, GoesOn DEF Busy, HoldPcs, Late
  <1>3. CASE OldStat(t) \/ OldStatFails(t) \/ MoveToBackup(t)
    <2>1. /\ at[t] \in {"oldStat", "backup"} /\ at'[t] \in {"backup", FirstWrite(t)} /\ UNCHANGED <<req, proc>>
          /\ loc'[t].path = loc[t].path /\ loc'[t].to = loc[t].to
      BY <1>3, CallsAt DEF OldStat, OldStatFails, IgnoreAt, MoveToBackup, Go, Keep, Quiet, Rest, Locals
    <2>2. AtInv(t)'
      BY <1>0, <2>1, FirstWriteAt, OwnerAt DEF SudoPcs
    <2>3. QED
      BY <2>1, <2>2, SettledIntro, CallsAt DEF Calm, Busy, HoldPcs, Late
  <1>4. CASE LookBeforeEdit(t)
    <2>1. at[t] = "editStat" /\ UNCHANGED <<req, proc>> /\ (Raise(t) \/ Go(t, "editRead"))
      BY <1>4 DEF LookBeforeEdit, Quiet
    <2>2. UNCHANGED loc \/ \E l : Keep(t, l) /\ l.path = loc[t].path /\ l.to = loc[t].to
      BY <1>4, CallsAt DEF LookBeforeEdit, Locals
    <2>3. QED
      BY <1>0, <2>1, <2>2, GoesOn DEF Busy, HoldPcs, Late
  <1>5. CASE ReadAndEdit(t)
    <2>1. /\ at[t] \in {"editRead", "sudoEditRead"} /\ UNCHANGED <<req, proc>>
          /\ \/ Raise(t) /\ UNCHANGED loc
             \/ \E text : Keep(t, Plans(t, text)) /\ Go(t, IF at[t] = "editRead" THEN "open" ELSE "owner")
      BY <1>5 DEF ReadAndEdit, Quiet
    <2>2. loc'[t].path = loc[t].path /\ loc'[t].to = loc[t].to
      BY <2>1, CallsAt DEF Keep, Plans, Locals
    <2>3. /\ at[t] = "sudoEditRead" => Tool(t) \in SudoWrites
          /\ at'[t] \in {"done", "open"} \/ (at[t] = "sudoEditRead" /\ at'[t] = "owner")
      BY <2>1, CallsAt DEF AtInv, SudoPcs, Raise, End, Go
    <2>4. AtInv(t)'
      BY <2>1, <2>3, OwnerAt DEF SudoPcs, LocalPcs, Free, Pcs
    <2>5. QED
      BY <2>1, <2>2, <2>4, SettledIntro, CallsAt DEF Calm, Busy, HoldPcs, Late
  <1>6. CASE TransferSize(t) \/ TargetExists(t)
    <2>1. /\ at[t] \in {"sourceStat", "targetStat"} /\ UNCHANGED <<req, loc, proc>>
          /\ Raise(t) \/ Go(t, "openSource") \/ Go(t, "targetStat")
      BY <1>6 DEF TransferSize, TargetExists, Quiet
    <2>2. QED
      BY <1>0, <2>1, GoesOn DEF Busy, HoldPcs, Late
  <1>7. CASE OpenSource(t)
    <2>1. at[t] = "openSource" /\ UNCHANGED <<req, proc>> /\ Go(t, "open")
      BY <1>7 DEF OpenSource, Quiet
    <2>2. \E l : Keep(t, l) /\ l.path = loc[t].path /\ l.to = loc[t].to
      BY <1>7, CallsAt DEF OpenSource, Plans, Locals
    <2>3. QED
      BY <1>0, <2>1, <2>2, GoesOn DEF Busy, HoldPcs, Late
  <1>8. QED
    BY <1>1, <1>2, <1>3, <1>4, <1>5, <1>6, <1>7

LEMMA TreesCalm ==
  ASSUME PhasesInv, NEW t \in Calls,
         \/ Mkdir(t) \/ ParentStat(t) \/ ParentMake(t) \/ DeleteLook(t) \/ Delete(t) \/ Rmdir(t)
         \/ WalkFolder(t) \/ WalkSkips(t) \/ SweepEntry(t) \/ SweepEntrySkips(t) \/ Rename(t)
         \/ Symlink(t) \/ FindLinkSource(t) \/ HardLink(t)
  PROVE  Calm(t)
  <1>0. \A p \in {"return", "delete", "walk", "recheck", "sweepEntry", "link", "linkLook"} : p \in Free
    BY DEF Free, Pcs, SudoPcs, LocalPcs
  <1>1. CASE Mkdir(t) \/ Delete(t) \/ Rmdir(t) \/ Symlink(t) \/ HardLink(t) \/ Rename(t)
    <2>1. /\ at[t] \in {"mkdir", "delete", "rmdir", "symlink", "link", "posixRename"}
          /\ Go(t, "return") /\ UNCHANGED <<req, loc, proc>>
      BY <1>1 DEF Mkdir, Delete, Rmdir, Symlink, HardLink, Rename, Request, Rest
    <2>2. QED
      BY <1>0, <2>1, GoesOn DEF Busy, HoldPcs, Late
  <1>2. CASE ParentStat(t) \/ ParentMake(t)
    <2>0. at[t] \in {"parentStat", "parentMake"} /\ UNCHANGED <<req, proc>>
      BY <1>2 DEF ParentStat, ParentMake, Quiet, Rest
    <2>1. /\ Len(loc[t].todo) \in Nat /\ Path(t) \in Seq(PlainNames) /\ Len(Path(t)) \in Nat
          /\ Path(t) = <<>> \/ Len(loc[t].todo) < Len(Path(t))
          /\ at[t] = "parentMake" => Len(loc[t].todo) < Len(Path(t))
      BY <2>0, CallsAt, LenProperties DEF AtInv, Path
    <2>2. CASE UNCHANGED loc /\ (Raise(t) \/ Go(t, "return"))
      BY <1>0, <2>0, <2>2, GoesOn DEF Busy, HoldPcs, Late
    <2>3. CASE UNCHANGED loc /\ at[t] = "parentStat" /\ Path(t) # <<>> /\ Go(t, "parentMake")
      <3>1. at'[t] = "parentMake"
        BY <2>3, CallsAt DEF Go
      <3>2. AtInv(t)'
        BY <2>1, <2>3, <3>1 DEF AtInv, Path, SudoPcs, LocalPcs
      <3>3. QED
        BY <2>0, <2>3, <3>2, SettledIntro, CallsAt DEF Calm, Busy, HoldPcs, Late
    <2>4. CASE Path(t) # <<>> /\ Further(t) /\ Go(t, AfterPrefix(t))
      <3>1. /\ loc'[t].path = loc[t].path /\ loc'[t].to = loc[t].to /\ loc'[t].todo = Prefix(t)
            /\ at'[t] = AfterPrefix(t)
        BY <2>4, CallsAt DEF Further, Keep, Locals, Go
      <3>2. Prefix(t) \in Seq(PlainNames) /\ Len(Prefix(t)) = Len(loc[t].todo) + 1
        BY <2>1, <2>4, PrefixPlain
      <3>3. Len(Prefix(t)) <= Len(Path(t)) /\ Len(Prefix(t)) \in Nat
        BY <2>1, <2>4, <3>2
      <3>4. Prefix(t) # Path(t) => Len(Prefix(t)) # Len(Path(t))
        <4>1. ASSUME Len(Prefix(t)) = Len(Path(t)) PROVE Prefix(t) = Path(t)
          <5>1. IsPath(Prefix(t)) /\ IsPath(Path(t))
            BY <2>1, <3>2, PathIntro
          <5>2. Prefix(t) = SubSeq(Path(t), 1, Len(Path(t)))
            BY <3>2, <4>1 DEF Prefix
          <5>3. \A i \in 1..Len(Path(t)) : Prefix(t)[i] = Path(t)[i]
            BY <2>1, <5>2, SubSeqProperties
          <5>4. QED
            BY <4>1, <5>1, <5>3, PathEqual
        <4>2. QED
          BY <4>1
      <3>5. at'[t] = "return" \/ (at'[t] = "parentStat" /\ Len(Prefix(t)) < Len(Path(t)))
        BY <2>1, <3>1, <3>3, <3>4 DEF AfterPrefix
      <3>6. AtInv(t)'
        <4>1. CASE at'[t] = "return"
          BY <1>0, <4>1, FreeAt
        <4>2. CASE at'[t] = "parentStat" /\ Len(Prefix(t)) < Len(Path(t))
          BY <3>1, <3>3, <4>2 DEF AtInv, Path, SudoPcs, LocalPcs
        <4>3. QED
          BY <3>5, <4>1, <4>2
      <3>7. QED
        BY <2>0, <3>1, <3>6, SettledIntro, CallsAt DEF Calm, Busy, HoldPcs, Late
    <2>5. CASE ParentStat(t)
      BY <2>2, <2>3, <2>4, <2>5 DEF ParentStat
    <2>6. CASE ParentMake(t)
      <3>1. at[t] = "parentMake" /\ Further(t) /\ Go(t, AfterPrefix(t))
        BY <2>6 DEF ParentMake
      <3>2. Path(t) # <<>>
        BY <2>1, <3>1, LenProperties
      <3>3. QED
        BY <2>4, <3>1, <3>2
    <2>7. QED
      BY <1>2, <2>5, <2>6
  <1>3. CASE DeleteLook(t)
    <2>1. at[t] = "deleteLook" /\ (Raise(t) \/ Go(t, "delete")) /\ UNCHANGED <<req, loc, proc>>
      BY <1>3 DEF DeleteLook, Quiet
    <2>2. QED
      BY <1>0, <2>1, GoesOn DEF Busy, HoldPcs, Late
  <1>4. CASE WalkFolder(t) \/ WalkSkips(t)
    <2>1. PICK queue, list : AfterWalk(t, queue, list)
      BY <1>4 DEF WalkFolder, WalkSkips
    <2>2. at[t] = "walk" /\ UNCHANGED <<req, proc>>
      BY <1>4 DEF WalkFolder, WalkSkips, Quiet
    <2>3. \E l : Keep(t, l) /\ l.path = loc[t].path /\ l.to = loc[t].to
      <3> DEFINE l == [loc[t] EXCEPT !.todo = queue, !.list = list, !.seen = {"walking"}]
      <3>1. Keep(t, l)
        BY <2>1 DEF AfterWalk
      <3>2. l.path = loc[t].path /\ l.to = loc[t].to
        BY CallsAt DEF Locals
      <3> HIDE DEF l
      <3>3. QED
        BY <3>1, <3>2
    <2>4. Raise(t) \/ Go(t, "walk") \/ Go(t, "return") \/ Go(t, "recheck")
      BY <2>1 DEF AfterWalk
    <2>5. QED
      BY <1>0, <2>2, <2>3, <2>4, GoesOn DEF Busy, HoldPcs, Late
  <1>5. CASE SweepEntry(t) \/ SweepEntrySkips(t)
    <2>1. at[t] = "sweepEntry" /\ UNCHANGED <<req, proc>> /\ Swept(t)
      BY <1>5 DEF SweepEntry, SweepEntrySkips, Rest
    <2>2. \E l : Keep(t, l) /\ l.path = loc[t].path /\ l.to = loc[t].to
      BY <2>1, CallsAt DEF Swept, Locals
    <2>3. Go(t, "return") \/ Go(t, "sweepEntry")
      BY <2>1 DEF Swept
    <2>4. QED
      BY <1>0, <2>1, <2>2, <2>3, GoesOn DEF Busy, HoldPcs, Late
  <1>6. CASE FindLinkSource(t)
    <2>1. PICK q \in LinkSource(t) : Keep(t, [loc[t] EXCEPT !.to = q])
      BY <1>6 DEF FindLinkSource
    <2>2. q \in Seq(PlainNames)
      <3>1. /\ TreeOK(Here(t)) /\ req[t].to \in Seq(PlainNames)
        BY TreesHere DEF PhasesInv, NamesInv, Here
      <3>2. CASE at[t] = "linkSource"
        BY <3>1, <3>2, CheckedPlain DEF LinkSource
      <3>3. CASE at[t] # "linkSource"
        <4>1. PICK d \in CanonicalizeAndCheck(On(t), Here(t), Front(req[t].to), TRUE) :
                req[t].to # <<>> /\ q = Append(d, Last(req[t].to))
          BY <3>3 DEF LinkSource
        <4>2. Front(req[t].to) \in Seq(PlainNames) /\ Last(req[t].to) \in PlainNames
          BY <3>1, <4>1, PathParts
        <4>3. d \in Seq(PlainNames)
          BY <3>1, <4>2, CheckedPlain
        <4>4. QED
          BY <4>1, <4>2, <4>3, PathParts
      <3>4. QED
        BY <3>2, <3>3
    <2>3. loc'[t].path = loc[t].path /\ loc'[t].to = q
      BY <2>1, CallsAt DEF Keep, Locals
    <2>4. at[t] \in {"linkSource", "linkDir"} /\ UNCHANGED <<req, proc>> /\ at'[t] \in {"link", "linkLook"}
      BY <1>6, CallsAt DEF FindLinkSource, Quiet, Go
    <2>5. QED
      BY <1>0, <2>2, <2>3, <2>4, SettledIntro, CallsAt DEF Calm, Busy, HoldPcs, Late
  <1>7. QED
    BY <1>1, <1>2, <1>3, <1>4, <1>5, <1>6

LEMMA OneKept ==
  ASSUME PhasesInv, NEW t \in Calls, NEW x,
         \/ Keep(t, [loc[t] EXCEPT !.list = x]) \/ Keep(t, [loc[t] EXCEPT !.text = x])
         \/ Keep(t, [loc[t] EXCEPT !.size = x])
  PROVE  \E l : Keep(t, l) /\ l.path = loc[t].path /\ l.to = loc[t].to
  <1> DEFINE a == [loc[t] EXCEPT !.list = x] b == [loc[t] EXCEPT !.text = x] c == [loc[t] EXCEPT !.size = x]
  <1>1. \A l \in {a, b, c} : l.path = loc[t].path /\ l.to = loc[t].to
    BY CallsAt DEF Locals
  <1>2. Keep(t, a) \/ Keep(t, b) \/ Keep(t, c)
    OBVIOUS
  <1> HIDE DEF a, b, c
  <1>3. QED
    BY <1>1, <1>2

LEMMA ReadsCalm ==
  ASSUME PhasesInv, NEW t \in Calls,
         \/ ListDir(t) \/ StatEntry(t) \/ EntryLink(t) \/ StatOne(t) \/ ReadLink(t) \/ SudoList(t)
         \/ Find(t) \/ FindWalk(t) \/ FindSkips(t) \/ Hash(t) \/ HashSize(t) \/ DownloadStat(t)
         \/ ReadAll(t) \/ SudoCat(t) \/ StartLocal(t) \/ StartLocalRefused(t)
  PROVE  Calm(t)
  <1>0. \A p \in {"return", "entry", "entryLink", "readlink", "findWalk", "hashSize", "readAll"} : p \in Free
    BY DEF Free, Pcs, SudoPcs, LocalPcs
  <1>1. CASE ListDir(t)
    <2>1. at[t] = "list" /\ UNCHANGED <<req, proc>> /\ (Go(t, "return") \/ Go(t, "entry"))
      BY <1>1 DEF ListDir, Quiet
    <2>2. \E l : Keep(t, l) /\ l.path = loc[t].path /\ l.to = loc[t].to
      BY <1>1, CallsAt DEF ListDir, Locals
    <2>3. QED
      BY <1>0, <2>1, <2>2, GoesOn DEF Busy, HoldPcs, Late
  <1>2. CASE StatEntry(t) \/ EntryLink(t)
    <2>1. /\ at[t] \in {"entry", "entryLink"} /\ UNCHANGED <<req, proc>>
          /\ (UNCHANGED loc /\ Go(t, "entryLink")) \/ (\E kind : Entered(t, kind))
      BY <1>2 DEF StatEntry, EntryLink, Quiet
    <2>2. ASSUME NEW kind, Entered(t, kind)
          PROVE  (Go(t, "return") \/ Go(t, "entry")) /\ \E l : Keep(t, l) /\ l.path = loc[t].path /\ l.to = loc[t].to
      <3> DEFINE l == [loc[t] EXCEPT !.list = Append(@, <<Head(loc[t].todo), kind>>), !.todo = Tail(@)]
      <3>1. l.path = loc[t].path /\ l.to = loc[t].to
        BY CallsAt DEF Locals
      <3>2. Keep(t, l) /\ (Go(t, "return") \/ Go(t, "entry"))
        BY <2>2 DEF Entered
      <3> HIDE DEF l
      <3>3. QED
        BY <3>1, <3>2
    <2>3. QED
      BY <1>0, <2>1, <2>2, GoesOn DEF Busy, HoldPcs, Late
  <1>3. CASE StatOne(t)
    <2>1. at[t] = "stat" /\ UNCHANGED <<req, proc>> /\ (Go(t, "return") \/ Go(t, "readlink"))
      BY <1>3 DEF StatOne, Quiet
    <2>2. \E l : Keep(t, l) /\ l.path = loc[t].path /\ l.to = loc[t].to
      BY <1>3, CallsAt DEF StatOne, Locals
    <2>3. QED
      BY <1>0, <2>1, <2>2, GoesOn DEF Busy, HoldPcs, Late
  <1>4. CASE ReadLink(t) \/ SudoList(t) \/ Find(t)
    <2>1. at[t] \in {"readlink", "sudoLs", "find"} /\ UNCHANGED <<req, proc>> /\ Go(t, "return")
      BY <1>4 DEF ReadLink, SudoList, Find, Quiet
    <2>2. UNCHANGED loc \/ \E x : Keep(t, [loc[t] EXCEPT !.list = x])
      BY <1>4 DEF ReadLink, SudoList, Find
    <2>3. UNCHANGED loc \/ \E l : Keep(t, l) /\ l.path = loc[t].path /\ l.to = loc[t].to
      BY <2>2, OneKept
    <2>4. QED
      BY <1>0, <2>1, <2>3, GoesOn DEF Busy, HoldPcs, Late
  <1>5. CASE FindWalk(t) \/ FindSkips(t)
    <2>1. PICK queue, list : FindWalked(t, queue, list)
      BY <1>5 DEF FindWalk, FindSkips
    <2>2. at[t] = "findWalk" /\ UNCHANGED <<req, proc>>
      BY <1>5 DEF FindWalk, FindSkips, Quiet
    <2>3. \E l : Keep(t, l) /\ l.path = loc[t].path /\ l.to = loc[t].to
      <3>1. PICK x : Keep(t, [loc[t] EXCEPT !.todo = queue, !.seen = {"walking"}, !.list = x])
        BY <2>1 DEF FindWalked
      <3> DEFINE l == [loc[t] EXCEPT !.todo = queue, !.seen = {"walking"}, !.list = x]
      <3>2. l.path = loc[t].path /\ l.to = loc[t].to
        BY CallsAt DEF Locals
      <3>3. Keep(t, l)
        BY <3>1
      <3> HIDE DEF l
      <3>4. QED
        BY <3>2, <3>3
    <2>4. Go(t, "return") \/ Go(t, "findWalk")
      BY <2>1 DEF FindWalked
    <2>5. QED
      BY <1>0, <2>2, <2>3, <2>4, GoesOn DEF Busy, HoldPcs, Late
  <1>6. CASE Hash(t) \/ HashSize(t)
    <2>1. at[t] \in {"hash", "hashSize"} /\ UNCHANGED <<req, proc>> /\ (Go(t, "return") \/ Go(t, "hashSize"))
      BY <1>6 DEF Hash, HashSize, Quiet
    <2>2. UNCHANGED loc \/ \E x : Keep(t, [loc[t] EXCEPT !.text = x]) \/ Keep(t, [loc[t] EXCEPT !.size = x])
      BY <1>6 DEF Hash, HashSize
    <2>3. UNCHANGED loc \/ \E l : Keep(t, l) /\ l.path = loc[t].path /\ l.to = loc[t].to
      BY <2>2, OneKept
    <2>4. QED
      BY <1>0, <2>1, <2>3, GoesOn DEF Busy, HoldPcs, Late
  <1>7. CASE DownloadStat(t)
    <2>1. /\ at[t] = "downloadStat" /\ UNCHANGED <<req, proc>>
          /\ at'[t] \in {"done", "return", "readAll"} \/ (Opt(t, "local") /\ at'[t] = "localOpen")
      BY <1>7, CallsAt DEF DownloadStat, Quiet, Raise, End, Go
    <2>2. loc'[t].path = loc[t].path /\ loc'[t].to = loc[t].to
      BY <1>7, CallsAt DEF DownloadStat, Keep, Locals
    <2>3. Opt(t, "local") => Downloads(t)
      BY <2>1, CallsAt DEF AtInv
    <2>4. AtInv(t)'
      BY <2>1, <2>3 DEF AtInv, SudoPcs, LocalPcs, Downloads, Tool, Opt
    <2>5. QED
      BY <2>1, <2>2, <2>4, SettledIntro, CallsAt DEF Calm, Busy, HoldPcs, Late
  <1>8. CASE ReadAll(t) \/ SudoCat(t)
    <2>1. at[t] \in {"readAll", "sudoCat"} /\ UNCHANGED <<req, proc>> /\ (Raise(t) \/ Go(t, "return"))
      BY <1>8 DEF ReadAll, SudoCat, Quiet
    <2>2. UNCHANGED loc \/ \E x, n : Keep(t, [loc[t] EXCEPT !.text = x, !.size = n])
      BY <1>8, CallsAt DEF ReadAll, SudoCat, Locals
    <2>3. UNCHANGED loc \/ \E l : Keep(t, l) /\ l.path = loc[t].path /\ l.to = loc[t].to
      <3>1. ASSUME NEW x, NEW n, Keep(t, [loc[t] EXCEPT !.text = x, !.size = n])
            PROVE  \E l : Keep(t, l) /\ l.path = loc[t].path /\ l.to = loc[t].to
        <4> DEFINE l == [loc[t] EXCEPT !.text = x, !.size = n]
        <4>1. Keep(t, l) /\ l.path = loc[t].path /\ l.to = loc[t].to
          BY <3>1, CallsAt DEF Locals
        <4> HIDE DEF l
        <4>2. QED
          BY <4>1
      <3>2. QED
        BY <2>2, <3>1
    <2>4. QED
      BY <1>0, <2>1, <2>3, GoesOn DEF Busy, HoldPcs, Late
  <1>9. CASE StartLocal(t)
    <2>1. PICK q \in ResolveLocal(fs[Mcp], req[t].to, "write"), p \in Resolved(t) :
            Keep(t, [loc[t] EXCEPT !.path = p, !.to = q])
      BY <1>9 DEF StartLocal
    <2>2. /\ Opt(t, "local") /\ Downloads(t) /\ UNCHANGED <<req, proc>>
          /\ at[t] = "start" /\ at'[t] = "downloadStat"
      BY <1>9, CallsAt DEF StartLocal, Quiet, Go, Downloads
    <2>3. q \in Seq(PlainNames) /\ p \in Seq(PlainNames)
      BY <2>2, ResolvedPlain
    <2>4. loc'[t].path = p /\ loc'[t].to = q
      BY <2>1, CallsAt DEF Keep, Locals
    <2>5. AtInv(t)'
      BY <2>2 DEF AtInv, SudoPcs, LocalPcs, Downloads, Tool, Opt
    <2>6. QED
      BY <2>2, <2>3, <2>4, <2>5, SettledIntro DEF Calm, Busy, HoldPcs, Late
  <1>10. CASE StartLocalRefused(t)
    <2>1. at[t] = "start" /\ Raise(t) /\ UNCHANGED <<req, loc, proc>>
      BY <1>10 DEF StartLocalRefused, Quiet
    <2>2. QED
      BY <2>1, GoesOn DEF Busy, HoldPcs, Late
  <1>11. QED
    BY <1>1, <1>2, <1>3, <1>4, <1>5, <1>6, <1>7, <1>8, <1>9, <1>10

LEMMA BeginsCalm ==
  ASSUME PhasesInv, NEW t \in Calls, Begins(t)
  PROVE  Calm(t)
  <1>1. ASSUME NEW first, PrepareCall(t, first), first \in Free \/ AtInv(t)'
        PROVE  Calm(t)
    <2>1. PICK p \in Resolved(t) : Keep(t, [loc[t] EXCEPT !.path = p])
      BY <1>1 DEF PrepareCall
    <2>2. at[t] = "start" /\ at'[t] = first /\ UNCHANGED <<req, proc>>
      BY <1>1, CallsAt DEF PrepareCall, Go, Quiet
    <2>3. loc'[t].path = p /\ loc'[t].to = loc[t].to /\ p \in Seq(PlainNames)
      BY <2>1, CallsAt, ResolvedPlain DEF Keep, Locals
    <2>4. QED
      BY <1>1, <2>2, <2>3, SettledIntro, CallsAt DEF Calm, Busy, HoldPcs, Late
  <1>2. ASSUME NEW next \in Free, PrepareSecond(t, next)
        PROVE  Calm(t)
    <2>1. PICK p \in Second(t) : Keep(t, [loc[t] EXCEPT !.to = p])
      BY <1>2 DEF PrepareSecond
    <2>2. at[t] = "second" /\ at'[t] = next /\ UNCHANGED <<req, proc>>
      BY <1>2, CallsAt DEF PrepareSecond, Go, Quiet
    <2>3. loc'[t].path = loc[t].path /\ loc'[t].to = p /\ p \in Seq(PlainNames)
      BY <2>1, CallsAt, ResolvedPlain DEF Keep, Locals
    <2>4. QED
      BY <2>2, <2>3, SettledIntro, CallsAt DEF Calm, Busy, HoldPcs, Late
  <1>3. \A p \in {"editStat", "second", "sourceStat", "mkdir", "deleteLook", "sizeLook"} : p \in Free
    BY DEF Free, Pcs, SudoPcs, LocalPcs
  <1>4. FolderStart(t) \in Free /\ LinkStart(t) \in Free
    BY DEF FolderStart, LinkStart, Free, Pcs, SudoPcs, LocalPcs
  <1>5. CASE Tool(t) = "ssh_sudo_edit" /\ PrepareCall(t, "sudoEditRead")
    <2>1. at'[t] = "sudoEditRead" /\ UNCHANGED req
      BY <1>5, CallsAt DEF PrepareCall, Go, Quiet
    <2>2. AtInv(t)'
      BY <1>5, <2>1, OwnerAt DEF SudoWrites, SudoPcs
    <2>3. QED
      BY <1>1, <1>5, <2>2
  <1>6. CASE Tool(t) = "ssh_mkdir" /\ PrepareCall(t, IF Opt(t, "parents") THEN "parentStat" ELSE "mkdir")
    <2>1. CASE Opt(t, "parents")
      <3>1. PICK p \in Resolved(t) : Keep(t, [loc[t] EXCEPT !.path = p])
        BY <1>6 DEF PrepareCall
      <3>2. at[t] = "start" /\ at'[t] = "parentStat"
        BY <1>6, <2>1, CallsAt DEF PrepareCall, Go
      <3>3. loc'[t].path = p /\ loc'[t].todo = <<>> /\ p \in Seq(PlainNames)
        BY <3>1, <3>2, CallsAt, ResolvedPlain DEF Keep, Locals, AtInv
      <3>4. Len(loc'[t].todo) = 0 /\ (p = <<>> \/ 0 < Len(p))
        <4>1. Len(p) \in Nat /\ (Len(p) = 0 => p = <<>>)
          BY <3>3, LenProperties, EmptySeq
        <4>2. Len(loc'[t].todo) = 0
          BY <3>3
        <4>3. QED
          BY <4>1, <4>2
      <3>5. AtInv(t)'
        BY <3>2, <3>3, <3>4 DEF AtInv, Path, SudoPcs, LocalPcs
      <3>6. QED
        BY <1>1, <1>6, <3>5
    <2>2. QED
      BY <1>1, <1>3, <1>6, <2>1
  <1>7. CASE Tool(t) \in Readers /\ ~Opt(t, "local") /\ PrepareCall(t, FirstRead(t))
    <2>1. FirstRead(t) \in Free \cup {"downloadStat"}
      BY <1>7 DEF FirstRead, Readers, Redacted, Free, Pcs, SudoPcs, LocalPcs
    <2>2. at'[t] = FirstRead(t) /\ UNCHANGED req
      BY <1>7, CallsAt DEF PrepareCall, Go, Quiet
    <2>3. ASSUME FirstRead(t) = "downloadStat" PROVE AtInv(t)'
      BY <1>7, <2>2, <2>3 DEF AtInv, SudoPcs, LocalPcs, Opt
    <2>4. QED
      BY <1>1, <1>7, <2>1, <2>3
  <1>8. QED
    BY <1>1, <1>2, <1>3, <1>4, <1>5, <1>6, <1>7 DEF Begins

\* The steps that start a process.
LEMMA LaunchesCalm ==
  ASSUME PhasesInv, NEW t \in Calls,
         SudoOwner(t) \/ SudoMode(t) \/ Recheck(t) \/ SizeLook(t) \/ RenameFallsBack(t) \/ LinkLook(t)
  PROVE  Calm(t)
  <1>0. at[t] \notin Busy /\ proc[t] = "none"
    <2>1. at[t] \in {"owner", "mode", "recheck", "sizeLook", "posixRename", "linkLook"}
      BY DEF SudoOwner, SudoMode, Recheck, SizeLook, RenameFallsBack, LinkLook
    <2>2. QED
      BY <2>1, CallsAt DEF ProcInv, Busy, HoldPcs, Late
  <1>1. UNCHANGED req /\ loc'[t].path = loc[t].path /\ loc'[t].to = loc[t].to
    <2>1. UNCHANGED req
      BY DEF SudoOwner, SudoMode, Recheck, SizeLook, RenameFallsBack, LinkLook
    <2>2. \/ UNCHANGED loc \/ \E x : Keep(t, [loc[t] EXCEPT !.mode = x])
          \/ Keep(t, [loc[t] EXCEPT !.todo = <<>>, !.seen = {}])
      BY DEF SudoOwner, SudoMode, Recheck, SizeLook, RenameFallsBack, LinkLook
    <2>3. QED
      BY <2>1, <2>2, CallsAt DEF Keep, Locals
  <1>2. CASE /\ at'[t] \in {"pipe", "mode"} /\ Tool(t) \in SudoWrites
             /\ proc'[t] = "none" \/ (proc'[t] = "mktemp" /\ at'[t] = "pipe")
    <2>1. AtInv(t)'
      BY <1>1, <1>2, OwnerAt DEF SudoPcs
    <2>2. ProcInv(t)'
      BY <1>1, <1>2 DEF ProcInv, ScriptProcs, ShellProcs, OtherTreeProcs, Late, Tool
    <2>3. QED
      BY <1>0, <1>1, <2>1, <2>2, CallsAt DEF Calm, Settled
  <1>3. CASE at'[t] = "shell" /\ proc'[t] \in {"none", "rm", "cp", "mv", "ln"}
    <2>1. AtInv(t)'
      BY <1>3, FreeAt DEF Free, Pcs, SudoPcs, LocalPcs
    <2>2. ProcInv(t)'
      BY <1>3 DEF ProcInv, ScriptProcs, ShellProcs, OtherTreeProcs, Late
    <2>3. QED
      BY <1>0, <1>1, <2>1, <2>2, CallsAt DEF Calm, Settled
  <1>4. CASE at'[t] \in {"done", "sweepEntry", "posixRename"} /\ UNCHANGED proc
    <2>1. at'[t] \in Free
      BY <1>4 DEF Free, Pcs, SudoPcs, LocalPcs
    <2>2. at[t] \notin Late
      BY <1>0 DEF Busy
    <2>3. QED
      BY <1>0, <1>1, <1>4, <2>1, <2>2, SettledIntro, CallsAt DEF Calm
  <1>5. CASE SudoOwner(t) \/ SudoMode(t)
    <2>1. at[t] \in SudoPcs
      BY <1>5 DEF SudoOwner, SudoMode, SudoPcs
    <2>2. \/ at'[t] = "done" /\ UNCHANGED proc
          \/ at'[t] = "mode" /\ proc'[t] = proc[t]
          \/ at'[t] = "pipe" /\ proc'[t] = "mktemp"
      BY <1>5, CallsAt DEF SudoOwner, SudoMode, Raise, End, Go
    <2>3. QED
      BY <1>0, <1>2, <1>4, <2>1, <2>2, CallsAt DEF AtInv
  <1>6. CASE Recheck(t)
    <2>1. (at'[t] = "sweepEntry" /\ UNCHANGED proc) \/ (at'[t] = "shell" /\ proc'[t] = "rm")
      BY <1>6, CallsAt DEF Recheck, RunShell, Go
    <2>2. QED
      BY <1>3, <1>4, <2>1
  <1>7. CASE SizeLook(t)
    <2>1. \/ at'[t] = "posixRename" /\ UNCHANGED proc
          \/ at'[t] = "shell" /\ proc'[t] \in {proc[t], "cp"}
      BY <1>7, CallsAt DEF SizeLook, RunShell, Go
    <2>2. QED
      BY <1>0, <1>3, <1>4, <2>1
  <1>8. CASE RenameFallsBack(t) \/ LinkLook(t)
    <2>1. RunShell(t, "mv") \/ RunShell(t, "ln")
      BY <1>8 DEF RenameFallsBack, LinkLook
    <2>2. at'[t] = "shell" /\ proc'[t] \in {"mv", "ln"}
      BY <2>1, CallsAt DEF RunShell, Go
    <2>3. QED
      BY <1>3, <2>2
  <1>9. QED
    BY <1>5, <1>6, <1>7, <1>8

\* The steps of a call that has, or may have, a temporary file or a process.
Named(t) ==
  \/ OpenTmp(t) \/ WriteTmp(t) \/ ChmodTmp(t) \/ RenameTmp(t) \/ WriteFails(t) \/ SweepTmp(t) \/ SweepFails(t)
  \/ ScriptStep(t) \/ ScriptStepFails(t) \/ ScriptReturns(t) \/ ScriptTimesOut(t)
  \/ RmStep(t) \/ CpStep(t) \/ MvStep(t) \/ LnStep(t) \/ ShellReturns(t) \/ ShellFails(t) \/ Returns(t)
  \/ LocalOpen(t) \/ LocalOpenFails(t) \/ LocalOpenCancelled(t) \/ LocalRead(t) \/ LocalCopy(t)
  \/ LocalReplace(t) \/ LocalFails(t) \/ ReplacingThread(t) \/ LocalSweep(t)

LEMMA StepKinds ==
  ASSUME PhasesInv, NEW t \in Calls, Step(t)
  PROVE  Calm(t) \/ Named(t)
  <1>1. CASE WriteStep(t)
    BY <1>1, FailuresCalm, WritesCalm, BeginsCalm, LaunchesCalm DEF WriteStep, Failures, Begins, Named
  <1>2. CASE TreeStep(t)
    BY <1>2, FailuresCalm, TreesCalm, BeginsCalm, LaunchesCalm DEF TreeStep, Failures, Begins, Named
  <1>3. CASE ReadStep(t)
    BY <1>3, FailuresCalm, ReadsCalm, BeginsCalm DEF ReadStep, Failures, Begins, Named
  <1>4. CASE PrepareFails(t) \/ Returns(t)
    BY <1>4, FailuresCalm DEF Failures, Named
  <1>5. QED
    BY <1>1, <1>2, <1>3, <1>4 DEF Step

LEMMA NamedSettled ==
  ASSUME PhasesInv, NEW t \in Calls, Named(t)
  PROVE  Settled(t) /\ loc'[t].path = loc[t].path /\ loc'[t].to = loc[t].to /\ UNCHANGED req
  <1>0. UNCHANGED req
    BY DEF Named, OpenTmp, WriteTmp, ChmodTmp, RenameTmp, WriteFails, SweepTmp, SweepFails, ScriptStep,
       ScriptStepFails, ScriptReturns, ScriptTimesOut, RmStep, CpStep, MvStep, LnStep, ShellReturns,
       ShellFails, Returns, LocalOpen, LocalOpenFails, LocalOpenCancelled, LocalRead, LocalCopy,
       LocalReplace, LocalFails, ReplacingThread, LocalSweep, Rest, Quiet, Stepped, RaiseAt
  <1>1. loc'[t].path = loc[t].path /\ loc'[t].to = loc[t].to
    <2>1. \/ UNCHANGED loc \/ (\E x : Keep(t, [loc[t] EXCEPT !.seen = x]))
          \/ (\E x : Keep(t, [loc[t] EXCEPT !.size = x]))
          \/ \E x, y : Keep(t, [loc[t] EXCEPT !.text = x, !.plan = y])
      BY DEF Named, OpenTmp, WriteTmp, ChmodTmp, RenameTmp, WriteFails, SweepTmp, SweepFails, ScriptStep,
       ScriptStepFails, ScriptReturns, ScriptTimesOut, RmStep, CpStep, MvStep, LnStep, ShellReturns,
       ShellFails, Returns, LocalOpen, LocalOpenFails, LocalOpenCancelled, LocalRead, LocalCopy,
       LocalReplace, LocalFails, ReplacingThread, LocalSweep, Stepped, RaiseAt
    <2>2. QED
      BY <2>1, CallsAt DEF Keep, Locals
  <1>2. loc'[t].path \in Seq(PlainNames) /\ loc'[t].to \in Seq(PlainNames)
    BY <1>1, CallsAt
  <1>3. CASE OpenTmp(t) \/ WriteTmp(t) \/ ChmodTmp(t) \/ RenameTmp(t) \/ WriteFails(t)
    <2>1. /\ at[t] \in {"openSource", "open", "write", "chmod", "rename"} /\ UNCHANGED proc
          /\ at'[t] \in {"write", "chmod", "rename", "return", "sweep"}
      BY <1>3, CallsAt DEF OpenTmp, WriteTmp, ChmodTmp, RenameTmp, WriteFails, Rest, Go
    <2>2. at'[t] \in Free /\ at[t] \notin Late
      BY <2>1 DEF Free, Pcs, SudoPcs, LocalPcs, Late
    <2>3. QED
      BY <1>0, <1>1, <1>2, <2>1, <2>2, SettledIntro
  <1>4. CASE \/ SweepTmp(t) \/ SweepFails(t) \/ ScriptTimesOut(t) \/ ShellFails(t) \/ Returns(t)
             \/ LocalOpenFails(t) \/ LocalOpenCancelled(t) \/ LocalSweep(t)
    <2>1. at'[t] = "done" /\ UNCHANGED proc
      BY <1>4, CallsAt DEF SweepTmp, SweepFails, ScriptTimesOut, ShellFails, Returns, LocalOpenFails,
         LocalOpenCancelled, LocalSweep, RaiseAt, Raise, End, Go, Rest, Quiet
    <2>2. QED
      BY <1>0, <1>1, <2>1, SettledAtEnd
  <1>5. CASE ScriptStep(t) \/ ScriptStepFails(t)
    <2>1. UNCHANGED at /\ proc[t] \in ScriptProcs /\ proc'[t] \in ScriptProcs \cup {"ok", "failed"}
      BY <1>5, CallsAt DEF ScriptStep, ScriptStepFails, ScriptProcs
    <2>2. at[t] \in {"pipe", "done"} /\ Tool(t) \in SudoWrites
      BY <2>1, CallsAt DEF ProcInv
    <2>3. AtInv(t)'
      BY <1>0, <2>1, <2>2, OwnerAt DEF Free, Pcs, SudoPcs, LocalPcs
    <2>4. ProcInv(t)'
      BY <1>0, <2>1, <2>2 DEF ProcInv, ScriptProcs, ShellProcs, OtherTreeProcs, Late, Tool
    <2>5. QED
      BY <1>0, <1>1, <1>2, <2>3, <2>4 DEF Settled
  <1>6. CASE ScriptReturns(t) \/ ShellReturns(t)
    <2>1. at'[t] \in {"return", "done"} /\ UNCHANGED proc /\ proc[t] \in {"ok", "failed"}
      BY <1>6, CallsAt DEF ScriptReturns, ShellReturns, Raise, End, Go, Quiet
    <2>2. AtInv(t)'
      BY <2>1, FreeAt DEF Free, Pcs, SudoPcs, LocalPcs
    <2>3. ProcInv(t)'
      BY <2>1 DEF ProcInv, ScriptProcs, ShellProcs, OtherTreeProcs, Late
    <2>4. QED
      BY <1>0, <1>1, <1>2, <2>2, <2>3 DEF Settled
  <1>7. CASE RmStep(t) \/ CpStep(t) \/ MvStep(t) \/ LnStep(t)
    <2>1. UNCHANGED at /\ proc[t] \in ShellProcs
      BY <1>7 DEF RmStep, CpStep, MvStep, LnStep, Stepped, ShellProcs, OtherTreeProcs
    <2>2. \E p \in ShellProcs \cup {"ok", "failed"} : Becomes(t, p)
      <3>1. CASE RmStep(t)
        BY <3>1 DEF RmStep, ShellProcs, OtherTreeProcs
      <3>2. CASE CpStep(t)
        <4>1. Becomes(t, "failed") \/ Becomes(t, "fill") \/ \E all : Becomes(t, IF all THEN "ok" ELSE "failed")
          BY <3>2 DEF CpStep
        <4>2. QED
          BY <4>1 DEF ShellProcs, OtherTreeProcs
      <3>3. CASE MvStep(t)
        <4>1. Becomes(t, "failed") \/ Becomes(t, "ok") \/ Becomes(t, "unlink")
          BY <3>3 DEF MvStep
        <4>2. QED
          BY <4>1 DEF ShellProcs, OtherTreeProcs
      <3>4. CASE LnStep(t)
        BY <3>4 DEF LnStep, ShellProcs, OtherTreeProcs
      <3>5. QED
        BY <1>7, <3>1, <3>2, <3>3, <3>4
    <2>3. proc'[t] \in ShellProcs \cup {"ok", "failed"}
      BY <2>2, CallsAt DEF Becomes
    <2>4. at[t] \in {"shell", "done"}
      BY <2>1, CallsAt DEF ProcInv
    <2>5. AtInv(t)'
      BY <2>1, <2>4, FreeAt DEF Free, Pcs, SudoPcs, LocalPcs
    <2>6. ProcInv(t)'
      BY <2>1, <2>3, <2>4 DEF ProcInv, ScriptProcs, ShellProcs, OtherTreeProcs, Late
    <2>7. QED
      BY <1>0, <1>1, <1>2, <2>5, <2>6 DEF Settled
  <1>8. CASE LocalOpen(t) \/ LocalRead(t) \/ LocalCopy(t) \/ LocalReplace(t)
    <2>1. /\ at[t] \in {"localOpen", "localRead", "localCopy", "localReplace"} /\ UNCHANGED proc
          /\ at'[t] \in {"localRead", "localCopy", "localReplace", "return"}
      BY <1>8, CallsAt DEF LocalOpen, LocalRead, LocalCopy, LocalReplace, Rest, Quiet, Go
    <2>2. Downloads(t) /\ at[t] \notin Late
      BY <2>1, CallsAt DEF AtInv, LocalPcs, Late
    <2>3. AtInv(t)'
      BY <1>0, <2>1, <2>2 DEF AtInv, SudoPcs, LocalPcs, Downloads, Tool, Opt
    <2>4. at[t] \notin Late /\ UNCHANGED <<req, proc>>
      BY <1>0, <2>1, <2>2
    <2>5. Settled(t)
      BY <1>2, <2>3, <2>4, SettledIntro
    <2>6. QED
      BY <1>0, <1>1, <2>5
  <1>9. CASE LocalFails(t)
    <2>1. /\ at[t] \in {"localRead", "localCopy", "localReplace"} /\ at'[t] = "localSweep"
          /\ UNCHANGED proc \/ proc'[t] \in {"replacing", "cancelled"}
      BY <1>9, CallsAt DEF LocalFails, Go
    <2>2. Downloads(t) /\ proc[t] = "none"
      BY <2>1, CallsAt DEF AtInv, ProcInv, LocalPcs, Late
    <2>3. AtInv(t)'
      BY <1>0, <2>1, <2>2 DEF AtInv, SudoPcs, Downloads, Tool, Opt
    <2>4. proc'[t] \in {"none", "replacing", "cancelled"}
      BY <2>1, <2>2
    <2>5. ProcInv(t)'
      BY <1>0, <2>1, <2>2, <2>4 DEF ProcInv, ScriptProcs, ShellProcs, OtherTreeProcs, Late, Downloads, Tool, Opt
    <2>6. QED
      BY <1>0, <1>1, <1>2, <2>3, <2>5 DEF Settled
  <1>10. CASE ReplacingThread(t)
    <2>1. proc[t] = "replacing" /\ proc'[t] = "cancelled" /\ UNCHANGED at
      BY <1>10, CallsAt DEF ReplacingThread
    <2>2. at[t] \in {"localSweep", "done"} /\ Downloads(t)
      BY <2>1, CallsAt DEF ProcInv
    <2>3. AtInv(t)'
      BY <1>0, <2>1, <2>2 DEF AtInv, SudoPcs, Downloads, Tool, Opt
    <2>4. ProcInv(t)'
      BY <2>1, <2>2 DEF ProcInv, ScriptProcs, ShellProcs, OtherTreeProcs, Late
    <2>5. QED
      BY <1>0, <1>1, <1>2, <2>3, <2>4 DEF Settled
  <1>11. QED
    BY <1>0, <1>1, <1>3, <1>4, <1>5, <1>6, <1>7, <1>8, <1>9, <1>10 DEF Named

LEMMA TidyTrees ==
  ASSUME PhasesInv, NEW t, NEW new, TidyStep(t, new)
  PROVE  /\ DOMAIN fs' = DOMAIN fs
         /\ \A h \in DOMAIN fs : TreeOK(fs'[h]) /\ TempsIn(fs'[h]) \subseteq TempsIn(fs[h]) \cup new
  <1>0. \A h \in DOMAIN fs : TreeOK(fs[h])
    BY DEF PhasesInv, NamesInv
  <1>1. CASE UNCHANGED <<fs, raced>>
    BY <1>0, <1>1
  <1>2. ASSUME NEW h \in DOMAIN fs, NEW tree, Affect(t, h, tree), Tidy(fs[h], tree, new)
        PROVE  /\ DOMAIN fs' = DOMAIN fs
               /\ \A g \in DOMAIN fs : TreeOK(fs'[g]) /\ TempsIn(fs'[g]) \subseteq TempsIn(fs[g]) \cup new
    <2>1. fs' = [fs EXCEPT ![h] = tree]
      BY <1>2 DEF Affect
    <2>2. DOMAIN fs' = DOMAIN fs /\ fs'[h] = tree /\ \A g \in DOMAIN fs \ {h} : fs'[g] = fs[g]
      BY <2>1
    <2>3. TreeOK(tree) /\ TempsIn(tree) \subseteq TempsIn(fs[h]) \cup new
      BY <1>2 DEF Tidy
    <2>4. QED
      BY <1>0, <2>2, <2>3
  <1>3. QED
    BY <1>1, <1>2 DEF TidyStep

LEMMA PhasesKept ==
  ASSUME PhasesInv, ReportsInv', NEW t \in Calls, Effect(t), Settled(t),
         DOMAIN fs' = DOMAIN fs /\ \A h \in DOMAIN fs : TreeOK(fs'[h])
  PROVE  PhasesInv'
  <1>1. UNCHANGED req
    BY DEF Effect
  <1>2. \A u \in Calls \ {t} : at'[u] = at[u] /\ loc'[u] = loc[u] /\ proc'[u] = proc[u]
    BY DEF Effect, Others
  <1>3. NamesInv'
    BY <1>1, <1>2 DEF PhasesInv, NamesInv, Settled, Opt
  <1>4. ASSUME NEW u \in Calls PROVE AtInv(u)' /\ ProcInv(u)'
    <2>1. CASE u = t
      BY <2>1 DEF Settled
    <2>2. CASE u # t
      <3>1. AtInv(u) /\ ProcInv(u) /\ at'[u] = at[u] /\ loc'[u] = loc[u] /\ proc'[u] = proc[u]
        BY <1>2, <2>2 DEF PhasesInv
      <3>2. AtInv(u)'
        BY <1>1, <3>1 DEF AtInv, Tool, Downloads, Opt, Path
      <3>3. ProcInv(u)'
        BY <1>1, <3>1 DEF ProcInv, Tool, Downloads, Opt
      <3>4. QED
        BY <3>2, <3>3
    <2>3. QED
      BY <2>1, <2>2
  <1>5. QED
    BY <1>3, <1>4 DEF PhasesInv

LEMMA PhasesNext ==
  ASSUME PhasesInv, [Next]_callVars
  PROVE  PhasesInv'
  <1>0. ReportsInv' /\ FilesInv
    BY ReportsNext DEF PhasesInv, ReportsInv
  <1>1. ASSUME NEW t \in Calls, Step(t)
        PROVE  PhasesInv'
    <2>1. Effect(t) /\ Settled(t)
      BY <1>0, <1>1, StepEffect, StepKinds, NamedSettled DEF Calm
    <2>2. DOMAIN fs' = DOMAIN fs /\ \A h \in DOMAIN fs : TreeOK(fs'[h])
      BY <1>1, StepTidy, TidyTrees
    <2>3. QED
      BY <1>0, <2>1, <2>2, PhasesKept
  <1>2. ASSUME NEW t \in Calls, LoseConnection(t) \/ Cancel(t)
        PROVE  PhasesInv'
    <2>1. Effect(t) /\ UNCHANGED <<fs, req, proc, loc>>
      BY <1>0, <1>2, EnvironmentEffect DEF LoseConnection, Cancel
    <2>2. at'[t] \in {at[t], "done"}
      BY <1>2, CallsAt DEF LoseConnection, Cancel, End, Go
    <2>3. Settled(t)
      <3>1. CASE at'[t] = "done"
        BY <2>1, <3>1, SettledAtEnd
      <3>2. CASE at'[t] = at[t]
        <4>1. AtInv(t)'
          BY <2>1, <3>2, CallsAt DEF AtInv, Tool, Downloads, Opt, Path
        <4>2. ProcInv(t)'
          BY <2>1, <3>2, CallsAt DEF ProcInv, Tool, Downloads, Opt
        <4>3. QED
          BY <2>1, <4>1, <4>2, CallsAt DEF Settled
      <3>3. QED
        BY <2>2, <3>1, <3>2
    <2>4. \A h \in DOMAIN fs : TreeOK(fs'[h])
      BY <2>1 DEF PhasesInv, NamesInv
    <2>5. QED
      BY <1>0, <2>1, <2>3, <2>4, PhasesKept
  <1>3. ASSUME Tick \/ UNCHANGED callVars
        PROVE  PhasesInv'
    <2>1. UNCHANGED <<fs, req, at, loc, proc>>
      BY <1>3 DEF Tick, callVars
    <2>2. NamesInv'
      BY <2>1 DEF PhasesInv, NamesInv, Opt
    <2>3. ASSUME NEW t \in Calls PROVE AtInv(t)' /\ ProcInv(t)'
      <3>1. AtInv(t)'
        BY <2>1, CallsAt DEF AtInv, Tool, Downloads, Opt, Path
      <3>2. ProcInv(t)'
        BY <2>1, CallsAt DEF ProcInv, Tool, Downloads, Opt
      <3>3. QED
        BY <3>1, <3>2
    <2>4. QED
      BY <1>0, <2>2, <2>3 DEF PhasesInv
  <1>4. QED
    BY <1>1, <1>2, <1>3 DEF Next, Over

LEMMA PhasesInit ==
  ASSUME CallsInit
  PROVE  PhasesInv /\ \A h \in DOMAIN fs : TempsIn(fs[h]) = {}
  <1>1. PICK s \in Scenarios : fs = s.fs /\ req = s.req
    BY DEF CallsInit
  <1>2. \A t \in Calls : at[t] \in {"start", "done"} /\ loc[t] = NoLocals /\ proc[t] = "none"
    BY DEF CallsInit
  <1>3. /\ \A h \in DOMAIN s.fs : NamesIn(s.fs[h]) \subseteq PlainNames /\ WellFormed(s.fs[h])
        /\ \A t \in Calls : /\ Range(s.req[t].path) \subseteq PlainNames /\ Range(s.req[t].to) \subseteq PlainNames
                            /\ IsPath(s.req[t].path) /\ IsPath(s.req[t].to)
                            /\ s.req[t].peer \in DOMAIN s.fs /\ ("local" \in s.req[t].opts => s.req[t].peer = Mcp)
    <2>1. /\ \A h \in DOMAIN s.fs : NamesIn(s.fs[h]) \subseteq PlainNames
          /\ \A t \in Calls : Range(s.req[t].path) \subseteq PlainNames /\ Range(s.req[t].to) \subseteq PlainNames
      <3>1. NamesHeld(s) \subseteq PlainNames /\ NamesAsked(s) \subseteq PlainNames
        BY DEF PlainNames
      <3>2. ASSUME NEW h \in DOMAIN s.fs
            PROVE  NamesIn(s.fs[h]) \subseteq NamesHeld(s)
        BY DEF NamesHeld
      <3>3. ASSUME NEW t \in Calls
            PROVE  Range(s.req[t].path) \cup Range(s.req[t].to) \subseteq NamesAsked(s)
        BY Zenon DEF NamesAsked
      <3>4. QED
        BY <3>1, <3>2, <3>3
    <2>2. QED
      BY <2>1, ScenariosAssumption
  <1>4. ASSUME NEW p, IsPath(p), Range(p) \subseteq PlainNames PROVE p \in Seq(PlainNames)
    BY <1>4, SeqMonotonic DEF IsPath
  <1>5. ASSUME NEW h \in DOMAIN fs PROVE TreeOK(fs[h]) /\ TempsIn(fs[h]) = {}
    <2>1. SUFFICES ASSUME NEW q \in DOMAIN fs[h]
                   PROVE  /\ fs[h][q].kind = "link" => fs[h][q].names \in Seq(PlainNames)
                          /\ q # <<>> => Last(q) \notin Temps
      BY DEF TreeOK, TempsIn
    <2>2. /\ Range(q) \subseteq NamesIn(fs[h])
          /\ fs[h][q].kind = "link" => Range(fs[h][q].names) \subseteq NamesIn(fs[h])
      BY DEF NamesIn
    <2>3. IsPath(q) /\ (fs[h][q].kind = "link" => IsPath(fs[h][q].names))
      BY <1>1, <1>3 DEF WellFormed, IsNode
    <2>4. NamesIn(fs[h]) \subseteq PlainNames
      BY <1>1, <1>3
    <2>5. q \in Seq(PlainNames) /\ (fs[h][q].kind = "link" => fs[h][q].names \in Seq(PlainNames))
      BY <1>4, <2>2, <2>3, <2>4
    <2>6. QED
      BY <2>5, PlainEnd, PlainNotTemp
  <1>6. NamesInv
    <2>1. NoLocals.path = <<>> /\ NoLocals.to = <<>> /\ <<>> \in Seq(PlainNames)
      BY NamesApart DEF NoLocals
    <2>2. \A t \in Calls : req[t].path \in Seq(PlainNames) /\ req[t].to \in Seq(PlainNames)
      BY <1>1, <1>3, <1>4
    <2>3. QED
      BY <1>1, <1>2, <1>3, <1>5, <2>1, <2>2 DEF NamesInv, Opt
  <1>7. ASSUME NEW t \in Calls PROVE AtInv(t) /\ ProcInv(t)
    BY <1>2 DEF AtInv, ProcInv, NoLocals, SudoPcs, LocalPcs, ScriptProcs, ShellProcs, OtherTreeProcs
  <1>8. QED
    BY <1>5, <1>6, <1>7, ReportsInit DEF PhasesInv

-----------------------------------------------------------------------------
(* Where the temporary files of a call are *)

\* None is in the tree; if one is, it is where the call looks for it.
Clear(t, tree) == \A q \in DOMAIN tree : q # <<>> => Last(q) \notin OwnNames(t)
Only(t, tree, p) ==
  \A q \in DOMAIN tree : q # <<>> /\ Last(q) \in OwnNames(t) => q = RealM(tree, TmpOf(t, p))

LEMMA ClearTidy ==
  ASSUME NEW t \in Calls, NEW tree, NEW u, NEW new, Tidy(tree, u, new), new \cap OwnNames(t) = {}, Clear(t, tree)
  PROVE  Clear(t, u)
  <1>1. SUFFICES ASSUME NEW q \in DOMAIN u, q # <<>>, Last(q) \in OwnNames(t) PROVE FALSE
    BY DEF Clear
  <1>2. Last(q) \in TempsIn(u)
    BY <1>1, NamesApart DEF TempsIn
  <1>3. Last(q) \in TempsIn(tree)
    BY <1>1, <1>2 DEF Tidy
  <1>4. QED
    BY <1>1, <1>3 DEF TempsIn, Clear

LEMMA OnlyRewritten ==
  ASSUME NEW t, NEW p, NEW tree, Only(t, tree, p), NEW u, DOMAIN u = DOMAIN tree, SameLinks(tree, u)
  PROVE  Only(t, u, p)
  <1>1. RealM(tree, TmpOf(t, p)) = RealM(u, TmpOf(t, p))
    BY SameResolution
  <1>2. QED
    BY <1>1 DEF Only

\* What is at the place of a temporary file is a file.
LEMMA TmpNode ==
  ASSUME NEW t \in Calls, NEW p \in Seq(PlainNames), NEW tree, TreeOK(tree), NEW q, q = RealM(tree, TmpOf(t, p)),
         q # Nowhere
  PROVE  /\ IsPath(q) /\ q # <<>> /\ q = Place(tree, TmpOf(t, p))
         /\ Last(q) = TmpName(NameOf(p), t) /\ Last(q) \in OwnNames(t) /\ Last(q) \in Temps
         /\ q \in DOMAIN tree => tree[q].kind = "file"
  <1>1. q # <<>> /\ q = Place(tree, TmpOf(t, p)) /\ Last(q) = TmpName(NameOf(p), t)
    BY TmpIs
  <1>2. Last(q) \in OwnNames(t) /\ Last(q) \in Temps
    BY <1>1, TmpOfPlain
  <1>3. IsPath(q)
    BY PlacesArePaths
  <1>4. q \in DOMAIN tree => tree[q].kind = "file"
    BY <1>1, <1>2 DEF TreeOK
  <1>5. QED
    BY <1>1, <1>2, <1>3, <1>4

LEMMA OnlyCreated ==
  ASSUME NEW t \in Calls, NEW p \in Seq(PlainNames), NEW tree, TreeOK(tree), Only(t, tree, p),
         CanCreate(tree, TmpOf(t, p)), NEW text, NEW mode
  PROVE  Only(t, CreateTree(tree, TmpOf(t, p), File(text, mode)), p)
  <1> DEFINE q == RealM(tree, TmpOf(t, p))
             u == CreateTree(tree, TmpOf(t, p), File(text, mode))
  <1>1. q # Nowhere
    BY DEF CanCreate
  <1>2. q \in DOMAIN tree => tree[q].kind = "file"
    BY <1>1, TmpNode
  <1>3. DOMAIN u = DOMAIN tree \cup {q} /\ u[q] = File(text, mode) /\ \A r \in DOMAIN tree \ {q} : u[r] = tree[r]
    BY DEF CreateTree, Put
  <1>4. u[q].kind = "file"
    BY <1>3, FileIs
  <1> HIDE DEF q, u
  <1>5. SameLinks(tree, u)
    BY <1>2, <1>3, <1>4 DEF SameLinks, IsLink
  <1>6. RealM(u, TmpOf(t, p)) = q
    BY <1>5, SameResolution DEF q
  <1>7. Only(t, u, p)
    BY <1>3, <1>6 DEF Only, q
  <1>8. QED
    BY <1>7 DEF u

LEMMA ClearRemoved ==
  ASSUME NEW t \in Calls, NEW p \in Seq(PlainNames), NEW tree, WellFormed(tree), TreeOK(tree), Only(t, tree, p)
  PROVE  /\ CanRemove(tree, TmpOf(t, p)) => Clear(t, RemoveTree(tree, TmpOf(t, p)))
         /\ ~CanRemove(tree, TmpOf(t, p)) => Clear(t, tree)
  <1> DEFINE s == RealM(tree, TmpOf(t, p))
  <1>1. ASSUME NEW q \in DOMAIN tree, q # <<>>, Last(q) \in OwnNames(t)
        PROVE  q = s /\ CanRemove(tree, TmpOf(t, p))
    <2>1. q = s /\ s # Nowhere /\ s \in DOMAIN tree
      BY <1>1 DEF Only, WellFormed
    <2>2. Place(tree, TmpOf(t, p)) = s /\ tree[s].kind = "file"
      BY <2>1, TmpNode
    <2>3. QED
      BY <2>1, <2>2 DEF CanRemove, LstatOk, Lstat
  <1>2. ASSUME CanRemove(tree, TmpOf(t, p))
        PROVE  Clear(t, RemoveTree(tree, TmpOf(t, p)))
    <2>1. Place(tree, TmpOf(t, p)) = s /\ IsPath(s)
      BY TmpIs, PlacesArePaths
    <2>2. IsPrefix(s, s)
      BY <2>1, PrefixSelf
    <2>3. DOMAIN RemoveTree(tree, TmpOf(t, p)) = DOMAIN tree \ Under(tree, s)
      BY <2>1 DEF RemoveTree, Without, Restrict
    <2>4. QED
      BY <1>1, <2>2, <2>3 DEF Clear, Under
  <1>3. QED
    BY <1>1, <1>2 DEF Clear

LEMMA LeafMoved ==
  ASSUME NEW t, WellFormed(t), NEW s, NEW d, IsPath(d), s # d, Fits(t, s, d), t[s].kind # "dir"
  PROVE  /\ DOMAIN MoveTree(t, s, d) = (DOMAIN t \ ({s} \cup Under(t, d))) \cup {d}
         /\ \A q \in DOMAIN MoveTree(t, s, d) : MoveTree(t, s, d)[q] = IF q = d THEN t[s] ELSE t[q]
         /\ Under(t, d) \subseteq {d}
  <1>1. s \in DOMAIN t /\ IsPath(s) /\ ~IsDir(t, s) /\ ~IsDir(t, d)
    BY TreePaths DEF Fits, IsDir
  <1>2. Under(t, s) = {s}
    <2>1. \A q \in Under(t, s) : q = s
      BY <1>1, AboveAreDirs DEF Under
    <2>2. s \in Under(t, s)
      BY <1>1, PrefixSelf DEF Under
    <2>3. QED
      BY <2>1, <2>2
  <1>3. Under(t, d) \subseteq {d}
    BY <1>1, AboveAreDirs DEF Under
  <1>4. Rebase(s, s, d) = d /\ Rebase(d, d, s) = s
    BY <1>1, RebaseSelf
  <1>5. {Rebase(q, s, d) : q \in Under(t, s)} = {d}
    BY <1>2, <1>4
  <1>6. MoveTree(t, s, d) = [q \in (DOMAIN t \ ({s} \cup Under(t, d))) \cup {d} |-> IF q \in {d} THEN t[Rebase(q, d, s)] ELSE t[q]]
    BY <1>2, <1>5 DEF MoveTree
  <1>7. QED
    BY <1>3, <1>4, <1>6

LEMMA FileMoved ==
  ASSUME NEW t, WellFormed(t), NEW s, NEW d, IsPath(d), s # d, Fits(t, s, d), t[s].kind = "file"
  PROVE  /\ DOMAIN MoveTree(t, s, d) = (DOMAIN t \ ({s} \cup Under(t, d))) \cup {d}
         /\ \A q \in DOMAIN MoveTree(t, s, d) : MoveTree(t, s, d)[q] = IF q = d THEN t[s] ELSE t[q]
         /\ Under(t, d) \subseteq {d}
  BY LeafMoved

LEMMA ClearMoved ==
  ASSUME NEW t \in Calls, NEW p \in Seq(PlainNames), NEW tree, WellFormed(tree), TreeOK(tree), Only(t, tree, p),
         NEW d, IsPath(d), Fits(tree, Place(tree, TmpOf(t, p)), d), Last(d) \notin Temps
  PROVE  Clear(t, MoveTree(tree, Place(tree, TmpOf(t, p)), d))
  <1> DEFINE s == RealM(tree, TmpOf(t, p))
             u == MoveTree(tree, s, d)
  <1>1. s = Place(tree, TmpOf(t, p))
    BY TmpIs
  <1>2. s \in DOMAIN tree /\ s # Nowhere
    BY <1>1 DEF Fits, WellFormed
  <1>3. tree[s].kind = "file" /\ Last(s) \in Temps
    BY <1>2, TmpNode
  <1>4. s # d /\ Fits(tree, s, d)
    BY <1>1, <1>3
  <1> HIDE DEF s
  <1>5. DOMAIN u = (DOMAIN tree \ ({s} \cup Under(tree, d))) \cup {d}
    BY <1>3, <1>4, FileMoved
  <1> HIDE DEF u
  <1>6. \A q \in DOMAIN tree : q # <<>> /\ Last(q) \in OwnNames(t) => q = s
    BY DEF Only, s
  <1>7. Last(d) \notin OwnNames(t)
    BY NamesApart
  <1>8. Clear(t, u)
    BY <1>5, <1>6, <1>7 DEF Clear
  <1>9. QED
    BY <1>1, <1>8 DEF u

\* `mv` puts it inside a directory: which remains one.
LEMMA DirStays ==
  ASSUME NEW t \in Calls, NEW p \in Seq(PlainNames), NEW tree, WellFormed(tree), TreeOK(tree),
         IsDir(tree, RealM(tree, p)), CanMv(tree, TmpOf(t, p), p)
  PROVE  IsDir(MvTree(tree, TmpOf(t, p), p), RealM(MvTree(tree, TmpOf(t, p), p), p))
  <1> DEFINE s == Place(tree, TmpOf(t, p))
             r == RealM(tree, p)
             c == Last(TmpOf(t, p))
             d == Append(r, c)
             u == MoveTree(tree, s, d)
  <1>1. Target(tree, TmpOf(t, p), p) = d
    BY DEF Target
  <1>2. MvTree(tree, TmpOf(t, p), p) = u /\ Fits(tree, s, d)
    BY <1>1 DEF MvTree, CanMv
  <1>3. IsPath(r) /\ IsPath(d) /\ d # r /\ d # <<>> /\ Last(d) = c
    <2>1. IsPath(r)
      BY PlacesArePaths
    <2> HIDE DEF r, c
    <2>2. IsPath(d) /\ Len(d) = Len(r) + 1 /\ d # <<>>
      BY <2>1, PathAppend
    <2>3. Last(d) = c
      BY <2>1, AppendEnds
    <2>4. Len(r) \in Nat
      BY <2>1, PathDef
    <2>5. QED
      BY <2>1, <2>2, <2>3, <2>4
  <1>4. c \in Temps
    BY TmpOfPlain
  <1>5. s \in DOMAIN tree /\ s # Nowhere /\ s = RealM(tree, TmpOf(t, p))
    BY <1>2, TmpIs DEF Fits, WellFormed
  <1>6. tree[s].kind = "file"
    BY <1>5, TmpNode
  <1>7. d \in DOMAIN tree => tree[d].kind = "file"
    BY <1>3, <1>4 DEF TreeOK
  <1> HIDE DEF s, c, d
  <1>8. CASE s = d
    BY <1>2, <1>8 DEF MoveTree
  <1>9. CASE s # d
    <2>1. /\ DOMAIN u = (DOMAIN tree \ ({s} \cup Under(tree, d))) \cup {d}
          /\ \A q \in DOMAIN u : u[q] = IF q = d THEN tree[s] ELSE tree[q]
          /\ Under(tree, d) \subseteq {d}
      BY <1>2, <1>3, <1>6, <1>9, FileMoved
    <2> HIDE DEF u
    <2>2. SameLinks(tree, u)
      BY <1>5, <1>6, <1>7, <2>1 DEF SameLinks, IsLink
    <2>3. RealM(u, p) = r
      BY <2>2, SameResolution
    <2> HIDE DEF r
    <2>4. r \in DOMAIN tree /\ tree[r].kind = "dir"
      BY DEF IsDir, r
    <2>5. r \in DOMAIN u /\ u[r] = tree[r]
      BY <1>3, <1>6, <2>1, <2>4
    <2>6. QED
      BY <1>2, <2>3, <2>4, <2>5 DEF IsDir
  <1>10. QED
    BY <1>8, <1>9

LEMMA ClearRenamed ==
  ASSUME NEW t \in Calls, NEW p \in Seq(PlainNames), NEW tree, WellFormed(tree), TreeOK(tree), Only(t, tree, p)
  PROVE  /\ CanRename(tree, TmpOf(t, p), p) => Clear(t, RenameTree(tree, TmpOf(t, p), p))
         /\ CanMv(tree, TmpOf(t, p), p) /\ ~IsDir(tree, RealM(tree, p)) => Clear(t, MvTree(tree, TmpOf(t, p), p))
  <1> DEFINE d == Place(tree, p)
  <1>1. IsPath(d) /\ d \in Seq(PlainNames)
    BY PlacesArePaths, PlainStays
  <1>2. d # <<>> => Last(d) \notin Temps
    BY <1>1, PlainEnd, PlainNotTemp
  <1>3. Fits(tree, Place(tree, TmpOf(t, p)), d) => Clear(t, MoveTree(tree, Place(tree, TmpOf(t, p)), d))
    <2> HIDE DEF d
    <2>1. Fits(tree, Place(tree, TmpOf(t, p)), d) => d # <<>>
      BY DEF Fits
    <2>2. QED
      BY <1>1, <1>2, <2>1, ClearMoved
  <1>4. CanMv(tree, TmpOf(t, p), p) /\ ~IsDir(tree, RealM(tree, p)) => Target(tree, TmpOf(t, p), p) = d
    BY DEF Target
  <1>5. QED
    BY <1>3, <1>4 DEF CanRename, RenameTree, CanMv, MvTree

-----------------------------------------------------------------------------
(* The invariant *)

HoldProcs == {"cat", "chmod", "move", "remove"}
\* A temporary file may be there, and will be seen to.
Holds(t) == at[t] \in HoldPcs \/ proc[t] \in HoldProcs
\* What it is the temporary file of.
SiteHost(t) == IF Downloads(t) THEN Mcp ELSE Home(t)
SitePath(t) == IF Downloads(t) THEN loc[t].to ELSE Final(t)

NoneOwn(t) == \A h \in DOMAIN fs : Clear(t, fs[h])
OneOwn(t) == \A h \in DOMAIN fs : IF h = SiteHost(t) THEN Only(t, fs[h], SitePath(t)) ELSE Clear(t, fs[h])
Excused(t) == out[t] = "cancelled" \/ t \in cut \/ (out[t] = "error" /\ faults > 0)
MovedIn(t) == Tool(t) \in SudoWrites /\ proc[t] = "ok" /\ IsDir(fs[On(t)], RealM(fs[On(t)], loc[t].path))

OwnInv(t) == t \notin raced => Excused(t) \/ MovedIn(t) \/ NoneOwn(t) \/ (Holds(t) /\ OneOwn(t))
TempsInv == PhasesInv /\ \A t \in Calls : OwnInv(t)

LEMMA SiteStays ==
  ASSUME NEW t, UNCHANGED req, loc'[t].path = loc[t].path /\ loc'[t].to = loc[t].to
  PROVE  SiteHost(t)' = SiteHost(t) /\ SitePath(t)' = SitePath(t)
  BY DEF SiteHost, SitePath, Downloads, Home, Final, Tool, Opt, On

LEMMA SiteIs ==
  ASSUME PhasesInv, NEW t \in Calls
  PROVE  /\ SiteHost(t) \in DOMAIN fs /\ WellFormed(fs[SiteHost(t)]) /\ TreeOK(fs[SiteHost(t)])
         /\ SitePath(t) \in Seq(PlainNames) /\ <<SiteHost(t), SitePath(t)>> \in Names(t)
  <1>1. Downloads(t) => Mcp = req[t].peer
    BY DEF PhasesInv, NamesInv, Downloads
  <1>2. <<SiteHost(t), SitePath(t)>> \in Names(t)
    BY <1>1 DEF SiteHost, SitePath, Names, Home, Final
  <1>3. QED
    BY <1>2, TreesHere DEF SiteHost, SitePath

\* Only the steps of a download take place on the MCP host.
LEMMA SiteOf ==
  ASSUME PhasesInv, NEW t \in Calls
  PROVE  /\ at[t] \in {"open", "write", "chmod", "rename", "sweep"} => SiteHost(t) = Home(t) /\ SitePath(t) = Final(t)
         /\ at[t] \in LocalPcs \/ proc[t] = "replacing" => SiteHost(t) = Mcp /\ SitePath(t) = loc[t].to
         /\ proc[t] \in ScriptProcs =>
              Tool(t) \in SudoWrites /\ SiteHost(t) = On(t) /\ SitePath(t) = loc[t].path
  <1>1. ASSUME at[t] \in {"open", "write", "chmod", "rename", "sweep"} PROVE ~Downloads(t)
    <2>1. Downloads(t) => Reporting(t)
      BY DEF Downloads, Reporting, Readers
    <2>2. Reporting(t) => at[t] \in ReaderPcs
      BY DEF PhasesInv, ReportsInv, ReaderInv
    <2>3. QED
      BY <1>1, <2>1, <2>2 DEF ReaderPcs, FirstLooks
  <1>2. at[t] \in LocalPcs \/ proc[t] = "replacing" => Downloads(t)
    BY CallsAt DEF AtInv, ProcInv
  <1>3. ASSUME proc[t] \in ScriptProcs PROVE Tool(t) \in SudoWrites /\ ~Downloads(t) /\ Home(t) = On(t) /\ Final(t) = loc[t].path
    <2>1. Tool(t) \in SudoWrites
      BY <1>3, CallsAt DEF ProcInv
    <2>2. QED
      BY <2>1 DEF SudoWrites, Downloads, Home, Final
  <1>4. QED
    BY <1>1, <1>2, <1>3 DEF SiteHost, SitePath

LEMMA SiteChanged ==
  ASSUME PhasesInv, NEW t \in Calls, NEW tree, Affect(t, SiteHost(t), tree), OneOwn(t),
         UNCHANGED req, loc'[t].path = loc[t].path /\ loc'[t].to = loc[t].to
  PROVE  /\ Clear(t, tree) => NoneOwn(t)'
         /\ Only(t, tree, SitePath(t)) => OneOwn(t)'
         /\ fs'[SiteHost(t)] = tree
  <1>1. fs' = [fs EXCEPT ![SiteHost(t)] = tree]
    BY DEF Affect
  <1>2. /\ DOMAIN fs' = DOMAIN fs /\ fs'[SiteHost(t)] = tree
        /\ \A h \in DOMAIN fs \ {SiteHost(t)} : fs'[h] = fs[h] /\ Clear(t, fs[h])
    BY <1>1, SiteIs DEF OneOwn
  <1>3. Clear(t, tree) => NoneOwn(t)'
    BY <1>2 DEF NoneOwn
  <1>4. SiteHost(t)' = SiteHost(t) /\ SitePath(t)' = SitePath(t)
    BY SiteStays
  <1>5. ASSUME Only(t, tree, SitePath(t)), NEW h \in DOMAIN fs
        PROVE  IF h = SiteHost(t) THEN Only(t, fs'[h], SitePath(t)) ELSE Clear(t, fs'[h])
    BY <1>2, <1>5
  <1>6. Only(t, tree, SitePath(t)) => OneOwn(t)'
    BY <1>2, <1>4, <1>5 DEF OneOwn
  <1>7. QED
    BY <1>2, <1>3, <1>6

-----------------------------------------------------------------------------
(* The call's own steps *)

SeenTo(t) == Excused(t)' \/ MovedIn(t)' \/ NoneOwn(t)' \/ (Holds(t)' /\ OneOwn(t)')

LEMMA Removes ==
  ASSUME PhasesInv, NEW t \in Calls, OneOwn(t), UNCHANGED req, loc'[t].path = loc[t].path /\ loc'[t].to = loc[t].to,
         IF CanRemove(fs[SiteHost(t)], TmpOf(t, SitePath(t)))
         THEN Affect(t, SiteHost(t), RemoveTree(fs[SiteHost(t)], TmpOf(t, SitePath(t)))) ELSE UNCHANGED fs
  PROVE  NoneOwn(t)'
  <1> DEFINE tree == fs[SiteHost(t)]
             tmp == TmpOf(t, SitePath(t))
  <1>1. WellFormed(tree) /\ TreeOK(tree) /\ SitePath(t) \in Seq(PlainNames) /\ Only(t, tree, SitePath(t))
    BY SiteIs DEF OneOwn
  <1>2. CASE CanRemove(tree, tmp)
    <2>1. Clear(t, RemoveTree(tree, tmp))
      BY <1>1, <1>2, ClearRemoved
    <2>2. QED
      BY <1>2, <2>1, SiteChanged
  <1>3. CASE ~CanRemove(tree, tmp)
    <2>1. Clear(t, tree) /\ UNCHANGED fs
      BY <1>1, <1>3, ClearRemoved
    <2>2. QED
      BY <2>1 DEF OneOwn, NoneOwn
  <1>4. QED
    BY <1>2, <1>3

LEMMA Rewrites ==
  ASSUME PhasesInv, NEW t \in Calls, OneOwn(t), UNCHANGED req, loc'[t].path = loc[t].path /\ loc'[t].to = loc[t].to,
         NEW q, NEW x, NEW places,
         NEW tree \in {[fs[SiteHost(t)] EXCEPT ![q].text = x], [fs[SiteHost(t)] EXCEPT ![q].mode = x],
                       Grow(fs[SiteHost(t)], places, x)},
         Affect(t, SiteHost(t), tree)
  PROVE  OneOwn(t)'
  <1>1. DOMAIN tree = DOMAIN fs[SiteHost(t)] /\ SameLinks(fs[SiteHost(t)], tree)
    <2> DEFINE was == fs[SiteHost(t)]
    <2>1. WellFormed(was) /\ TreeOK(was)
      BY SiteIs
    <2>2. tree \in {[was EXCEPT ![q].text = x], [was EXCEPT ![q].mode = x], Grow(was, places, x)}
      OBVIOUS
    <2> HIDE DEF was
    <2>3. /\ DOMAIN [was EXCEPT ![q].text = x] = DOMAIN was /\ SameLinks(was, [was EXCEPT ![q].text = x])
          /\ DOMAIN [was EXCEPT ![q].mode = x] = DOMAIN was /\ SameLinks(was, [was EXCEPT ![q].mode = x])
          /\ DOMAIN Grow(was, places, x) = DOMAIN was /\ SameLinks(was, Grow(was, places, x))
      BY <2>1, RewriteSame
    <2>4. QED
      BY <2>2, <2>3 DEF was
  <1>2. Only(t, fs[SiteHost(t)], SitePath(t))
    BY SiteIs DEF OneOwn
  <1>3. Only(t, tree, SitePath(t))
    BY <1>1, <1>2, OnlyRewritten
  <1>4. QED
    BY <1>3, SiteChanged

LEMMA Creates ==
  ASSUME PhasesInv, NEW t \in Calls, OneOwn(t), UNCHANGED req, loc'[t].path = loc[t].path /\ loc'[t].to = loc[t].to,
         CanCreate(fs[SiteHost(t)], TmpOf(t, SitePath(t))), NEW text, NEW mode,
         Affect(t, SiteHost(t), CreateTree(fs[SiteHost(t)], TmpOf(t, SitePath(t)), File(text, mode)))
  PROVE  OneOwn(t)'
  <1>1. Only(t, fs[SiteHost(t)], SitePath(t))
    BY SiteIs DEF OneOwn
  <1>2. Only(t, CreateTree(fs[SiteHost(t)], TmpOf(t, SitePath(t)), File(text, mode)), SitePath(t))
    BY <1>1, SiteIs, OnlyCreated
  <1>3. QED
    BY <1>2, SiteChanged

LEMMA Renames ==
  ASSUME PhasesInv, NEW t \in Calls, OneOwn(t), UNCHANGED req, loc'[t].path = loc[t].path /\ loc'[t].to = loc[t].to,
         CanRename(fs[SiteHost(t)], TmpOf(t, SitePath(t)), SitePath(t)),
         Affect(t, SiteHost(t), RenameTree(fs[SiteHost(t)], TmpOf(t, SitePath(t)), SitePath(t)))
  PROVE  NoneOwn(t)'
  <1>1. Only(t, fs[SiteHost(t)], SitePath(t))
    BY SiteIs DEF OneOwn
  <1>2. Clear(t, RenameTree(fs[SiteHost(t)], TmpOf(t, SitePath(t)), SitePath(t)))
    BY <1>1, SiteIs, ClearRenamed
  <1>3. QED
    BY <1>2, SiteChanged

LEMMA AffectsOf ==
  ASSUME NEW t
  PROVE  \A h, tree : Scratch(t, h, tree) \/ Change(t, h, tree) => Affect(t, h, tree)
  BY DEF Scratch, Change

LEMMA WriteOwn ==
  ASSUME PhasesInv, NEW t \in Calls, OneOwn(t),
         OpenTmp(t) \/ WriteTmp(t) \/ ChmodTmp(t) \/ RenameTmp(t) \/ SweepTmp(t) \/ SweepFails(t)
  PROVE  SeenTo(t)
  <1> DEFINE h == SiteHost(t)
             tmp == TmpOf(t, SitePath(t))
  <1>0. UNCHANGED req /\ loc'[t].path = loc[t].path /\ loc'[t].to = loc[t].to
    BY NamedSettled DEF Named
  <1>1. /\ at[t] \in {"open", "write", "chmod", "rename", "sweep"}
        /\ DOMAIN at = Calls /\ DOMAIN out = Calls
    BY CallsAt DEF OpenTmp, WriteTmp, ChmodTmp, RenameTmp, SweepTmp, SweepFails, RaiseAt,
       PhasesInv, ReportsInv, FilesInv, FilesTypeOK
  <1>2. Home(t) = h /\ Tmp(t) = tmp /\ Final(t) = SitePath(t)
    BY <1>1, SiteOf DEF Tmp
  <1>3. CASE OpenTmp(t)
    <2>1. /\ CanCreate(fs[h], tmp) /\ Affect(t, h, CreateTree(fs[h], tmp, File(<<>>, "0644"))) /\ at'[t] = "write"
      BY <1>1, <1>2, <1>3, AffectsOf DEF OpenTmp, Go
    <2>2. OneOwn(t)'
      BY <1>0, <2>1, Creates
    <2>3. QED
      BY <2>1, <2>2 DEF SeenTo, Holds, HoldPcs
  <1>4. CASE WriteTmp(t)
    <2>1. at'[t] \in {"write", "chmod", "rename"}
      BY <1>1, <1>4 DEF WriteTmp, Go
    <2>2. \E places, x : Affect(t, h, Grow(fs[h], places, x))
      BY <1>2, <1>4, AffectsOf DEF WriteTmp
    <2>3. OneOwn(t)'
      BY <1>0, <2>2, Rewrites
    <2>4. QED
      BY <2>1, <2>3 DEF SeenTo, Holds, HoldPcs
  <1>5. CASE ChmodTmp(t)
    <2> DEFINE q == RealM(fs[h], tmp)
    <2>1. at'[t] = "rename"
      BY <1>1, <1>5 DEF ChmodTmp, Go
    <2>2. Scratch(t, h, [fs[h] EXCEPT ![q].mode = loc[t].mode])
      BY <1>2, <1>5 DEF ChmodTmp
    <2> HIDE DEF q
    <2>3. Affect(t, h, [fs[h] EXCEPT ![q].mode = loc[t].mode])
      BY <2>2, AffectsOf
    <2>4. OneOwn(t)'
      BY <1>0, <2>3, Rewrites
    <2>5. QED
      BY <2>1, <2>4 DEF SeenTo, Holds, HoldPcs
  <1>6. CASE RenameTmp(t)
    <2>1. CanRename(fs[h], tmp, SitePath(t)) /\ Affect(t, h, RenameTree(fs[h], tmp, SitePath(t)))
      BY <1>2, <1>6, AffectsOf DEF RenameTmp
    <2>2. QED
      BY <1>0, <2>1, Renames DEF SeenTo
  <1>7. CASE SweepTmp(t)
    <2>1. IF CanRemove(fs[h], tmp) THEN Affect(t, h, RemoveTree(fs[h], tmp)) ELSE UNCHANGED fs
      BY <1>2, <1>7, AffectsOf DEF SweepTmp
    <2>2. QED
      BY <1>0, <2>1, Removes DEF SeenTo
  <1>8. CASE SweepFails(t)
    <2>1. Trouble(t, CanRemove(fs[h], tmp)) /\ out'[t] = "error" /\ UNCHANGED <<fs, cut>>
      BY <1>1, <1>2, <1>8 DEF SweepFails, RaiseAt, Raise, End
    <2>2. \/ t \in cut \/ ~CanRemove(fs[h], tmp) \/ faults' = faults + 1
      BY <2>1 DEF Trouble
    <2>3. faults \in Nat
      BY DEF PhasesInv, ReportsInv, FilesInv, FilesTypeOK
    <2>4. CASE ~CanRemove(fs[h], tmp)
      BY <1>0, <2>1, <2>4, Removes DEF SeenTo
    <2>5. QED
      BY <2>1, <2>2, <2>3, <2>4 DEF SeenTo, Excused
  <1>9. QED
    BY <1>3, <1>4, <1>5, <1>6, <1>7, <1>8

LEMMA LocalOwn ==
  ASSUME PhasesInv, NEW t \in Calls, OneOwn(t),
         \/ LocalOpen(t) \/ LocalOpenCancelled(t) \/ LocalCopy(t) \/ LocalReplace(t) \/ LocalSweep(t)
         \/ ReplacingThread(t) /\ CanReplace(t)
  PROVE  SeenTo(t)
  <1> DEFINE h == SiteHost(t)
             tmp == TmpOf(t, SitePath(t))
  <1>0. UNCHANGED req /\ loc'[t].path = loc[t].path /\ loc'[t].to = loc[t].to
    BY NamedSettled DEF Named
  <1>1. at[t] \in LocalPcs \/ proc[t] = "replacing"
    BY DEF LocalOpen, LocalOpenCancelled, LocalCopy, LocalReplace, LocalSweep, ReplacingThread, LocalPcs
  <1>2. Mcp = h /\ LocalTmp(t) = tmp /\ loc[t].to = SitePath(t)
    BY <1>1, SiteOf DEF LocalTmp
  <1>3. DOMAIN at = Calls /\ DOMAIN out = Calls
    BY CallsAt DEF PhasesInv, ReportsInv, FilesInv, FilesTypeOK
  <1>4. CASE LocalOpen(t)
    <2>1. /\ CanCreate(fs[h], tmp) /\ Affect(t, h, CreateTree(fs[h], tmp, File(<<>>, "0644"))) /\ at'[t] = "localRead"
      BY <1>2, <1>3, <1>4, AffectsOf DEF LocalOpen, Go
    <2>2. OneOwn(t)'
      BY <1>0, <2>1, Creates
    <2>3. QED
      BY <2>1, <2>2 DEF SeenTo, Holds, HoldPcs
  <1>5. CASE LocalOpenCancelled(t)
    BY <1>3, <1>5 DEF LocalOpenCancelled, End, SeenTo, Excused
  <1>6. CASE LocalCopy(t)
    <2>1. at'[t] \in {"localCopy", "localReplace"}
      BY <1>3, <1>6 DEF LocalCopy, Go
    <2>2. \E places, x : Affect(t, h, Grow(fs[h], places, x))
      BY <1>2, <1>6, AffectsOf DEF LocalCopy
    <2>3. OneOwn(t)'
      BY <1>0, <2>2, Rewrites
    <2>4. QED
      BY <2>1, <2>3 DEF SeenTo, Holds, HoldPcs
  <1>7. CASE CanReplace(t) /\ Replace(t)
    <2>1. CanRename(fs[h], tmp, SitePath(t)) /\ Affect(t, h, RenameTree(fs[h], tmp, SitePath(t)))
      BY <1>2, <1>7, AffectsOf DEF CanReplace, Replace
    <2>2. QED
      BY <1>0, <2>1, Renames DEF SeenTo
  <1>8. CASE LocalSweep(t)
    <2>1. IF CanRemove(fs[h], tmp) THEN Affect(t, h, RemoveTree(fs[h], tmp)) ELSE UNCHANGED fs
      BY <1>2, <1>8, AffectsOf DEF LocalSweep
    <2>2. QED
      BY <1>0, <2>1, Removes DEF SeenTo
  <1>9. QED
    BY <1>4, <1>5, <1>6, <1>7, <1>8 DEF LocalReplace, ReplacingThread

LEMMA OwnSame ==
  ASSUME NEW t, UNCHANGED <<fs, req>>, loc'[t].path = loc[t].path /\ loc'[t].to = loc[t].to
  PROVE  (NoneOwn(t) => NoneOwn(t)') /\ (OneOwn(t) => OneOwn(t)')
  <1>1. SiteHost(t)' = SiteHost(t) /\ SitePath(t)' = SitePath(t)
    BY SiteStays
  <1>2. QED
    BY <1>1 DEF NoneOwn, OneOwn

LEMMA NoneIsOne ==
  ASSUME NEW t, NoneOwn(t)
  PROVE  OneOwn(t)
  BY DEF NoneOwn, OneOwn, Clear, Only

LEMMA ScriptOwn ==
  ASSUME PhasesInv, NEW t \in Calls, ScriptStep(t), NoneOwn(t) \/ (Holds(t) /\ OneOwn(t))
  PROVE  SeenTo(t)
  <1> DEFINE h == SiteHost(t)
             tree == fs[h]
             tmp == TmpOf(t, SitePath(t))
  <1>0. UNCHANGED req /\ loc'[t].path = loc[t].path /\ loc'[t].to = loc[t].to
    BY NamedSettled DEF Named
  <1>1. proc[t] \in ScriptProcs /\ DOMAIN proc = Calls
    BY CallsAt DEF ScriptStep, ScriptProcs
  <1>2. Tool(t) \in SudoWrites /\ On(t) = h /\ loc[t].path = SitePath(t) /\ at[t] \notin HoldPcs
    BY <1>1, SiteOf, CallsAt DEF ProcInv, HoldPcs
  <1>3. OneOwn(t)
    BY NoneIsOne
  <1>4. CASE proc[t] = "mktemp"
    <2>1. NoneOwn(t)
      BY <1>2, <1>4 DEF Holds, HoldProcs
    <2>2. CASE UNCHANGED fs
      BY <1>0, <2>1, <2>2, OwnSame DEF SeenTo
    <2>3. CASE ~UNCHANGED fs
      <3>1. /\ CanCreate(tree, tmp) /\ Affect(t, h, CreateTree(tree, tmp, File(<<>>, "0600"))) /\ proc'[t] = "cat"
        BY <1>1, <1>2, <1>4, <2>3, AffectsOf DEF ScriptStep
      <3>2. OneOwn(t)'
        BY <1>0, <1>3, <3>1, Creates
      <3>3. QED
        BY <3>1, <3>2 DEF SeenTo, Holds, HoldProcs
    <2>4. QED
      BY <2>2, <2>3
  <1>5. CASE proc[t] = "cat"
    <2>1. proc'[t] = "chmod" /\ \E places, x : Affect(t, h, Grow(tree, places, x))
      BY <1>1, <1>2, <1>5, AffectsOf DEF ScriptStep
    <2>2. OneOwn(t)'
      BY <1>0, <1>3, <2>1, Rewrites
    <2>3. QED
      BY <2>1, <2>2 DEF SeenTo, Holds, HoldProcs
  <1>6. CASE proc[t] = "chmod"
    <2> DEFINE q == RealM(tree, tmp)
    <2>1. /\ proc'[t] \in {"move", "remove"}
          /\ UNCHANGED fs \/ Affect(t, h, [tree EXCEPT ![q].mode = loc[t].mode])
      BY <1>1, <1>2, <1>6, AffectsOf DEF ScriptStep
    <2> HIDE DEF q
    <2>2. OneOwn(t)'
      BY <1>0, <1>3, <2>1, Rewrites, OwnSame
    <2>3. QED
      BY <2>1, <2>2 DEF SeenTo, Holds, HoldProcs
  <1>7. CASE proc[t] = "move"
    <2>1. IF CanMv(tree, tmp, SitePath(t)) THEN Affect(t, h, MvTree(tree, tmp, SitePath(t))) /\ proc'[t] = "ok"
          ELSE UNCHANGED fs /\ proc'[t] = "remove"
      BY <1>1, <1>2, <1>7 DEF ScriptStep
    <2>2. WellFormed(tree) /\ TreeOK(tree) /\ SitePath(t) \in Seq(PlainNames) /\ Only(t, tree, SitePath(t))
      BY <1>3, SiteIs DEF OneOwn
    <2>3. CASE ~CanMv(tree, tmp, SitePath(t))
      BY <1>0, <1>3, <2>1, <2>3, OwnSame DEF SeenTo, Holds, HoldProcs
    <2>4. CASE CanMv(tree, tmp, SitePath(t)) /\ ~IsDir(tree, RealM(tree, SitePath(t)))
      <3>1. Clear(t, MvTree(tree, tmp, SitePath(t)))
        BY <2>2, <2>4, ClearRenamed
      <3>2. QED
        BY <1>0, <1>3, <2>1, <2>4, <3>1, SiteChanged DEF SeenTo
    <2>5. CASE CanMv(tree, tmp, SitePath(t)) /\ IsDir(tree, RealM(tree, SitePath(t)))
      <3> DEFINE u == MvTree(tree, tmp, SitePath(t))
      <3>1. IsDir(u, RealM(u, SitePath(t)))
        BY <2>2, <2>5, DirStays
      <3>2. Affect(t, h, u) /\ proc'[t] = "ok"
        BY <2>1, <2>5
      <3> HIDE DEF u
      <3>3. fs'[h] = u
        BY <1>0, <1>3, <3>2, SiteChanged
      <3>4. Tool(t)' \in SudoWrites /\ On(t)' = h /\ loc'[t].path = SitePath(t)
        BY <1>0, <1>2 DEF Tool, On
      <3>5. MovedIn(t)'
        BY <3>1, <3>2, <3>3, <3>4 DEF MovedIn
      <3>6. QED
        BY <3>5 DEF SeenTo
    <2>6. QED
      BY <2>3, <2>4, <2>5
  <1>8. CASE proc[t] = "remove"
    <2>1. IF CanRemove(tree, tmp) THEN Affect(t, h, RemoveTree(tree, tmp)) ELSE UNCHANGED fs
      BY <1>1, <1>2, <1>8, AffectsOf DEF ScriptStep
    <2>2. QED
      BY <1>0, <1>3, <2>1, Removes DEF SeenTo
  <1>9. QED
    BY <1>1, <1>4, <1>5, <1>6, <1>7, <1>8 DEF ScriptProcs

LEMMA NoneTidy ==
  ASSUME PhasesInv, NEW t \in Calls, NoneOwn(t), NEW v, NEW new, new \cap OwnNames(t) = {}, TidyStep(v, new)
  PROVE  NoneOwn(t)'
  <1>1. CASE UNCHANGED <<fs, raced>>
    BY <1>1 DEF NoneOwn
  <1>2. ASSUME NEW h \in DOMAIN fs, NEW tree, Affect(v, h, tree), Tidy(fs[h], tree, new)
        PROVE  NoneOwn(t)'
    <2>1. Clear(t, fs[h])
      BY DEF NoneOwn
    <2>2. Clear(t, tree)
      BY <1>2, <2>1, ClearTidy
    <2>3. fs' = [fs EXCEPT ![h] = tree]
      BY <1>2 DEF Affect
    <2>4. QED
      BY <2>2, <2>3 DEF NoneOwn
  <1>3. QED
    BY <1>1, <1>2 DEF TidyStep

LEMMA QuietOwn ==
  ASSUME NEW t, OwnInv(t), UNCHANGED <<fs, raced, req>>, loc'[t].path = loc[t].path /\ loc'[t].to = loc[t].to,
         Excused(t) => Excused(t)', proc[t] = "ok" => proc'[t] = "ok", Holds(t) => Holds(t)'
  PROVE  OwnInv(t)'
  <1>1. MovedIn(t) => MovedIn(t)'
    BY DEF MovedIn, Tool, On
  <1>2. (NoneOwn(t) => NoneOwn(t)') /\ (OneOwn(t) => OneOwn(t)')
    BY OwnSame
  <1>3. QED
    BY <1>1, <1>2 DEF OwnInv

\* An excuse stays one: the outcome of a call is final.
LEMMA ExcusedKept ==
  ASSUME PhasesInv, NEW t \in Calls, Step(t), Excused(t)
  PROVE  Excused(t)'
  <1>1. Effect(t)
    BY StepEffect DEF PhasesInv, ReportsInv
  <1>2. cut \subseteq cut' /\ faults \in Nat /\ faults' \in Nat /\ faults <= faults'
    BY <1>1 DEF Effect, PhasesInv, ReportsInv, FilesInv, FilesTypeOK
  <1>3. out[t] # "none" => at[t] = "done"
    BY DEF PhasesInv, ReportsInv, FilesInv, FilesTypeOK
  <1>4. Calm(t) => out[t] = "none"
    BY <1>3 DEF Calm, Busy, Late
  <1>5. Named(t) => at[t] # "done" \/ UNCHANGED out
    BY DEF Named, OpenTmp, WriteTmp, ChmodTmp, RenameTmp, WriteFails, SweepTmp, SweepFails, ScriptStep,
       ScriptStepFails, ScriptReturns, ScriptTimesOut, RmStep, CpStep, MvStep, LnStep, ShellReturns,
       ShellFails, Returns, LocalOpen, LocalOpenFails, LocalOpenCancelled, LocalRead, LocalCopy,
       LocalReplace, LocalFails, ReplacingThread, LocalSweep, Stepped, RaiseAt
  <1>6. out[t] # "none" => UNCHANGED out
    BY <1>3, <1>4, <1>5, StepKinds
  <1>7. QED
    BY <1>2, <1>6 DEF Excused

LEMMA QuietSteps ==
  ASSUME PhasesInv, NEW t \in Calls, Step(t), OwnInv(t),
         \/ WriteFails(t) \/ ScriptStepFails(t) \/ ScriptReturns(t) \/ ScriptTimesOut(t) \/ ShellReturns(t)
         \/ ShellFails(t) \/ Returns(t) \/ LocalOpenFails(t) \/ LocalRead(t) \/ LocalFails(t)
         \/ ReplacingThread(t) /\ ~CanReplace(t)
  PROVE  OwnInv(t)'
  <1>1. UNCHANGED req /\ loc'[t].path = loc[t].path /\ loc'[t].to = loc[t].to
    BY NamedSettled DEF Named
  <1>2. UNCHANGED <<fs, raced>>
    BY DEF WriteFails, ScriptStepFails, ScriptReturns, ScriptTimesOut, ShellReturns, ShellFails, Returns,
       LocalOpenFails, LocalRead, LocalFails, ReplacingThread, RaiseAt, Quiet
  <1>3. Excused(t) => Excused(t)'
    BY ExcusedKept
  <1>4. /\ at[t] \in Pcs /\ DOMAIN at = Calls /\ DOMAIN proc = Calls
        /\ proc[t] # "none" => at[t] \in Late
    BY CallsAt DEF ProcInv
  <1>5. CASE WriteFails(t) \/ LocalRead(t) \/ LocalFails(t)
    <2>1. at'[t] \in HoldPcs /\ at[t] \notin Late
      BY <1>4, <1>5 DEF WriteFails, LocalRead, LocalFails, Go, HoldPcs, Late
    <2>2. QED
      BY <1>1, <1>2, <1>3, <1>4, <2>1, QuietOwn DEF Holds
  <1>6. CASE ScriptStepFails(t)
    <2>1. proc'[t] = "remove" /\ proc[t] # "ok"
      BY <1>4, <1>6 DEF ScriptStepFails
    <2>2. QED
      BY <1>1, <1>2, <1>3, <2>1, QuietOwn DEF Holds, HoldProcs
  <1>7. CASE ScriptReturns(t) \/ ScriptTimesOut(t) \/ ShellReturns(t) \/ ShellFails(t) \/ Returns(t) \/ LocalOpenFails(t)
    <2>1. UNCHANGED proc /\ at[t] \notin HoldPcs
      BY <1>7 DEF ScriptReturns, ScriptTimesOut, ShellReturns, ShellFails, Returns, LocalOpenFails, RaiseAt, Quiet, HoldPcs
    <2>2. QED
      BY <1>1, <1>2, <1>3, <2>1, QuietOwn DEF Holds
  <1>8. CASE ReplacingThread(t)
    <2>1. UNCHANGED at /\ proc[t] = "replacing"
      BY <1>8 DEF ReplacingThread
    <2>2. QED
      BY <1>1, <1>2, <1>3, <2>1, QuietOwn DEF Holds, HoldProcs
  <1>9. QED
    BY <1>5, <1>6, <1>7, <1>8

LEMMA OwnStep ==
  ASSUME PhasesInv, NEW t \in Calls, Step(t), OwnInv(t)
  PROVE  OwnInv(t)'
  <1>1. Effect(t)
    BY StepEffect DEF PhasesInv, ReportsInv
  <1>2. raced \subseteq raced'
    BY <1>1, RacedGrows
  <1>3. SUFFICES ASSUME t \notin raced, ~Excused(t), ~Excused(t)'
                 PROVE  OwnInv(t)'
    BY <1>2, ExcusedKept DEF OwnInv
  <1>4. MovedIn(t) \/ NoneOwn(t) \/ (Holds(t) /\ OneOwn(t))
    BY <1>3 DEF OwnInv
  <1>5. /\ proc[t] # "none" => at[t] \in Late
        /\ at[t] = "localSweep" \/ proc[t] = "replacing" => Downloads(t)
        /\ proc[t] \in ShellProcs => at[t] \in {"shell", "done"}
    BY CallsAt DEF AtInv, ProcInv, LocalPcs
  <1>6. ASSUME NoneOwn(t), at[t] \notin {"open", "localOpen"}, proc[t] # "mktemp"
        PROVE  OwnInv(t)'
    <2>1. TidyStep(t, {})
      BY <1>6, StepTidy DEF News
    <2>2. NoneOwn(t)'
      BY <1>6, <2>1, NoneTidy
    <2>3. QED
      BY <2>2 DEF OwnInv
  <1>7. CASE Calm(t)
    <2>1. at[t] \notin Busy /\ proc[t] = "none"
      BY <1>5, <1>7 DEF Calm, Busy
    <2>2. NoneOwn(t) /\ at[t] \notin {"open", "localOpen"}
      BY <1>4, <2>1 DEF Busy, MovedIn, Holds, HoldProcs
    <2>3. QED
      BY <1>6, <2>1, <2>2
  <1>8. CASE RmStep(t) \/ CpStep(t) \/ MvStep(t) \/ LnStep(t)
    <2>1. proc[t] \in ShellProcs
      BY <1>8 DEF RmStep, CpStep, MvStep, LnStep, ShellProcs, OtherTreeProcs
    <2>2. NoneOwn(t) /\ at[t] \notin {"open", "localOpen"} /\ proc[t] # "mktemp"
      BY <1>4, <1>5, <2>1 DEF ShellProcs, OtherTreeProcs, MovedIn, Holds, HoldProcs, HoldPcs
    <2>3. QED
      BY <1>6, <2>2
  <1>9. CASE \/ WriteFails(t) \/ ScriptStepFails(t) \/ ScriptReturns(t) \/ ScriptTimesOut(t) \/ ShellReturns(t)
             \/ ShellFails(t) \/ Returns(t) \/ LocalOpenFails(t) \/ LocalRead(t) \/ LocalFails(t)
             \/ ReplacingThread(t) /\ ~CanReplace(t)
    BY <1>9, QuietSteps
  <1>10. SeenTo(t) => OwnInv(t)'
    BY <1>3 DEF SeenTo, OwnInv
  <1>11. CASE OpenTmp(t) \/ WriteTmp(t) \/ ChmodTmp(t) \/ RenameTmp(t) \/ SweepTmp(t) \/ SweepFails(t)
    <2>1. at[t] \notin Late
      BY <1>11 DEF OpenTmp, WriteTmp, ChmodTmp, RenameTmp, SweepTmp, SweepFails, RaiseAt, Late
    <2>2. OneOwn(t)
      BY <1>4, <1>5, <2>1, NoneIsOne DEF MovedIn
    <2>3. QED
      BY <1>10, <1>11, <2>2, WriteOwn
  <1>12. CASE \/ LocalOpen(t) \/ LocalOpenCancelled(t) \/ LocalCopy(t) \/ LocalReplace(t) \/ LocalSweep(t)
              \/ ReplacingThread(t) /\ CanReplace(t)
    <2>1. at[t] \notin Late \/ at[t] = "localSweep" \/ proc[t] = "replacing"
      BY <1>12 DEF LocalOpen, LocalOpenCancelled, LocalCopy, LocalReplace, LocalSweep, ReplacingThread, Late
    <2>2. ~MovedIn(t)
      BY <1>5, <2>1 DEF MovedIn, Downloads, SudoWrites
    <2>3. OneOwn(t)
      BY <1>4, <2>2, NoneIsOne
    <2>4. QED
      BY <1>10, <1>12, <2>3, LocalOwn
  <1>13. CASE ScriptStep(t)
    <2>1. proc[t] # "ok"
      BY <1>13 DEF ScriptStep
    <2>2. QED
      BY <1>4, <1>10, <1>13, <2>1, ScriptOwn DEF MovedIn
  <1>14. QED
    BY <1>7, <1>8, <1>9, <1>11, <1>12, <1>13, StepKinds DEF Named

-----------------------------------------------------------------------------
(* The steps of the others *)

LEMMA OwnUndisturbed ==
  ASSUME PhasesInv, NEW t \in Calls, NEW u \in Calls \ {t}, Effect(u), TidyStep(u, News(u)), OwnInv(t)
  PROVE  OwnInv(t)'
  <1>0. /\ at'[t] = at[t] /\ loc'[t] = loc[t] /\ proc'[t] = proc[t] /\ out'[t] = out[t] /\ UNCHANGED req
        /\ cut \subseteq cut' /\ faults \in Nat /\ faults' \in Nat /\ faults <= faults'
    BY DEF Effect, Others, PhasesInv, ReportsInv, FilesInv, FilesTypeOK
  <1>1. raced \subseteq raced'
    BY RacedGrows
  <1>2. (Excused(t) => Excused(t)') /\ (Holds(t) => Holds(t)')
    BY <1>0 DEF Excused, Holds
  <1>3. CASE UNCHANGED <<fs, raced>>
    BY <1>0, <1>2, <1>3, QuietOwn
  <1>4. ASSUME NEW h \in DOMAIN fs, NEW tree, Affect(u, h, tree), Tidy(fs[h], tree, News(u))
        PROVE  OwnInv(t)'
    <2>1. SUFFICES ASSUME t \notin raced' PROVE Excused(t)' \/ MovedIn(t)' \/ NoneOwn(t)' \/ (Holds(t)' /\ OneOwn(t)')
      BY DEF OwnInv
    <2>2. fs' = [fs EXCEPT ![h] = tree] /\ ~Touches(t, h, tree)
      BY <1>4, <2>1 DEF Affect
    <2>3. \A p : <<h, p>> \in Names(t) => Finds(t, tree, p) = Finds(t, fs[h], p)
      BY <2>2 DEF Touches
    <2>4. Excused(t) \/ MovedIn(t) \/ NoneOwn(t) \/ (Holds(t) /\ OneOwn(t))
      BY <1>1, <2>1 DEF OwnInv
    <2>5. ASSUME MovedIn(t) PROVE MovedIn(t)'
      <3> DEFINE p == loc[t].path
      <3>1. <<On(t), p>> \in Names(t)
        BY DEF Names
      <3>2. On(t) = h => NodeAt(tree, RealM(tree, p)) = NodeAt(fs[h], RealM(fs[h], p))
        BY <2>3, <3>1 DEF Finds
      <3>3. On(t) = h => (IsDir(fs[h], RealM(fs[h], p)) => IsDir(tree, RealM(tree, p)))
        BY <3>2 DEF NodeAt, IsDir
      <3>4. IsDir(fs[On(t)], RealM(fs[On(t)], p)) => IsDir(fs'[On(t)], RealM(fs'[On(t)], p))
        BY <2>2, <3>3
      <3>5. QED
        BY <1>0, <2>5, <3>4 DEF MovedIn, Tool, On
    <2>6. News(u) \cap OwnNames(t) = {}
      BY NamesApart DEF News
    <2>7. NoneOwn(t) => NoneOwn(t)'
      BY <2>6, NoneTidy
    <2>8. ASSUME OneOwn(t) PROVE OneOwn(t)'
      <3> DEFINE p == SitePath(t)
      <3>1. SiteHost(t)' = SiteHost(t) /\ SitePath(t)' = SitePath(t)
        BY <1>0, SiteStays
      <3>2. h # SiteHost(t) => Clear(t, tree)
        <4>1. h # SiteHost(t) => Clear(t, fs[h])
          BY <2>8 DEF OneOwn
        <4>2. QED
          BY <1>4, <2>6, <4>1, ClearTidy
      <3>3. h = SiteHost(t) => Only(t, tree, p)
        <4>1. SUFFICES ASSUME h = SiteHost(t), NEW q \in DOMAIN tree, q # <<>>, Last(q) \in OwnNames(t)
                       PROVE  q = RealM(tree, TmpOf(t, p))
          BY DEF Only
        <4>2. p \in Seq(PlainNames) /\ <<h, p>> \in Names(t) /\ WellFormed(fs[h]) /\ TreeOK(fs[h])
          BY <4>1, SiteIs
        <4>3. Only(t, fs[h], p)
          BY <2>8, <4>1 DEF OneOwn
        <4>4. Last(q) \in TempsIn(tree)
          BY <4>1, NamesApart DEF TempsIn
        <4>5. Last(q) \in TempsIn(fs[h])
          BY <1>4, <2>6, <4>1, <4>4 DEF Tidy
        <4>6. PICK r \in DOMAIN fs[h] : r # <<>> /\ Last(r) = Last(q)
          BY <4>5 DEF TempsIn
        <4>7. r = RealM(fs[h], TmpOf(t, p)) /\ r # Nowhere
          BY <4>1, <4>2, <4>3, <4>6 DEF Only, WellFormed
        <4>8. Last(r) = TmpName(NameOf(p), t)
          BY <4>2, <4>7, TmpNode
        <4>9. q \in TmpsOf(t, tree, p)
          BY <4>1, <4>6, <4>8 DEF TmpsOf
        <4>10. /\ {<<x, tree[x]>> : x \in TmpsOf(t, tree, p)} = {<<x, fs[h][x]>> : x \in TmpsOf(t, fs[h], p)}
               /\ RealM(tree, TmpOf(t, p)) = RealM(fs[h], TmpOf(t, p))
          BY <2>3, <4>2 DEF Finds
        <4>11. q \in TmpsOf(t, fs[h], p)
          <5>1. <<q, tree[q]>> \in {<<x, tree[x]>> : x \in TmpsOf(t, tree, p)}
            BY <4>9
          <5>2. PICK x \in TmpsOf(t, fs[h], p) : <<q, tree[q]>> = <<x, fs[h][x]>>
            BY <4>10, <5>1
          <5>3. QED
            BY <5>2
        <4>12. q \in DOMAIN fs[h]
          BY <4>11 DEF TmpsOf
        <4>13. QED
          BY <4>1, <4>3, <4>10, <4>12 DEF Only
      <3>4. ASSUME NEW g \in DOMAIN fs
            PROVE  IF g = SiteHost(t) THEN Only(t, fs'[g], p) ELSE Clear(t, fs'[g])
        BY <2>2, <2>8, <3>2, <3>3 DEF OneOwn
      <3>5. DOMAIN fs' = DOMAIN fs
        BY <2>2
      <3>6. QED
        BY <3>1, <3>4, <3>5 DEF OneOwn
    <2>9. QED
      BY <1>2, <2>4, <2>5, <2>7, <2>8
  <1>5. QED
    BY <1>3, <1>4 DEF TidyStep

LEMMA TempsNext ==
  ASSUME TempsInv, [Next]_callVars
  PROVE  TempsInv'
  <1>0. PhasesInv /\ PhasesInv' /\ FilesInv /\ \A t \in Calls : OwnInv(t)
    BY PhasesNext DEF TempsInv, PhasesInv, ReportsInv
  <1>1. ASSUME NEW u \in Calls, Step(u), NEW t \in Calls
        PROVE  OwnInv(t)'
    <2>1. Effect(u) /\ TidyStep(u, News(u))
      BY <1>0, <1>1, StepEffect, StepTidy
    <2>2. QED
      BY <1>0, <1>1, <2>1, OwnStep, OwnUndisturbed
  <1>2. ASSUME NEW u \in Calls, LoseConnection(u) \/ Cancel(u), NEW t \in Calls
        PROVE  OwnInv(t)'
    <2>1. Effect(u) /\ UNCHANGED <<fs, raced>>
      BY <1>0, <1>2, EnvironmentEffect DEF LoseConnection, Cancel
    <2>2. CASE t = u
      BY <1>0, <1>2, <2>2 DEF LoseConnection, Cancel, End, OwnInv, Excused, FilesInv, FilesTypeOK
    <2>3. CASE t # u
      BY <1>0, <2>1, <2>3, OwnUndisturbed DEF TidyStep
    <2>4. QED
      BY <2>2, <2>3
  <1>3. ASSUME Tick \/ UNCHANGED callVars, NEW t \in Calls
        PROVE  OwnInv(t)'
    <2>1. UNCHANGED <<fs, req, at, loc, out, cut, proc, faults, raced>>
      BY <1>3 DEF Tick, callVars
    <2>2. OwnInv(t)
      BY <1>0
    <2>3. QED
      BY <2>1, <2>2, QuietOwn DEF Excused, Holds
  <1>4. \A t \in Calls : OwnInv(t)'
    BY <1>1, <1>2, <1>3 DEF Next, Over
  <1>5. QED
    BY <1>0, <1>4 DEF TempsInv

LEMMA TempsInit ==
  ASSUME CallsInit
  PROVE  TempsInv
  <1>1. PhasesInv /\ \A h \in DOMAIN fs : TempsIn(fs[h]) = {}
    BY PhasesInit
  <1>2. ASSUME NEW t \in Calls PROVE OwnInv(t)
    BY <1>1, NamesApart DEF OwnInv, NoneOwn, Clear, TempsIn
  <1>3. QED
    BY <1>1, <1>2 DEF TempsInv

LEMMA SweptAtRest ==
  ASSUME TempsInv
  PROVE  TempsSwept
  <1>1. SUFFICES ASSUME NEW t \in Calls, AtRest(t), t \notin raced, Temporary(t)
                 PROVE  Excused(t) \/ MovedIn(t)
    BY DEF TempsSwept, Excused, MovedIn
  <1>2. PICK h \in DOMAIN fs, p \in {loc[t].path, loc[t].to} : TmpNow(t, h, p) # {}
    BY <1>1 DEF Temporary
  <1>3. PICK q \in DOMAIN fs[h] : q # <<>> /\ Last(q) = TmpName(NameOf(p), t)
    BY <1>2 DEF TmpNow, TmpsOf
  <1>4. p \in Seq(PlainNames)
    BY <1>2, CallsAt DEF TempsInv
  <1>5. Last(q) \in OwnNames(t)
    BY <1>3, <1>4, TmpOfPlain
  <1>6. ~NoneOwn(t)
    BY <1>2, <1>3, <1>5 DEF NoneOwn, Clear
  <1>7. ~Holds(t)
    BY <1>1 DEF AtRest, Holds, HoldPcs, HoldProcs
  <1>8. QED
    BY <1>1, <1>6, <1>7 DEF TempsInv, OwnInv

\* Whatever the calls do to each other's trees, a call that nobody raced leaves no
\* temporary file: unless it was cancelled, lost its connection, had the removal
\* refused, or was a sudo write to a directory, which takes the file in.
THEOREM TempsSweptCorrect == Spec => []TempsSwept
  <1>1. CallsInit => TempsInv
    BY TempsInit
  <1>2. TempsInv /\ [Next]_callVars => TempsInv'
    BY TempsNext
  <1>3. TempsInv => TempsSwept
    BY SweptAtRest
  <1>4. QED
    BY <1>1, <1>2, <1>3, PTL DEF Spec

-----------------------------------------------------------------------------
(* An edit keeps the mode: what an edit knows *)

EditPcs == {"start", "editStat", "editRead", "sudoEditRead", "open", "write", "chmod", "rename", "sweep",
            "owner", "mode", "pipe", "return", "done"}
EditProcs == ScriptProcs \cup {"none", "ok", "failed"}
Editing(t) == Tool(t) \in Edits

\* The file at the path has the mode the call looked up; where the temporary
\* file is looked for, if it is there, it has it too.
HasMode(t) == IsFile(Remote(t), loc[t].path) /\ Stat(Remote(t), loc[t].path).mode = loc[t].mode
TmpHasMode(t) ==
  LET q == RealM(Remote(t), TmpOf(t, loc[t].path)) IN
  q \in DOMAIN Remote(t) => Remote(t)[q].mode = loc[t].mode

Written(t) == at[t] \in {"open", "write", "chmod", "rename"} \/ proc[t] \in {"mktemp", "cat", "chmod", "move"}
Replacing(t) == at[t] = "rename" \/ proc[t] = "move"
EditInv(t) ==
  /\ at[t] \in EditPcs /\ proc[t] \in EditProcs
  /\ t \notin raced =>
       /\ at[t] = "editRead" /\ IsFile(Remote(t), loc[t].path) => HasMode(t)
       /\ at[t] \in {"owner", "mode"} => IsFile(ShellSees(t), loc[t].path)
       /\ Written(t) => HasMode(t)
       /\ Replacing(t) => TmpHasMode(t)
ModesInv == PhasesInv /\ \A t \in Calls : Editing(t) => EditInv(t)

LEMMA ShellShows ==
  ASSUME NEW t, NEW p
  PROVE  /\ IsFile(ShellSees(t), p) <=> On(t) \notin Chrooted /\ IsFile(Remote(t), p)
         /\ IsFile(ShellSees(t), p) => ShellSees(t) = Remote(t)
  <1>1. CASE On(t) \in Chrooted
    <2> DEFINE bare == [q \in {<<>>} |-> Dir]
    <2>1. ShellSees(t) = bare
      BY <1>1 DEF ShellSees, ShellTree
    <2>2. ~IsFile(bare, p)
      <3>1. \A q \in DOMAIN bare : bare[q].kind # "file"
        BY DEF Dir
      <3> HIDE DEF bare
      <3>2. QED
        BY <3>1 DEF IsFile, StatOk, Stat
    <2>3. QED
      BY <1>1, <2>1, <2>2
  <1>2. CASE On(t) \notin Chrooted
    BY <1>2 DEF ShellSees, ShellTree, Remote
  <1>3. QED
    BY <1>1, <1>2

-----------------------------------------------------------------------------
(* What a call does to its temporary file does not touch the file itself *)

Beside(tree, u) == SameLinks(tree, u) /\ \A q \in Seq(PlainNames) : NodeAt(u, q) = NodeAt(tree, q)

LEMMA BesideFinds ==
  ASSUME NEW tree, TreeOK(tree), NEW u, Beside(tree, u), NEW p \in Seq(PlainNames)
  PROVE  /\ IsFile(u, p) <=> IsFile(tree, p)
         /\ IsFile(tree, p) => Stat(u, p) = Stat(tree, p)
  <1>1. RealM(u, p) = RealM(tree, p) /\ RealM(tree, p) \in Seq(PlainNames)
    BY SameResolution, PlainStays DEF Beside
  <1>2. NodeAt(u, RealM(tree, p)) = NodeAt(tree, RealM(tree, p))
    BY <1>1 DEF Beside
  <1>3. QED
    BY <1>1, <1>2 DEF NodeAt, IsFile, StatOk, Stat

\* A temporary name ends no path of the trees there were.
LEMMA TmpNotPlain ==
  ASSUME NEW q, q # <<>>, Last(q) \in Temps
  PROVE  q \notin Seq(PlainNames)
  BY PlainEnd, PlainNotTemp

LEMMA TmpBeside ==
  ASSUME NEW t \in Calls, NEW p \in Seq(PlainNames), NEW tree, WellFormed(tree), TreeOK(tree), NEW x, NEW y
  PROVE  /\ CanCreate(tree, TmpOf(t, p)) => Beside(tree, CreateTree(tree, TmpOf(t, p), File(x, y)))
         /\ Beside(tree, Grow(tree, TmpsOf(t, tree, p), x))
         /\ StatOk(tree, TmpOf(t, p)) => Beside(tree, [tree EXCEPT ![RealM(tree, TmpOf(t, p))].mode = x])
  <1> DEFINE q == RealM(tree, TmpOf(t, p))
             ps == TmpsOf(t, tree, p)
  <1>1. q # Nowhere => /\ q \notin Seq(PlainNames)
                       /\ q \in DOMAIN tree => tree[q].kind = "file"
    BY TmpNode, TmpNotPlain
  <1>2. \A r \in ps : r \notin Seq(PlainNames)
    BY TmpOfPlain, TmpNotPlain DEF TmpsOf
  <1>3. ASSUME CanCreate(tree, TmpOf(t, p))
        PROVE  Beside(tree, CreateTree(tree, TmpOf(t, p), File(x, y)))
    <2> DEFINE u == CreateTree(tree, TmpOf(t, p), File(x, y))
    <2>1. q # Nowhere
      BY <1>3 DEF CanCreate
    <2>2. DOMAIN u = DOMAIN tree \cup {q} /\ u[q] = File(x, y) /\ \A r \in DOMAIN tree \ {q} : u[r] = tree[r]
      BY DEF CreateTree, Put
    <2>3. u[q].kind = "file"
      BY <2>2, FileIs
    <2> HIDE DEF q, u
    <2>4. SameLinks(tree, u)
      BY <1>1, <2>1, <2>2, <2>3 DEF SameLinks, IsLink
    <2>5. \A r \in Seq(PlainNames) : NodeAt(u, r) = NodeAt(tree, r)
      BY <1>1, <2>1, <2>2 DEF NodeAt
    <2>6. QED
      BY <2>4, <2>5 DEF Beside, u
  <1>4. Beside(tree, Grow(tree, ps, x))
    <2>1. DOMAIN Grow(tree, ps, x) = DOMAIN tree /\ SameLinks(tree, Grow(tree, ps, x))
      <3>1. Grow(tree, ps, x) \in {[tree EXCEPT ![p].text = x], [tree EXCEPT ![p].mode = x], Grow(tree, ps, x)}
        OBVIOUS
      <3> HIDE DEF ps
      <3>2. QED
        BY <3>1, RewriteSame
    <2>2. \A r \in DOMAIN tree : r \notin ps => Grow(tree, ps, x)[r] = tree[r]
      BY DEF Grow
    <2>3. \A r \in Seq(PlainNames) : NodeAt(Grow(tree, ps, x), r) = NodeAt(tree, r)
      BY <1>2, <2>1, <2>2 DEF NodeAt
    <2>4. QED
      BY <2>1, <2>3 DEF Beside
  <1>5. ASSUME StatOk(tree, TmpOf(t, p))
        PROVE  Beside(tree, [tree EXCEPT ![q].mode = x])
    <2>1. q \in DOMAIN tree /\ q # Nowhere
      BY <1>5 DEF StatOk, WellFormed
    <2> HIDE DEF q
    <2> DEFINE u == [tree EXCEPT ![q].mode = x]
    <2>2. DOMAIN u = DOMAIN tree /\ SameLinks(tree, u)
      <3>1. DOMAIN [tree EXCEPT ![q].mode = x] = DOMAIN tree /\ SameLinks(tree, [tree EXCEPT ![q].mode = x])
        BY RewriteSame
      <3>2. QED
        BY <3>1
    <2>3. \A r \in DOMAIN tree \ {q} : u[r] = tree[r]
      OBVIOUS
    <2> HIDE DEF u
    <2>4. \A r \in Seq(PlainNames) : NodeAt(u, r) = NodeAt(tree, r)
      BY <1>1, <2>1, <2>2, <2>3 DEF NodeAt
    <2>5. QED
      BY <2>2, <2>4 DEF Beside, u
  <1>6. QED
    BY <1>3, <1>4, <1>5

\* What chmod gives the temporary file.
WithMode(tree, q, m) == [tree EXCEPT ![q].mode = m]

LEMMA TmpChmod ==
  ASSUME NEW t \in Calls, NEW p \in Seq(PlainNames), NEW tree, WellFormed(tree), TreeOK(tree), NEW x,
         StatOk(tree, TmpOf(t, p)), NEW u, u = WithMode(tree, RealM(tree, TmpOf(t, p)), x)
  PROVE  RealM(u, TmpOf(t, p)) \in DOMAIN u /\ u[RealM(u, TmpOf(t, p))].mode = x
  <1> DEFINE q == RealM(tree, TmpOf(t, p))
  <1>1. q \in DOMAIN tree /\ q # Nowhere
    BY DEF StatOk, WellFormed
  <1>2. tree[q].kind = "file" /\ IsNode(tree[q])
    BY <1>1, TmpNode, TreePaths
  <1>3. "mode" \in DOMAIN tree[q]
    BY <1>2 DEF IsNode
  <1>4. SameLinks(tree, u)
    <2>1. u = [tree EXCEPT ![q].mode = x]
      BY DEF WithMode
    <2> HIDE DEF q
    <2>2. SameLinks(tree, [tree EXCEPT ![q].mode = x])
      BY RewriteSame
    <2>3. QED
      BY <2>1, <2>2
  <1>5. RealM(u, TmpOf(t, p)) = q
    BY <1>4, SameResolution
  <1> HIDE DEF q
  <1>6. u = [tree EXCEPT ![q].mode = x]
    BY DEF q, WithMode
  <1>7. q \in DOMAIN u /\ u[q].mode = x
    BY <1>1, <1>3, <1>6
  <1>8. QED
    BY <1>5, <1>7

LEMMA FilePut ==
  ASSUME NEW t, WellFormed(t), NEW s, NEW d, IsPath(d), s # d, Fits(t, s, d), t[s].kind = "file"
  PROVE  MoveTree(t, s, d)[d] = t[s]
  <1> DEFINE u == MoveTree(t, s, d)
  <1>1. /\ DOMAIN u = (DOMAIN t \ ({s} \cup Under(t, d))) \cup {d}
        /\ \A q \in DOMAIN u : u[q] = IF q = d THEN t[s] ELSE t[q]
        /\ Under(t, d) \subseteq {d}
    BY FileMoved
  <1> HIDE DEF u
  <1>2. QED
    BY <1>1 DEF u

\* The temporary file, renamed, is what is at the place of the path.
LEMMA TmpReplaces ==
  ASSUME NEW t \in Calls, NEW p \in Seq(PlainNames), NEW tree, WellFormed(tree), TreeOK(tree),
         NEW d, d = Place(tree, p), Fits(tree, Place(tree, TmpOf(t, p)), d)
  PROVE  LET q == RealM(tree, TmpOf(t, p)) IN
         q \in DOMAIN tree /\ MoveTree(tree, Place(tree, TmpOf(t, p)), d)[d] = tree[q]
  <1> DEFINE q == RealM(tree, TmpOf(t, p))
  <1>1. q = Place(tree, TmpOf(t, p)) /\ q \in DOMAIN tree
    BY TmpIs DEF Fits
  <1>2. q # Nowhere
    BY <1>1 DEF WellFormed
  <1>3. tree[q].kind = "file" /\ q \notin Seq(PlainNames)
    BY <1>1, <1>2, TmpNode, TmpNotPlain
  <1>4. d \in Seq(PlainNames) /\ IsPath(d)
    BY PlainStays, PlacesArePaths
  <1>5. q # d /\ Fits(tree, q, d)
    BY <1>1, <1>3, <1>4
  <1> HIDE DEF q
  <1>6. MoveTree(tree, q, d)[d] = tree[q]
    BY <1>3, <1>4, <1>5, FilePut
  <1>7. QED
    BY <1>1, <1>6 DEF q

-----------------------------------------------------------------------------
(* What an edit knows is kept *)

LEMMA EditAt ==
  ASSUME PhasesInv, NEW t \in Calls, Editing(t)
  PROVE  /\ at \in [Calls -> Pcs] /\ DOMAIN proc = Calls /\ DOMAIN loc = Calls /\ DOMAIN loc[t] = Locals
         /\ DOMAIN made = Calls
         /\ WellFormed(Remote(t)) /\ TreeOK(Remote(t)) /\ loc[t].path \in Seq(PlainNames) /\ On(t) \in DOMAIN fs
         /\ Home(t) = On(t) /\ Final(t) = loc[t].path /\ Tmp(t) = TmpOf(t, loc[t].path)
         /\ at[t] \notin Late => proc[t] = "none"
         /\ proc[t] \in ScriptProcs => at[t] \in {"pipe", "done"}
         /\ at[t] \in SudoPcs => Tool(t) = "ssh_sudo_edit"
         /\ Tool(t) # "ssh_transfer"
  <1>1. Tool(t) # "ssh_transfer" /\ (Tool(t) \in SudoWrites => Tool(t) = "ssh_sudo_edit")
    BY DEF Editing, Edits, SudoWrites
  <1>2. Home(t) = On(t) /\ Final(t) = loc[t].path
    BY <1>1 DEF Home, Final
  <1>3. Tmp(t) = TmpOf(t, loc[t].path)
    BY <1>2 DEF Tmp
  <1>4. DOMAIN made = Calls
    BY DEF PhasesInv, ReportsInv, FilesInv, FilesTypeOK
  <1>5. at[t] \notin Late => proc[t] = "none"
    BY CallsAt DEF ProcInv
  <1>6. (proc[t] \in ScriptProcs => at[t] \in {"pipe", "done"}) /\ (at[t] \in SudoPcs => Tool(t) \in SudoWrites)
    BY CallsAt DEF ProcInv, AtInv
  <1>7. QED
    BY <1>1, <1>2, <1>3, <1>4, <1>5, <1>6, CallsAt, TreesHere DEF Remote

LEMMA EditTakes ==
  ASSUME NEW t \in Calls, Editing(t), EditInv(t), Step(t)
  PROVE  WriteStep(t) \/ PrepareFails(t) \/ Returns(t)
  <1>1. at[t] \in EditPcs /\ proc[t] \in EditProcs
    BY DEF EditInv
  <1>2. ~ReadStep(t)
    <2>1. Tool(t) \notin Readers
      BY DEF Editing, Edits, Readers, Redacted
    <2>2. at[t] \notin ReadPcs /\ proc[t] # "replacing"
      BY <1>1 DEF EditPcs, EditProcs, ScriptProcs, ReadPcs
    <2>3. QED
      BY <2>1, <2>2, ReadStepsAt
  <1>3. ~TreeStep(t)
    <2>1. Tool(t) \notin OtherTreeTools /\ Tool(t) # "ssh_delete_folder"
      BY DEF Editing, Edits, OtherTreeTools
    <2>2. /\ at[t] \notin OtherTreePcs /\ proc[t] \notin OtherTreeProcs
          /\ at[t] \notin {"second", "rmdir", "walk", "recheck", "sweepEntry", "shell"}
          /\ proc[t] \notin {"rm", "removing"}
      BY <1>1 DEF EditPcs, EditProcs, ScriptProcs, OtherTreePcs, OtherTreeProcs
    <2>3. QED
      BY <2>1, <2>2, TreeStepsAt, FolderStepsAt
  <1>4. QED
    BY <1>2, <1>3 DEF Step

EditFails(t) ==
  \/ LookBeforeEditFails(t) \/ ReadAndEditFails(t) \/ WriteFails(t) \/ SweepFails(t)
  \/ SudoOwnerFails(t) \/ SudoModeFails(t)
EditMoves(t) ==
  \/ PrepareCall(t, "editStat") \/ PrepareCall(t, "sudoEditRead") \/ LookBeforeEdit(t) \/ ReadAndEdit(t)
  \/ SudoOwner(t) \/ SudoMode(t)
EditWrites(t) == OpenTmp(t) \/ WriteTmp(t) \/ ChmodTmp(t) \/ RenameTmp(t) \/ SweepTmp(t)
EditScript(t) == ScriptStep(t) \/ ScriptStepFails(t) \/ ScriptReturns(t) \/ ScriptTimesOut(t)

LEMMA EditSteps ==
  ASSUME NEW t \in Calls, Editing(t), EditInv(t), WriteStep(t)
  PROVE  EditFails(t) \/ EditMoves(t) \/ EditWrites(t) \/ EditScript(t)
  <1>1. at[t] \notin {"oldStat", "backup", "second", "sourceStat", "targetStat", "openSource"}
    BY DEF EditInv, EditPcs
  <1>2. Tool(t) \notin Uploads \cup {"ssh_sudo_write", "ssh_transfer"}
    BY DEF Editing, Edits, Uploads
  <1>3. /\ ~StartUpload(t) /\ ~PayloadRefused(t) /\ ~OldStat(t) /\ ~OldStatFails(t) /\ ~MoveToBackup(t)
        /\ ~MoveToBackupFails(t)
    BY <1>1, <1>2 DEF StartUpload, PayloadRefused, OldStat, OldStatFails, IgnoreAt, MoveToBackup, MoveToBackupFails, RaiseAt
  <1>4. ~TransferSize(t) /\ ~TransferSizeFails(t) /\ ~TargetExists(t) /\ ~TargetExistsFails(t) /\ ~OpenSource(t)
    BY <1>1 DEF TransferSize, TransferSizeFails, TargetExists, TargetExistsFails, OpenSource, RaiseAt
  <1>5. QED
    BY <1>2, <1>3, <1>4 DEF WriteStep, EditFails, EditMoves, EditWrites, EditScript

\* Where nothing is claimed.
LEMMA EditOver ==
  ASSUME NEW t, at'[t] \in {"editStat", "sudoEditRead", "sweep", "pipe", "return", "done"},
         proc'[t] \in {"none", "ok", "failed", "remove"}
  PROVE  EditInv(t)'
  <1>1. at'[t] \in EditPcs /\ proc'[t] \in EditProcs
    BY DEF EditPcs, EditProcs, ScriptProcs
  <1>2. ~Written(t)' /\ ~Replacing(t)' /\ at'[t] \notin {"editRead", "owner", "mode"}
    BY DEF Written, Replacing
  <1>3. QED
    BY <1>1, <1>2 DEF EditInv

\* The call gives up, or nothing of it changes.
LEMMA EditSame ==
  ASSUME NEW t, EditInv(t), UNCHANGED <<fs, req, raced>>, loc'[t] = loc[t], proc'[t] = proc[t],
         at'[t] \in {at[t], "done"}
  PROVE  EditInv(t)'
  <1>1. at'[t] \in EditPcs /\ proc'[t] \in EditProcs
    BY DEF EditInv, EditPcs
  <1>2. /\ Remote(t)' = Remote(t) /\ ShellSees(t)' = ShellSees(t)
    BY DEF Remote, ShellSees, On
  <1>3. (HasMode(t) => HasMode(t)') /\ (TmpHasMode(t) => TmpHasMode(t)')
    BY <1>2 DEF HasMode, TmpHasMode
  <1>4. (Written(t)' => Written(t)) /\ (Replacing(t)' => Replacing(t))
    BY DEF Written, Replacing
  <1>5. at'[t] \in {"editRead", "owner", "mode"} => at'[t] = at[t]
    OBVIOUS
  <1>6. QED
    BY <1>1, <1>2, <1>3, <1>4, <1>5 DEF EditInv

LEMMA EditFailsKeep ==
  ASSUME PhasesInv, NEW t \in Calls, Editing(t), EditFails(t)
  PROVE  EditInv(t)'
  <1>1. at[t] \notin Late /\ at'[t] \in {"sweep", "done"} /\ UNCHANGED proc
    BY EditAt DEF EditFails, LookBeforeEditFails, ReadAndEditFails, WriteFails, SweepFails, SudoOwnerFails,
       SudoModeFails, RaiseAt, Raise, End, Go, Late
  <1>2. QED
    BY <1>1, EditAt, EditOver

LEMMA EditMovesKeep ==
  ASSUME PhasesInv, NEW t \in Calls, Editing(t), EditInv(t), EditMoves(t)
  PROVE  EditInv(t)'
  <1> DEFINE p == loc[t].path
  <1>0. at[t] \notin Late /\ proc[t] = "none"
    BY EditAt DEF EditMoves, PrepareCall, LookBeforeEdit, ReadAndEdit, SudoOwner, SudoMode, Late
  <1>a. proc'[t] = "none" => proc'[t] \in EditProcs
    BY DEF EditProcs
  <1>b. UNCHANGED <<fs, req, raced>>
    BY DEF EditMoves, PrepareCall, LookBeforeEdit, ReadAndEdit, SudoOwner, SudoMode, Quiet
  <1>c. Remote(t)' = Remote(t) /\ ShellSees(t)' = ShellSees(t)
    BY <1>b DEF Remote, ShellSees, On
  <1>d. Readable(t) <=> IsFile(ReadFrom(t), p)
    BY DEF Readable, IsFile
  <1>e. Readable(t) => IsFile(Remote(t), p) /\ ReadFrom(t) = Remote(t)
    BY <1>d, ShellShows DEF ReadFrom, Remote
  <1>1. CASE PrepareCall(t, "editStat") \/ PrepareCall(t, "sudoEditRead")
    <2>1. at'[t] \in {"editStat", "sudoEditRead"} /\ UNCHANGED proc
      BY <1>1, EditAt DEF PrepareCall, Go, Quiet
    <2>2. QED
      BY <1>0, <2>1, EditOver
  <1>2. CASE LookBeforeEdit(t)
    <2>1. UNCHANGED proc /\ at[t] = "editStat"
      BY <1>2 DEF LookBeforeEdit, Quiet
    <2>2. CASE Raise(t)
      BY <1>0, <2>1, <2>2, EditAt, EditOver DEF Raise, End, Go
    <2>3. CASE ~Raise(t)
      <3>1. /\ at'[t] = "editRead" /\ loc'[t].path = p
            /\ IsFile(Remote(t), p) => loc'[t].mode = Stat(Remote(t), p).mode
        BY <1>2, <2>3, EditAt DEF LookBeforeEdit, Go, Keep, Locals, IsFile, Remote
      <3>2. IsFile(Remote(t), p) => HasMode(t)'
        BY <1>c, <3>1 DEF HasMode
      <3>3. ~Written(t)' /\ ~Replacing(t)'
        BY <1>0, <2>1, <3>1 DEF Written, Replacing
      <3>4. QED
        BY <1>0, <1>a, <1>c, <2>1, <3>1, <3>2, <3>3 DEF EditInv, EditPcs
    <2>4. QED
      BY <2>2, <2>3
  <1>3. CASE ReadAndEdit(t)
    <2>1. UNCHANGED proc /\ Readable(t) /\ at[t] \in {"editRead", "sudoEditRead"}
      BY <1>3 DEF ReadAndEdit, Quiet
    <2>2. CASE Raise(t)
      BY <1>0, <2>1, <2>2, EditAt, EditOver DEF Raise, End, Go
    <2>3. CASE ~Raise(t)
      <3>1. /\ loc'[t].path = p /\ loc'[t].mode = loc[t].mode
            /\ at'[t] = IF at[t] = "editRead" THEN "open" ELSE "owner"
        BY <1>3, <2>3, EditAt DEF ReadAndEdit, Go, Keep, Plans, Locals
      <3>2. HasMode(t) => HasMode(t)'
        BY <1>c, <3>1 DEF HasMode
      <3>3. ~Replacing(t)' /\ at'[t] \in EditPcs
        BY <1>0, <2>1, <3>1 DEF Replacing, EditPcs
      <3>4. CASE at[t] = "editRead"
        <4>1. t \notin raced => HasMode(t)'
          BY <1>e, <2>1, <3>2, <3>4 DEF EditInv
        <4>2. QED
          BY <1>0, <1>a, <1>b, <2>1, <3>1, <3>3, <3>4, <4>1 DEF EditInv
      <3>5. CASE at[t] = "sudoEditRead"
        <4>1. Tool(t) \in Sudo
          BY <3>5, EditAt DEF SudoPcs, Sudo, SudoWrites
        <4>2. IsFile(ShellSees(t), p)
          BY <1>d, <2>1, <4>1 DEF ReadFrom
        <4>3. ~Written(t)'
          BY <1>0, <2>1, <3>1, <3>5 DEF Written
        <4>4. QED
          BY <1>0, <1>a, <1>c, <2>1, <3>1, <3>3, <3>5, <4>2, <4>3 DEF EditInv
      <3>6. QED
        BY <2>1, <3>4, <3>5
    <2>4. QED
      BY <2>2, <2>3
  <1>4. CASE SudoOwner(t)
    <2>1. Tool(t) = "ssh_sudo_edit" /\ at[t] = "owner" /\ UNCHANGED loc
      BY <1>4, EditAt DEF SudoOwner, SudoPcs
    <2>2. at'[t] = "mode" /\ UNCHANGED proc
      BY <1>4, <2>1, EditAt DEF SudoOwner, Go
    <2>3. ~Written(t)' /\ ~Replacing(t)'
      BY <1>0, <2>2 DEF Written, Replacing
    <2>4. t \notin raced => IsFile(ShellSees(t)', loc'[t].path)
      BY <1>c, <2>1 DEF EditInv
    <2>5. QED
      BY <1>0, <1>a, <1>b, <2>2, <2>3, <2>4 DEF EditInv, EditPcs
  <1>5. CASE SudoMode(t)
    <2>1. /\ at[t] = "mode" /\ loc'[t].path = p
          /\ Readable(t) => loc'[t].mode = Stat(ReadFrom(t), p).mode
      BY <1>5, EditAt DEF SudoMode, Keep, Locals
    <2>2. CASE Raise(t)
      <3>1. UNCHANGED proc
        BY <1>5, <2>2, EditAt DEF SudoMode, Raise, End, Go
      <3>2. QED
        BY <1>0, <2>2, <3>1, EditAt, EditOver DEF Raise, End, Go
    <2>3. CASE ~Raise(t)
      <3>1. at'[t] = "pipe" /\ proc'[t] = "mktemp"
        BY <1>5, <2>3, EditAt DEF SudoMode, Go
      <3>2. Tool(t) \in Sudo
        BY <2>1, EditAt DEF SudoPcs, Sudo, SudoWrites
      <3>3. t \notin raced => Readable(t)
        BY <1>d, <2>1, <3>2 DEF EditInv, ReadFrom
      <3>4. t \notin raced => HasMode(t)'
        BY <1>c, <1>e, <2>1, <3>3 DEF HasMode
      <3>5. ~Replacing(t)'
        BY <3>1 DEF Replacing
      <3>6. QED
        BY <1>b, <3>1, <3>4, <3>5 DEF EditInv, EditPcs, EditProcs, ScriptProcs
    <2>4. QED
      BY <2>2, <2>3
  <1>6. QED
    BY <1>1, <1>2, <1>3, <1>4, <1>5 DEF EditMoves

\* The call works on its temporary file.
LEMMA EditBeside ==
  ASSUME PhasesInv, NEW t \in Calls, Editing(t), NEW u, Affect(t, On(t), u), Beside(Remote(t), u),
         UNCHANGED <<req, loc>>
  PROVE  Remote(t)' = u /\ (t \in raced => t \in raced') /\ (HasMode(t) => HasMode(t)')
  <1>1. Remote(t)' = u
    BY EditAt DEF Affect, Remote, On
  <1>2. HasMode(t) => HasMode(t)'
    BY <1>1, EditAt, BesideFinds DEF HasMode
  <1>3. QED
    BY <1>1, <1>2 DEF Affect

LEMMA EditWritesKeep ==
  ASSUME PhasesInv, NEW t \in Calls, Editing(t), EditInv(t), EditWrites(t)
  PROVE  EditInv(t)'
  <1> DEFINE tree == Remote(t)
             p == loc[t].path
             tmp == TmpOf(t, p)
  <1>0. UNCHANGED <<req, loc, proc>> /\ at[t] \in {"open", "write", "chmod", "rename", "sweep"}
    BY DEF EditWrites, OpenTmp, WriteTmp, ChmodTmp, RenameTmp, SweepTmp, Rest
  <1>1. proc[t] = "none"
    BY <1>0, EditAt DEF Late
  <1>2. /\ tree = fs[On(t)] /\ Home(t) = On(t) /\ Tmp(t) = tmp /\ Final(t) = p /\ p \in Seq(PlainNames)
        /\ WellFormed(tree) /\ TreeOK(tree) /\ at \in [Calls -> Pcs]
    BY EditAt DEF Remote
  <1>3. at[t] # "sweep" /\ t \notin raced => HasMode(t)
    BY <1>0 DEF EditInv, Written
  <1>4. ASSUME NEW u, Affect(t, On(t), u), Beside(tree, u), at[t] # "sweep",
               at'[t] \in {"write", "chmod"} \/ (at'[t] = "rename" /\ TmpHasMode(t)')
        PROVE  EditInv(t)'
    <2>1. (t \in raced => t \in raced') /\ (HasMode(t) => HasMode(t)')
      BY <1>0, <1>4, EditBeside
    <2>2. at'[t] \in EditPcs /\ proc'[t] \in EditProcs
      BY <1>0, <1>1, <1>4 DEF EditPcs, EditProcs
    <2>3. Replacing(t)' => TmpHasMode(t)'
      BY <1>0, <1>1, <1>4 DEF Replacing
    <2>4. QED
      BY <1>3, <1>4, <2>1, <2>2, <2>3 DEF EditInv
  <1>5. CASE RenameTmp(t) \/ SweepTmp(t)
    <2>1. at'[t] \in {"return", "done"}
      BY <1>2, <1>5 DEF RenameTmp, SweepTmp, Raise, End, Go
    <2>2. QED
      BY <1>0, <1>1, <2>1, EditOver
  <1>6. CASE OpenTmp(t)
    <2>1. /\ at[t] = "open" /\ at'[t] = "write" /\ CanCreate(tree, tmp)
          /\ Affect(t, On(t), CreateTree(tree, tmp, File(<<>>, "0644")))
      BY <1>2, <1>6, AffectsOf DEF OpenTmp, Go
    <2>2. Beside(tree, CreateTree(tree, tmp, File(<<>>, "0644")))
      BY <1>2, <2>1, TmpBeside
    <2>3. QED
      BY <1>4, <2>1, <2>2
  <1>7. CASE WriteTmp(t)
    <2>1. at[t] = "write" /\ at'[t] \in {"write", "chmod"}
      BY <1>2, <1>7, EditAt DEF WriteTmp, Go
    <2>2. \E x : Affect(t, On(t), Grow(tree, TmpsOf(t, tree, p), x))
      BY <1>2, <1>7, AffectsOf DEF WriteTmp, TmpNow
    <2>3. \A x : Beside(tree, Grow(tree, TmpsOf(t, tree, p), x))
      BY <1>2, TmpBeside
    <2>4. QED
      BY <1>4, <2>1, <2>2, <2>3
  <1>8. CASE ChmodTmp(t)
    <2> DEFINE q == RealM(tree, tmp)
               u == [tree EXCEPT ![q].mode = loc[t].mode]
    <2>1. at[t] = "chmod" /\ at'[t] = "rename" /\ StatOk(tree, tmp)
      BY <1>2, <1>8 DEF ChmodTmp, Go
    <2>2. Scratch(t, On(t), u)
      BY <1>2, <1>8 DEF ChmodTmp
    <2>3. Beside(tree, u)
      BY <1>2, <2>1, TmpBeside
    <2>a. u = WithMode(tree, RealM(tree, tmp), loc[t].mode)
      BY DEF WithMode
    <2> HIDE DEF u
    <2>4. RealM(u, tmp) \in DOMAIN u /\ u[RealM(u, tmp)].mode = loc[t].mode
      BY <1>2, <2>1, <2>a, TmpChmod
    <2>5. Affect(t, On(t), u)
      BY <2>2, AffectsOf
    <2>6. Remote(t)' = u
      BY <1>0, <2>3, <2>5, EditBeside
    <2>7. TmpHasMode(t)'
      BY <1>0, <2>4, <2>6 DEF TmpHasMode
    <2>8. QED
      BY <1>4, <2>1, <2>3, <2>5, <2>7
  <1>9. QED
    BY <1>5, <1>6, <1>7, <1>8 DEF EditWrites

LEMMA EditScriptKeep ==
  ASSUME PhasesInv, NEW t \in Calls, Editing(t), EditInv(t), EditScript(t)
  PROVE  EditInv(t)'
  <1> DEFINE tree == Remote(t)
             p == loc[t].path
             tmp == TmpOf(t, p)
  <1>0. /\ tree = fs[On(t)] /\ p \in Seq(PlainNames) /\ WellFormed(tree) /\ TreeOK(tree)
        /\ at \in [Calls -> Pcs] /\ DOMAIN proc = Calls
        /\ proc[t] \in ScriptProcs => at[t] \in {"pipe", "done"}
    BY EditAt DEF Remote
  <1>1. CASE ScriptTimesOut(t)
    <2>1. UNCHANGED <<fs, req, loc, proc, raced>> /\ at'[t] = "done"
      BY <1>0, <1>1 DEF ScriptTimesOut, RaiseAt, Raise, End, Go
    <2>2. QED
      BY <2>1, EditSame
  <1>2. CASE ScriptReturns(t)
    <2>1. at'[t] \in {"return", "done"} /\ proc'[t] \in {"ok", "failed"}
      BY <1>0, <1>2 DEF ScriptReturns, Raise, End, Go, Quiet
    <2>2. QED
      BY <2>1, EditOver
  <1>3. CASE ScriptStepFails(t)
    <2>1. at'[t] \in {"pipe", "done"} /\ proc'[t] = "remove"
      BY <1>0, <1>3 DEF ScriptStepFails, ScriptProcs
    <2>2. QED
      BY <2>1, EditOver
  <1>4. CASE ScriptStep(t)
    <2>0. UNCHANGED <<req, loc, at>> /\ proc[t] \in ScriptProcs /\ at'[t] \in {"pipe", "done"}
      BY <1>0, <1>4 DEF ScriptStep, ScriptProcs
    <2>1. ASSUME NEW x \in {"ok", "failed", "remove"}, proc' = [proc EXCEPT ![t] = x]
          PROVE  EditInv(t)'
      BY <1>0, <2>0, <2>1, EditOver
    <2>2. ASSUME NEW u, Affect(t, On(t), u), Beside(tree, u), proc[t] \in {"mktemp", "cat", "chmod"},
                 NEW x \in {"cat", "chmod", "move"}, proc' = [proc EXCEPT ![t] = x],
                 x = "move" => TmpHasMode(t)'
          PROVE  EditInv(t)'
      <3>1. (t \in raced => t \in raced') /\ (HasMode(t) => HasMode(t)')
        BY <2>0, <2>2, EditBeside
      <3>2. proc'[t] = x /\ at'[t] \in EditPcs /\ proc'[t] \in EditProcs
        BY <1>0, <2>0, <2>2 DEF EditPcs, EditProcs, ScriptProcs
      <3>3. Replacing(t)' => TmpHasMode(t)'
        BY <2>0, <2>2, <3>2 DEF Replacing
      <3>4. t \notin raced => HasMode(t)
        BY <2>2 DEF EditInv, Written
      <3>5. QED
        BY <2>0, <3>1, <3>2, <3>3, <3>4 DEF EditInv
    <2>3. CASE proc[t] = "mktemp"
      <3>1. CASE On(t) \notin Chrooted /\ CanCreate(tree, tmp)
        <4>1. /\ Affect(t, On(t), CreateTree(tree, tmp, File(<<>>, "0600")))
              /\ proc' = [proc EXCEPT ![t] = "cat"]
          BY <1>0, <1>4, <2>3, <3>1, AffectsOf DEF ScriptStep
        <4>2. Beside(tree, CreateTree(tree, tmp, File(<<>>, "0600")))
          BY <1>0, <3>1, TmpBeside
        <4>3. QED
          BY <2>2, <2>3, <4>1, <4>2
      <3>2. CASE ~(On(t) \notin Chrooted /\ CanCreate(tree, tmp))
        <4>1. proc' = [proc EXCEPT ![t] = "failed"]
          BY <1>0, <1>4, <2>3, <3>2 DEF ScriptStep
        <4>2. QED
          BY <2>1, <4>1
      <3>3. QED
        BY <3>1, <3>2
    <2>4. CASE proc[t] = "cat"
      <3>1. /\ \E x : Affect(t, On(t), Grow(tree, TmpsOf(t, tree, p), x))
            /\ proc' = [proc EXCEPT ![t] = "chmod"]
        BY <1>0, <1>4, <2>4, AffectsOf DEF ScriptStep, TmpNow
      <3>2. \A x : Beside(tree, Grow(tree, TmpsOf(t, tree, p), x))
        BY <1>0, TmpBeside
      <3>3. QED
        BY <2>2, <2>4, <3>1, <3>2
    <2>5. CASE proc[t] = "chmod"
      <3>1. CASE StatOk(tree, tmp)
        <4> DEFINE q == RealM(tree, tmp)
                   u == [tree EXCEPT ![q].mode = loc[t].mode]
        <4>1. Scratch(t, On(t), u) /\ proc' = [proc EXCEPT ![t] = "move"]
          BY <1>0, <1>4, <2>5, <3>1 DEF ScriptStep
        <4>2. Beside(tree, u)
          BY <1>0, <3>1, TmpBeside
        <4>3. u = WithMode(tree, RealM(tree, tmp), loc[t].mode)
          BY DEF WithMode
        <4> HIDE DEF u
        <4>4. RealM(u, tmp) \in DOMAIN u /\ u[RealM(u, tmp)].mode = loc[t].mode
          BY <1>0, <3>1, <4>3, TmpChmod
        <4>5. Affect(t, On(t), u)
          BY <4>1, AffectsOf
        <4>6. Remote(t)' = u
          BY <2>0, <4>2, <4>5, EditBeside
        <4>7. TmpHasMode(t)'
          BY <2>0, <4>4, <4>6 DEF TmpHasMode
        <4>8. QED
          BY <2>2, <2>5, <4>1, <4>2, <4>5, <4>7
      <3>2. CASE ~StatOk(tree, tmp)
        <4>1. proc' = [proc EXCEPT ![t] = "remove"]
          BY <1>0, <1>4, <2>5, <3>2 DEF ScriptStep
        <4>2. QED
          BY <2>1, <4>1
      <3>3. QED
        BY <3>1, <3>2
    <2>6. CASE proc[t] \in {"move", "remove"}
      <3>1. \E x \in {"ok", "failed", "remove"} : proc' = [proc EXCEPT ![t] = x]
        BY <1>4, <2>6 DEF ScriptStep
      <3>2. QED
        BY <2>1, <3>1
    <2>7. QED
      BY <2>0, <2>3, <2>4, <2>5, <2>6 DEF ScriptProcs
  <1>5. QED
    BY <1>1, <1>2, <1>3, <1>4 DEF EditScript

LEMMA EditStepKeeps ==
  ASSUME PhasesInv, NEW t \in Calls, Editing(t), EditInv(t), Step(t)
  PROVE  EditInv(t)'
  <1>1. CASE WriteStep(t)
    BY <1>1, EditSteps, EditFailsKeep, EditMovesKeep, EditWritesKeep, EditScriptKeep
  <1>2. CASE PrepareFails(t) \/ Returns(t)
    <2>1. UNCHANGED <<fs, req, raced, loc, proc>> /\ at'[t] = "done"
      BY <1>2, EditAt DEF PrepareFails, Returns, Raise, End, Go, Quiet
    <2>2. QED
      BY <2>1, EditSame
  <1>3. QED
    BY <1>1, <1>2, EditTakes

\* Another call that changes anything of this has raced the edit.
LEMMA EditUndisturbed ==
  ASSUME PhasesInv, NEW t \in Calls, Editing(t), NEW u \in Calls \ {t}, Effect(u), EditInv(t)
  PROVE  EditInv(t)'
  <1> DEFINE was == Remote(t)
             is == fs'[On(t)]
             p == loc[t].path
             tmp == TmpOf(t, p)
  <1>1. at'[t] = at[t] /\ loc'[t] = loc[t] /\ proc'[t] = proc[t] /\ UNCHANGED req /\ FilesInv
    BY DEF Effect, Others, PhasesInv, ReportsInv
  <1>2. raced \subseteq raced'
    BY RacedGrows
  <1>3. EditPcs = EditPcs' /\ at'[t] \in EditPcs /\ proc'[t] \in EditProcs
    BY <1>1 DEF EditInv
  <1>4. SUFFICES ASSUME t \notin raced'
                 PROVE  /\ at'[t] = "editRead" /\ IsFile(Remote(t)', loc'[t].path) => HasMode(t)'
                        /\ at'[t] \in {"owner", "mode"} => IsFile(ShellSees(t)', loc'[t].path)
                        /\ Written(t)' => HasMode(t)'
                        /\ Replacing(t)' => TmpHasMode(t)'
    BY <1>3 DEF EditInv
  <1>5. /\ at[t] = "editRead" /\ IsFile(was, p) => HasMode(t)
        /\ at[t] \in {"owner", "mode"} => IsFile(ShellSees(t), p)
        /\ Written(t) => HasMode(t)
        /\ Replacing(t) => TmpHasMode(t)
    BY <1>2, <1>4 DEF EditInv
  <1>6. Remote(t)' = is /\ On(t)' = On(t) /\ was = fs[On(t)]
    BY <1>1 DEF Remote, On
  <1>7. Finds(t, is, p) = Finds(t, was, p)
    BY <1>1, <1>4, <1>6, PathUntouched
  <1>8. NodeAt(is, RealM(is, p)) = NodeAt(was, RealM(was, p))
    BY <1>7 DEF Finds
  <1>9. (IsFile(is, p) <=> IsFile(was, p)) /\ (IsFile(was, p) => Stat(is, p) = Stat(was, p))
    BY <1>8 DEF NodeAt, IsFile, StatOk, Stat
  <1>10. HasMode(t) => HasMode(t)'
    BY <1>1, <1>6, <1>9 DEF HasMode
  <1>11. IsFile(ShellSees(t), p) => IsFile(ShellSees(t)', p)
    <2>1. IsFile(ShellSees(t), p) => On(t) \notin Chrooted /\ IsFile(was, p)
      BY ShellShows
    <2>2. On(t) \notin Chrooted => ShellSees(t)' = is
      BY <1>6 DEF ShellSees, ShellTree
    <2>3. QED
      BY <1>9, <2>1, <2>2
  <1>12. TmpHasMode(t) => TmpHasMode(t)'
    <2> DEFINE q == RealM(is, tmp)
    <2>1. /\ q = RealM(was, tmp)
          /\ {<<x, is[x]>> : x \in TmpsOf(t, is, p)} = {<<x, was[x]>> : x \in TmpsOf(t, was, p)}
      BY <1>7 DEF Finds
    <2>2. SUFFICES ASSUME TmpHasMode(t), q \in DOMAIN is PROVE is[q].mode = loc[t].mode
      BY <1>1, <1>6 DEF TmpHasMode
    <2>3. q \in TmpsOf(t, is, p)
      <3>1. WellFormed(is) /\ WellFormed(was) /\ TreeOK(was) /\ p \in Seq(PlainNames)
        <4>1. On(t) \in DOMAIN fs' /\ WellFormed(was) /\ TreeOK(was) /\ p \in Seq(PlainNames)
          BY EditAt, RacedGrows
        <4>2. FilesInv'
          BY <1>1, EffectKeeps
        <4>3. QED
          BY <4>1, <4>2 DEF FilesInv, FilesTypeOK
      <3>2. q # Nowhere
        BY <2>2, <3>1 DEF WellFormed
      <3>3. q # <<>> /\ Last(q) = TmpName(NameOf(p), t)
        BY <2>1, <3>1, <3>2, TmpIs
      <3>4. QED
        BY <2>2, <3>3 DEF TmpsOf
    <2>4. PICK x \in TmpsOf(t, was, p) : <<q, is[q]>> = <<x, was[x]>>
      <3>1. <<q, is[q]>> \in {<<x, is[x]>> : x \in TmpsOf(t, is, p)}
        BY <2>3
      <3>2. QED
        BY <2>1, <3>1
    <2>5. q \in DOMAIN was /\ is[q] = was[q]
      BY <2>4 DEF TmpsOf
    <2> HIDE DEF q
    <2>6. QED
      BY <2>1, <2>2, <2>5 DEF TmpHasMode
  <1>13. (Written(t)' <=> Written(t)) /\ (Replacing(t)' <=> Replacing(t))
    BY <1>1 DEF Written, Replacing
  <1>14. QED
    BY <1>1, <1>5, <1>6, <1>9, <1>10, <1>11, <1>12, <1>13

LEMMA ModesInit ==
  ASSUME CallsInit
  PROVE  ModesInv
  <1>1. PhasesInv
    BY PhasesInit
  <1>2. \A t \in Calls : at[t] \in {"start", "done"} /\ proc[t] = "none"
    BY DEF CallsInit
  <1>3. ASSUME NEW t \in Calls PROVE EditInv(t)
    <2>1. at[t] \in EditPcs /\ proc[t] \in EditProcs
      BY <1>2 DEF EditPcs, EditProcs
    <2>2. ~Written(t) /\ ~Replacing(t) /\ at[t] \notin {"editRead", "owner", "mode"}
      BY <1>2 DEF Written, Replacing
    <2>3. QED
      BY <2>1, <2>2 DEF EditInv
  <1>4. QED
    BY <1>1, <1>3 DEF ModesInv

LEMMA ModesNext ==
  ASSUME ModesInv, [Next]_callVars
  PROVE  ModesInv'
  <1>0. PhasesInv /\ PhasesInv' /\ FilesInv /\ \A t \in Calls : Editing(t) => EditInv(t)
    BY PhasesNext DEF ModesInv, PhasesInv, ReportsInv
  <1>1. ASSUME NEW u \in Calls, Step(u) \/ LoseConnection(u) \/ Cancel(u), NEW t \in Calls, Editing(t)
        PROVE  EditInv(t)'
    <2>1. Effect(u)
      BY <1>0, <1>1, StepEffect, EnvironmentEffect
    <2>2. CASE u # t
      BY <1>0, <1>1, <2>1, <2>2, EditUndisturbed
    <2>3. CASE u = t /\ Step(u)
      BY <1>0, <1>1, <2>3, EditStepKeeps
    <2>4. CASE u = t /\ (LoseConnection(u) \/ Cancel(u))
      <3>1. UNCHANGED <<fs, req, raced, loc, proc>> /\ at'[t] \in {at[t], "done"}
        BY <1>0, <1>1, <2>4, EditAt DEF LoseConnection, Cancel, End, Go
      <3>2. QED
        BY <1>0, <1>1, <3>1, EditSame
    <2>5. QED
      BY <1>1, <2>2, <2>3, <2>4
  <1>2. \A t \in Calls : Editing(t)' <=> Editing(t)
    <2>1. UNCHANGED req
      <3>1. ASSUME NEW u \in Calls, Step(u) \/ LoseConnection(u) \/ Cancel(u) PROVE UNCHANGED req
        BY <1>0, <3>1, StepEffect, EnvironmentEffect DEF Effect
      <3>2. QED
        BY <3>1 DEF Next, Tick, Over, callVars
    <2>2. QED
      BY <2>1 DEF Editing, Tool
  <1>3. ASSUME Tick \/ UNCHANGED callVars, NEW t \in Calls, Editing(t)
        PROVE  EditInv(t)'
    BY <1>0, <1>3, EditSame DEF Tick, callVars
  <1>4. \A t \in Calls : Editing(t) => EditInv(t)'
    BY <1>1, <1>3 DEF Next, Over
  <1>5. QED
    BY <1>0, <1>2, <1>4 DEF ModesInv

\* Only the rename, and the `mv` of the script, replace the file.
LEMMA EditReplaces ==
  ASSUME PhasesInv, NEW t \in Calls, Editing(t), EditInv(t), Step(t), made'[t] # made[t]
  PROVE  RenameTmp(t) \/ (ScriptStep(t) /\ proc[t] = "move" /\ CanMv(Remote(t), TmpOf(t, loc[t].path), loc[t].path))
  <1>0. DOMAIN made = Calls
    BY EditAt
  <1>1. ~PrepareFails(t) /\ ~Returns(t) /\ ~EditFails(t)
    BY DEF PrepareFails, Returns, EditFails, LookBeforeEditFails, ReadAndEditFails, WriteFails, SweepFails,
       SudoOwnerFails, SudoModeFails, RaiseAt, Quiet
  <1>2. ~EditMoves(t)
    BY DEF EditMoves, PrepareCall, LookBeforeEdit, ReadAndEdit, SudoOwner, SudoMode, Quiet
  <1>3. EditWrites(t) => RenameTmp(t)
    BY DEF EditWrites, OpenTmp, WriteTmp, ChmodTmp, SweepTmp, Scratch
  <1>4. EditScript(t) => ScriptStep(t) /\ proc[t] = "move" /\ CanMv(Remote(t), TmpOf(t, loc[t].path), loc[t].path)
    BY DEF EditScript, ScriptStep, ScriptStepFails, ScriptReturns, ScriptTimesOut, RaiseAt, Quiet, Scratch, Remote
  <1>5. QED
    BY <1>1, <1>2, <1>3, <1>4, EditTakes, EditSteps

LEMMA EditKeepsMode ==
  ASSUME PhasesInv, NEW t \in Calls, Editing(t), EditInv(t), Step(t), made'[t] # made[t], t \notin raced
  PROVE  LET tree == fs[On(t)] p == loc[t].path IN
         IsFile(tree, p) /\ fs'[On(t)][Place(tree, p)].mode = Stat(tree, p).mode
  <1> DEFINE tree == fs[On(t)]
             p == loc[t].path
             tmp == TmpOf(t, p)
             d == Place(tree, p)
  <1>1. /\ tree = Remote(t) /\ Home(t) = On(t) /\ Tmp(t) = tmp /\ Final(t) = p /\ p \in Seq(PlainNames)
        /\ WellFormed(tree) /\ TreeOK(tree) /\ On(t) \in DOMAIN fs
    BY EditAt DEF Remote
  <1>2. RenameTmp(t) \/ (ScriptStep(t) /\ proc[t] = "move" /\ CanMv(tree, tmp, p))
    BY <1>1, EditReplaces
  <1>3. Written(t) /\ Replacing(t)
    BY <1>2 DEF RenameTmp, Written, Replacing
  <1>4. HasMode(t) /\ TmpHasMode(t)
    BY <1>3 DEF EditInv
  <1>5. IsFile(tree, p) /\ Stat(tree, p).mode = loc[t].mode
    BY <1>1, <1>4 DEF HasMode
  <1>6. ~IsDir(tree, RealM(tree, p))
    BY <1>5 DEF IsFile, StatOk, Stat, IsDir
  <1>7. Target(tree, tmp, p) = d
    BY <1>6 DEF Target
  <1>8. Fits(tree, Place(tree, tmp), d) /\ Affect(t, On(t), MoveTree(tree, Place(tree, tmp), d))
    <2>1. CASE RenameTmp(t)
      BY <1>1, <2>1 DEF RenameTmp, CanRename, RenameTree, Change
    <2>2. CASE ScriptStep(t) /\ proc[t] = "move" /\ CanMv(tree, tmp, p)
      BY <1>1, <1>7, <2>2 DEF ScriptStep, CanMv, MvTree
    <2>3. QED
      BY <1>2, <2>1, <2>2
  <1>9. /\ RealM(tree, tmp) \in DOMAIN tree
        /\ MoveTree(tree, Place(tree, tmp), d)[d] = tree[RealM(tree, tmp)]
    BY <1>1, <1>8, TmpReplaces
  <1>10. fs'[On(t)] = MoveTree(tree, Place(tree, tmp), d)
    BY <1>1, <1>8 DEF Affect
  <1>11. tree[RealM(tree, tmp)].mode = loc[t].mode
    BY <1>1, <1>4, <1>9 DEF TmpHasMode
  <1>12. QED
    BY <1>5, <1>9, <1>10, <1>11

\* ssh_edit, ssh_patch and ssh_sudo_edit leave the file they replace the mode it
\* had, whatever other calls do that does not touch its path: what is renamed over
\* it is still the temporary file, with the mode read before.
THEOREM ModesKept == Spec => ModeKept
<1> DEFINE Kept ==
      \A t \in Calls :
        Tool(t) \in Edits /\ made'[t] # made[t] /\ t \notin raced
        => LET tree == fs[On(t)] p == loc[t].path IN
           IsFile(tree, p) /\ fs'[On(t)][Place(tree, p)].mode = Stat(tree, p).mode
<1>1. ModesInv /\ [Next]_callVars => Kept
  <2>1. SUFFICES ASSUME ModesInv, [Next]_callVars, NEW t \in Calls, Editing(t), made'[t] # made[t], t \notin raced
                 PROVE  LET tree == fs[On(t)] p == loc[t].path IN
                        IsFile(tree, p) /\ fs'[On(t)][Place(tree, p)].mode = Stat(tree, p).mode
    BY DEF Editing
  <2>2. PhasesInv /\ FilesInv /\ EditInv(t)
    BY <2>1 DEF ModesInv, PhasesInv, ReportsInv
  <2>3. \E u \in Calls : Step(u)
    BY <2>1 DEF Next, LoseConnection, Cancel, Tick, Over, callVars
  <2>4. \A u \in Calls : Step(u) => u = t
    BY <2>1, <2>2, StepEffect DEF Effect, Others
  <2>5. Step(t)
    BY <2>3, <2>4
  <2>6. QED
    BY <2>1, <2>2, <2>5, EditKeepsMode
<1>2. CallsInit => ModesInv
  BY ModesInit
<1>3. ModesInv /\ [Next]_callVars => ModesInv'
  BY ModesNext
<1>4. Spec => [][Kept]_callVars
  BY <1>1, <1>2, <1>3, PTL DEF Spec
<1>5. QED
  BY <1>4 DEF ModeKept

-----------------------------------------------------------------------------
(* A deploy sets aside what it replaces *)

SavePcs == {"openSource", "open", "write", "chmod", "rename"}
DeployPcs == SavePcs \cup {"start", "oldStat", "backup", "sweep", "return", "done"}
Deploying(t) == Tool(t) = "ssh_deploy" /\ Opt(t, "backup")

\* What is at the path when the file is to be written is a directory: nothing else
\* was there, or it has been moved.
Vacant(tree, p) == p \in DOMAIN tree /\ Len(p) <= Hops => IsDir(tree, p)
DeployInv(t) ==
  /\ at[t] \in DeployPcs /\ proc[t] = "none"
  /\ t \notin raced /\ faults = 0 =>
       /\ at[t] = "backup" => CanRemove(Remote(t), loc[t].path)
       /\ at[t] \in SavePcs => Vacant(Remote(t), loc[t].path)
DeploysInv == PhasesInv /\ \A t \in Calls : Deploying(t) => DeployInv(t)

\* A sibling, of a name that is not "..", is looked for next to its file.
LEMMA SiblingPlace ==
  ASSUME NEW t, WellFormed(t), NEW p, Canonic(p), p # <<>>, Len(p) <= Hops, IsDir(t, Front(p)),
         NEW c, c # "..", Append(Front(p), c) # Nowhere
  PROVE  Place(t, Append(Front(p), c)) = Append(Front(p), c)
  <1> DEFINE q == Append(Front(p), c)
             node == File(<<>>, "0644")
             u == Put(t, q, node)
  <1>1. IsPath(p) /\ Canonic(Front(p)) /\ IsPath(Front(p)) /\ Len(Front(p)) = Len(p) - 1
    BY PathFront, FrontCanonic DEF Canonic
  <1>2. Canonic(q) /\ IsPath(q) /\ q # <<>> /\ Front(q) = Front(p)
    BY <1>1, AppendCanonic, AppendEnds
  <1>3. Len(q) <= Hops
    BY <1>1, PathAppend, PathDef
  <1>4. CASE q \in DOMAIN t
    BY <1>2, <1>3, <1>4, StraightWalk
  <1>5. CASE q \notin DOMAIN t
    <2>1. IsNode(node) /\ node.kind = "file"
      BY NodesAre, FileIs
    <2>2. ~IsDir(t, q)
      BY <1>5 DEF IsDir
    <2>3. DOMAIN u = DOMAIN t \cup {q} /\ u[q] = node /\ \A r \in DOMAIN t : u[r] = t[r]
      BY <1>5 DEF Put
    <2> HIDE DEF q, node
    <2>4. WellFormed(u)
      BY <1>2, <2>1, <2>2, PutWellFormed DEF q
    <2> HIDE DEF u
    <2>5. SameLinks(t, u)
      BY <1>5, <2>1, <2>3 DEF SameLinks, IsLink
    <2>6. Place(u, q) = q
      BY <1>2, <1>3, <2>3, <2>4, StraightWalk
    <2>7. QED
      BY <2>5, <2>6, SameResolution DEF q
  <1>6. QED
    BY <1>4, <1>5

\* What is moved to a sibling of another name is no longer at its path.
LEMMA MovedAway ==
  ASSUME NEW t, WellFormed(t), NEW p, Canonic(p), Len(p) <= Hops, CanRemove(t, p),
         NEW c, c \notin {"..", Nowhere[1], NameOf(p)}, CanRename(t, p, Append(Front(p), c))
  PROVE  p \notin DOMAIN RenameTree(t, p, Append(Front(p), c))
  <1> DEFINE r == Append(Front(p), c)
             s == Place(t, p)
             d == Place(t, r)
  <1>1. s \in DOMAIN t /\ t[s].kind # "dir" /\ Fits(t, s, d)
    BY DEF CanRemove, LstatOk, Lstat, CanRename
  <1>2. p # <<>>
    BY <1>1 DEF WellFormed, IsDir, Place
  <1>3. IsPath(d) /\ IsPath(p) /\ IsPath(Front(p))
    BY PlacesArePaths, PathFront, PathAppend DEF Canonic
  <1>4. p # d
    <2>1. SUFFICES ASSUME p = d PROVE FALSE
      OBVIOUS
    <2>2. IsDir(t, Front(p)) /\ d # Nowhere
      BY <1>1, <2>1 DEF Fits
    <2>3. Last(r) = c /\ IsPath(r)
      BY <1>3, AppendEnds
    <2>4. NameOf(p) = Last(p)
      BY <1>2 DEF NameOf
    <2>5. r # Nowhere
      <3>1. Len(Nowhere) = 1
        BY NowhereCanonic
      <3>2. Last(Nowhere) = Nowhere[1]
        BY <3>1 DEF Last
      <3>3. QED
        BY <2>3, <3>2
    <2>6. d = r
      BY <1>2, <2>2, <2>5, SiblingPlace
    <2>7. QED
      BY <2>1, <2>3, <2>4, <2>6
  <1>5. p \in DOMAIN t => p = s
    BY StraightWalk
  <1> HIDE DEF s, d
  <1>6. CASE s = d
    <2>1. MoveTree(t, s, d) = t
      BY <1>6 DEF MoveTree
    <2>2. QED
      BY <1>4, <1>5, <1>6, <2>1 DEF RenameTree, s, d
  <1>7. CASE s # d
    <2>1. DOMAIN MoveTree(t, s, d) = (DOMAIN t \ ({s} \cup Under(t, d))) \cup {d}
      BY <1>1, <1>3, <1>7, LeafMoved
    <2>2. QED
      BY <1>4, <1>5, <2>1 DEF RenameTree, s, d
  <1>8. QED
    BY <1>6, <1>7

-----------------------------------------------------------------------------
(* What a deploy knows is kept *)

LEMMA DeployAt ==
  ASSUME PhasesInv, NEW t \in Calls, Deploying(t)
  PROVE  /\ at \in [Calls -> Pcs] /\ DOMAIN proc = Calls /\ DOMAIN loc = Calls /\ DOMAIN loc[t] = Locals
         /\ DOMAIN made = Calls /\ faults \in Nat /\ (cut # {} => faults > 0) /\ clock \in 0..MaxClock
         /\ WellFormed(Remote(t)) /\ TreeOK(Remote(t)) /\ On(t) \in DOMAIN fs
         /\ loc[t].path \in Seq(PlainNames) /\ Canonic(loc[t].path)
         /\ Home(t) = On(t) /\ Final(t) = loc[t].path /\ Tmp(t) = TmpOf(t, loc[t].path)
  <1>1. Tool(t) # "ssh_transfer"
    BY DEF Deploying
  <1>2. Home(t) = On(t) /\ Final(t) = loc[t].path
    BY <1>1 DEF Home, Final
  <1>3. Tmp(t) = TmpOf(t, loc[t].path)
    BY <1>2 DEF Tmp
  <1>4. /\ DOMAIN made = Calls /\ faults \in Nat /\ (cut # {} => faults > 0) /\ clock \in 0..MaxClock
        /\ Canonic(loc[t].path)
    BY DEF PhasesInv, ReportsInv, FilesInv, FilesTypeOK, LocalsOK
  <1>5. QED
    BY <1>2, <1>3, <1>4, CallsAt, TreesHere DEF Remote

DeployFails(t) ==
  \/ PayloadRefused(t) \/ MoveToBackupFails(t) \/ WriteFails(t) \/ SweepFails(t) \/ PrepareFails(t) \/ Returns(t)
DeployLooks(t) == StartUpload(t) \/ OldStat(t) \/ OldStatFails(t) \/ OpenSource(t)

LEMMA DeployTakes ==
  ASSUME NEW t \in Calls, Deploying(t), DeployInv(t), Step(t)
  PROVE  DeployFails(t) \/ DeployLooks(t) \/ MoveToBackup(t) \/ EditWrites(t)
  <1>1. at[t] \in DeployPcs /\ proc[t] = "none" /\ Tool(t) = "ssh_deploy"
    BY DEF DeployInv, Deploying
  <1>2. ~ReadStep(t)
    <2>1. Tool(t) \notin Readers
      BY <1>1 DEF Readers, Redacted
    <2>2. at[t] \notin ReadPcs /\ proc[t] # "replacing"
      BY <1>1 DEF DeployPcs, SavePcs, ReadPcs
    <2>3. QED
      BY <2>1, <2>2, ReadStepsAt
  <1>3. ~TreeStep(t)
    <2>1. Tool(t) \notin OtherTreeTools /\ Tool(t) # "ssh_delete_folder"
      BY <1>1 DEF OtherTreeTools
    <2>2. /\ at[t] \notin OtherTreePcs /\ proc[t] \notin OtherTreeProcs
          /\ at[t] \notin {"second", "rmdir", "walk", "recheck", "sweepEntry", "shell"}
          /\ proc[t] \notin {"rm", "removing"}
      BY <1>1 DEF DeployPcs, SavePcs, OtherTreePcs, OtherTreeProcs
    <2>3. QED
      BY <2>1, <2>2, TreeStepsAt, FolderStepsAt
  <1>4. at[t] \notin {"editStat", "editRead", "sudoEditRead", "sourceStat", "targetStat", "owner", "mode", "pipe"}
    BY <1>1 DEF DeployPcs, SavePcs
  <1>5. /\ ~LookBeforeEdit(t) /\ ~LookBeforeEditFails(t) /\ ~ReadAndEdit(t) /\ ~ReadAndEditFails(t)
        /\ ~TransferSize(t) /\ ~TransferSizeFails(t) /\ ~TargetExists(t) /\ ~TargetExistsFails(t)
    BY <1>4 DEF LookBeforeEdit, LookBeforeEditFails, ReadAndEdit, ReadAndEditFails, TransferSize,
       TransferSizeFails, TargetExists, TargetExistsFails, RaiseAt
  <1>6. /\ ~SudoOwner(t) /\ ~SudoOwnerFails(t) /\ ~SudoMode(t) /\ ~SudoModeFails(t)
        /\ ~ScriptStep(t) /\ ~ScriptStepFails(t) /\ ~ScriptReturns(t) /\ ~ScriptTimesOut(t)
    BY <1>1, <1>4 DEF SudoOwner, SudoOwnerFails, SudoMode, SudoModeFails, ScriptStep, ScriptStepFails,
       ScriptReturns, ScriptTimesOut, RaiseAt
  <1>7. WriteStep(t) => DeployFails(t) \/ DeployLooks(t) \/ MoveToBackup(t) \/ EditWrites(t)
    BY <1>1, <1>5, <1>6 DEF WriteStep, DeployFails, DeployLooks, EditWrites
  <1>8. QED
    BY <1>2, <1>3, <1>7 DEF Step, DeployFails

\* Where nothing is claimed, or a request has failed.
LEMMA DeployOver ==
  ASSUME NEW t, proc'[t] = "none",
         \/ at'[t] \in {"oldStat", "sweep", "return", "done"}
         \/ at'[t] \in DeployPcs /\ faults' # 0
  PROVE  DeployInv(t)'
  <1>1. at'[t] \in DeployPcs
    BY DEF DeployPcs
  <1>2. faults' # 0 \/ at'[t] \notin SavePcs \cup {"backup"}
    BY DEF SavePcs
  <1>3. QED
    BY <1>1, <1>2 DEF DeployInv

LEMMA DeploySame ==
  ASSUME NEW t, DeployInv(t), UNCHANGED <<fs, req, raced>>, loc'[t] = loc[t], proc'[t] = proc[t],
         at'[t] \in {at[t], "done"}, faults' = 0 => faults = 0
  PROVE  DeployInv(t)'
  <1>1. at'[t] \in DeployPcs
    BY DEF DeployInv, DeployPcs
  <1>2. Remote(t)' = Remote(t)
    BY DEF Remote, On
  <1>3. at'[t] \in SavePcs \cup {"backup"} => at'[t] = at[t]
    BY DEF SavePcs
  <1>4. QED
    BY <1>1, <1>2, <1>3 DEF DeployInv

LEMMA DeployFailsKeep ==
  ASSUME PhasesInv, NEW t \in Calls, Deploying(t), DeployInv(t), DeployFails(t)
  PROVE  DeployInv(t)'
  <1>1. UNCHANGED proc /\ at'[t] \in {"sweep", "done"}
    BY DeployAt DEF DeployFails, PayloadRefused, MoveToBackupFails, WriteFails, SweepFails, PrepareFails,
       Returns, RaiseAt, Raise, End, Go, Quiet
  <1>2. QED
    BY <1>1, DeployOver DEF DeployInv

LEMMA DeployLooksKeep ==
  ASSUME PhasesInv, NEW t \in Calls, Deploying(t), DeployInv(t), DeployLooks(t)
  PROVE  DeployInv(t)'
  <1> DEFINE tree == Remote(t)
             p == loc[t].path
  <1>0. UNCHANGED <<fs, req, raced, proc>> /\ proc'[t] = "none" /\ Remote(t)' = tree
    <2>1. UNCHANGED <<fs, req, raced, proc>>
      BY DEF DeployLooks, StartUpload, OldStat, OldStatFails, OpenSource, Quiet, IgnoreAt
    <2>2. QED
      BY <2>1 DEF DeployInv, Remote, On
  <1>1. at \in [Calls -> Pcs] /\ DOMAIN loc = Calls /\ DOMAIN loc[t] = Locals /\ tree = fs[On(t)]
    BY DeployAt DEF Remote
  <1>2. CASE StartUpload(t)
    <2>1. at'[t] = "oldStat"
      BY <1>1, <1>2 DEF StartUpload, FirstWrite, Go, Deploying
    <2>2. QED
      BY <1>0, <2>1, DeployOver
  <1>3. FirstWrite(t) \in {"openSource", "open"} \/ at[t] = "start"
    BY DEF FirstWrite, Deploying
  <1>4. CASE OldStatFails(t)
    <2>1. at'[t] \in {"openSource", "open"}
      BY <1>1, <1>3, <1>4 DEF OldStatFails, IgnoreAt, Go
    <2>2. faults' # 0
      BY <1>4, DeployAt DEF OldStatFails, IgnoreAt, Trouble
    <2>3. at'[t] \in DeployPcs
      BY <2>1 DEF DeployPcs, SavePcs
    <2>4. QED
      BY <1>0, <2>2, <2>3, DeployOver
  <1>5. CASE OldStat(t)
    <2>1. at[t] = "oldStat" /\ UNCHANGED loc
          /\ at'[t] = IF CanRemove(tree, p) THEN "backup" ELSE FirstWrite(t)
      BY <1>1, <1>5 DEF OldStat, Go, CanRemove
    <2>2. CASE CanRemove(tree, p)
      <3>1. at'[t] = "backup" /\ CanRemove(Remote(t)', loc'[t].path)
        BY <1>0, <2>1, <2>2
      <3>2. QED
        BY <1>0, <3>1 DEF DeployInv, DeployPcs, SavePcs
    <2>3. CASE ~CanRemove(tree, p)
      <3>1. at'[t] \in {"openSource", "open"}
        BY <1>3, <2>1, <2>3
      <3>2. Vacant(tree, p)
        BY <2>3, DeployAt, StraightWalk DEF Vacant, CanRemove, LstatOk, Lstat, IsDir
      <3>3. Vacant(Remote(t)', loc'[t].path)
        BY <1>0, <2>1, <3>2
      <3>4. QED
        BY <1>0, <3>1, <3>3 DEF DeployInv, DeployPcs, SavePcs
    <2>4. QED
      BY <2>2, <2>3
  <1>6. CASE OpenSource(t)
    <2>1. at[t] = "openSource" /\ at'[t] = "open" /\ loc'[t].path = p /\ UNCHANGED faults
      BY <1>1, <1>6 DEF OpenSource, Go, Keep, Plans, Locals, Quiet
    <2>2. t \notin raced /\ faults = 0 => Vacant(tree, p)
      BY <2>1 DEF DeployInv, SavePcs
    <2>3. t \notin raced' /\ faults' = 0 => Vacant(Remote(t)', loc'[t].path)
      BY <1>0, <2>1, <2>2
    <2>4. QED
      BY <1>0, <2>1, <2>3 DEF DeployInv, DeployPcs, SavePcs
  <1>7. QED
    BY <1>2, <1>4, <1>5, <1>6 DEF DeployLooks

LEMMA MoveToBackupKeeps ==
  ASSUME PhasesInv, NEW t \in Calls, Deploying(t), DeployInv(t), MoveToBackup(t)
  PROVE  DeployInv(t)'
  <1> DEFINE tree == Remote(t)
             p == loc[t].path
             c == BakName(NameOf(p), clock)
  <1>1. at \in [Calls -> Pcs] /\ DOMAIN loc = Calls /\ DOMAIN loc[t] = Locals /\ tree = fs[On(t)]
        /\ WellFormed(tree) /\ Canonic(p) /\ p \in Seq(PlainNames) /\ On(t) \in DOMAIN fs /\ clock \in 0..MaxClock
    BY DeployAt DEF Remote
  <1>2. /\ at[t] = "backup" /\ CanRename(tree, p, Append(Front(p), c)) /\ loc'[t].path = p
        /\ at'[t] \in {"openSource", "open"} /\ UNCHANGED <<req, proc, faults>>
        /\ Affect(t, On(t), RenameTree(tree, p, Append(Front(p), c)))
    BY <1>1 DEF MoveToBackup, FirstWrite, Deploying, Go, Keep, Rest, Backup, Locals
  <1>3. Remote(t)' = RenameTree(tree, p, Append(Front(p), c)) /\ raced \subseteq raced'
    BY <1>1, <1>2 DEF Affect, Remote, On
  <1>4. c \notin {"..", Nowhere[1], NameOf(p)}
    <2>1. NameOf(p) \in PlainNames
      BY <1>1, PathParts, NamesApart DEF NameOf
    <2>2. QED
      BY <1>1, <2>1, BackupsAssumption
  <1> HIDE DEF c
  <1>5. ASSUME t \notin raced', faults' = 0 PROVE Vacant(Remote(t)', loc'[t].path)
    <2>1. CanRemove(tree, p)
      BY <1>2, <1>3, <1>5 DEF DeployInv
    <2>2. Len(p) <= Hops => p \notin DOMAIN RenameTree(tree, p, Append(Front(p), c))
      BY <1>1, <1>2, <1>4, <2>1, MovedAway
    <2>3. QED
      BY <1>2, <1>3, <2>2 DEF Vacant
  <1>6. proc'[t] = "none" /\ at'[t] \in DeployPcs /\ at'[t] # "backup"
    BY <1>2 DEF DeployInv, DeployPcs, SavePcs
  <1>7. QED
    BY <1>5, <1>6 DEF DeployInv

\* A temporary file, filled, is not what the path names.
LEMMA DeployWritesKeep ==
  ASSUME PhasesInv, NEW t \in Calls, Deploying(t), DeployInv(t), EditWrites(t)
  PROVE  DeployInv(t)'
  <1> DEFINE tree == Remote(t)
             p == loc[t].path
             tmp == TmpOf(t, p)
  <1>0. UNCHANGED <<req, loc, proc, faults>> /\ at[t] \in {"open", "write", "chmod", "rename", "sweep"}
    BY DEF EditWrites, OpenTmp, WriteTmp, ChmodTmp, RenameTmp, SweepTmp, Rest
  <1>1. /\ tree = fs[On(t)] /\ Home(t) = On(t) /\ Tmp(t) = tmp /\ Final(t) = p /\ p \in Seq(PlainNames)
        /\ WellFormed(tree) /\ TreeOK(tree) /\ at \in [Calls -> Pcs] /\ On(t) \in DOMAIN fs
    BY DeployAt DEF Remote
  <1>2. proc'[t] = "none"
    BY <1>0 DEF DeployInv
  <1>3. ASSUME NEW u, Affect(t, On(t), u), Beside(tree, u), at[t] # "sweep", at'[t] \in {"write", "chmod", "rename"}
        PROVE  DeployInv(t)'
    <2>1. Remote(t)' = u /\ raced \subseteq raced'
      BY <1>0, <1>1, <1>3 DEF Affect, Remote, On
    <2>2. NodeAt(u, p) = NodeAt(tree, p)
      BY <1>1, <1>3 DEF Beside
    <2>3. Vacant(tree, p) => Vacant(u, p)
      BY <2>2 DEF Vacant, IsDir, NodeAt
    <2>4. t \notin raced' /\ faults' = 0 => Vacant(u, p)
      BY <1>0, <1>3, <2>1, <2>3 DEF DeployInv, SavePcs
    <2>5. t \notin raced' /\ faults' = 0 => Vacant(Remote(t)', loc'[t].path)
      BY <1>0, <2>1, <2>4
    <2>6. at'[t] \in DeployPcs /\ at'[t] # "backup"
      BY <1>3 DEF DeployPcs, SavePcs
    <2>7. QED
      BY <1>2, <2>5, <2>6 DEF DeployInv
  <1>4. CASE RenameTmp(t) \/ SweepTmp(t)
    <2>1. at'[t] \in {"return", "done"}
      BY <1>1, <1>4 DEF RenameTmp, SweepTmp, Raise, End, Go
    <2>2. QED
      BY <1>2, <2>1, DeployOver
  <1>5. CASE OpenTmp(t)
    <2>1. /\ at[t] = "open" /\ at'[t] = "write" /\ CanCreate(tree, tmp)
          /\ Affect(t, On(t), CreateTree(tree, tmp, File(<<>>, "0644")))
      BY <1>1, <1>5, AffectsOf DEF OpenTmp, Go
    <2>2. Beside(tree, CreateTree(tree, tmp, File(<<>>, "0644")))
      BY <1>1, <2>1, TmpBeside
    <2>3. QED
      BY <1>3, <2>1, <2>2
  <1>6. CASE WriteTmp(t)
    <2>1. at[t] = "write" /\ at'[t] \in {"write", "chmod", "rename"}
      BY <1>1, <1>6 DEF WriteTmp, Go
    <2>2. \E x : Affect(t, On(t), Grow(tree, TmpsOf(t, tree, p), x))
      BY <1>1, <1>6, AffectsOf DEF WriteTmp, TmpNow
    <2>3. \A x : Beside(tree, Grow(tree, TmpsOf(t, tree, p), x))
      BY <1>1, TmpBeside
    <2>4. QED
      BY <1>3, <2>1, <2>2, <2>3
  <1>7. CASE ChmodTmp(t)
    <2> DEFINE u == [tree EXCEPT ![RealM(tree, tmp)].mode = loc[t].mode]
    <2>1. at[t] = "chmod" /\ at'[t] = "rename" /\ StatOk(tree, tmp)
      BY <1>1, <1>7 DEF ChmodTmp, Go
    <2>2. Scratch(t, On(t), u)
      BY <1>1, <1>7 DEF ChmodTmp
    <2>3. Beside(tree, u)
      BY <1>1, <2>1, TmpBeside
    <2> HIDE DEF u
    <2>4. Affect(t, On(t), u)
      BY <2>2, AffectsOf
    <2>5. QED
      BY <1>3, <2>1, <2>3, <2>4
  <1>8. QED
    BY <1>4, <1>5, <1>6, <1>7 DEF EditWrites

\* Another call that changes anything of this has raced the deploy.
LEMMA DeployUndisturbed ==
  ASSUME PhasesInv, NEW t \in Calls, Deploying(t), NEW u \in Calls \ {t}, Effect(u), DeployInv(t)
  PROVE  DeployInv(t)'
  <1> DEFINE was == Remote(t)
             is == fs'[On(t)]
             p == loc[t].path
  <1>1. at'[t] = at[t] /\ loc'[t] = loc[t] /\ proc'[t] = proc[t] /\ UNCHANGED req /\ FilesInv
    BY DEF Effect, Others, PhasesInv, ReportsInv
  <1>2. raced \subseteq raced' /\ (faults' = 0 => faults = 0)
    <2>1. faults <= faults' /\ faults \in Nat
      BY DeployAt DEF Effect
    <2>2. QED
      BY <2>1, RacedGrows
  <1>3. DeployPcs' = DeployPcs /\ at'[t] \in DeployPcs /\ proc'[t] = "none"
    BY <1>1 DEF DeployInv
  <1>4. Remote(t)' = is /\ was = fs[On(t)]
    BY <1>1 DEF Remote, On
  <1>5. SUFFICES ASSUME t \notin raced', faults' = 0
                 PROVE  /\ CanRemove(was, p) => CanRemove(is, p)
                        /\ Vacant(was, p) => Vacant(is, p)
    BY <1>1, <1>2, <1>3, <1>4 DEF DeployInv
  <1>6. Finds(t, is, p) = Finds(t, was, p)
    BY <1>1, <1>4, <1>5, PathUntouched
  <1>7. NodeAt(is, p) = NodeAt(was, p) /\ NodeAt(is, Place(is, p)) = NodeAt(was, Place(was, p))
    BY <1>6 DEF Finds
  <1>8. Vacant(was, p) => Vacant(is, p)
    BY <1>7 DEF Vacant, IsDir, NodeAt
  <1>9. CanRemove(was, p) => CanRemove(is, p)
    BY <1>7 DEF CanRemove, LstatOk, Lstat, NodeAt
  <1>10. QED
    BY <1>8, <1>9

LEMMA DeploysInit ==
  ASSUME CallsInit
  PROVE  DeploysInv
  <1>1. PhasesInv
    BY PhasesInit
  <1>2. \A t \in Calls : at[t] \in {"start", "done"} /\ proc[t] = "none"
    BY DEF CallsInit
  <1>3. \A t \in Calls : DeployInv(t)
    BY <1>2 DEF DeployInv, DeployPcs, SavePcs
  <1>4. QED
    BY <1>1, <1>3 DEF DeploysInv

LEMMA DeploysNext ==
  ASSUME DeploysInv, [Next]_callVars
  PROVE  DeploysInv'
  <1>0. PhasesInv /\ PhasesInv' /\ FilesInv /\ \A t \in Calls : Deploying(t) => DeployInv(t)
    BY PhasesNext DEF DeploysInv, PhasesInv, ReportsInv
  <1>1. ASSUME NEW u \in Calls, Step(u) \/ LoseConnection(u) \/ Cancel(u), NEW t \in Calls, Deploying(t)
        PROVE  DeployInv(t)'
    <2>1. Effect(u)
      BY <1>0, <1>1, StepEffect, EnvironmentEffect
    <2>2. CASE u # t
      BY <1>0, <1>1, <2>1, <2>2, DeployUndisturbed
    <2>3. CASE u = t /\ Step(u)
      BY <1>0, <1>1, <2>3, DeployTakes, DeployFailsKeep, DeployLooksKeep, MoveToBackupKeeps, DeployWritesKeep
    <2>4. CASE u = t /\ (LoseConnection(u) \/ Cancel(u))
      <3>1. UNCHANGED <<fs, req, raced, loc, proc>> /\ at'[t] \in {at[t], "done"}
        BY <1>0, <1>1, <2>4, DeployAt DEF LoseConnection, Cancel, End, Go
      <3>2. faults' = 0 => faults = 0
        BY <1>0, <1>1, <2>1, DeployAt DEF Effect
      <3>3. QED
        BY <1>0, <1>1, <3>1, <3>2, DeploySame
    <2>5. QED
      BY <1>1, <2>2, <2>3, <2>4
  <1>2. \A t \in Calls : Deploying(t)' <=> Deploying(t)
    <2>1. UNCHANGED req
      <3>1. ASSUME NEW u \in Calls, Step(u) \/ LoseConnection(u) \/ Cancel(u) PROVE UNCHANGED req
        BY <1>0, <3>1, StepEffect, EnvironmentEffect DEF Effect
      <3>2. QED
        BY <3>1 DEF Next, Tick, Over, callVars
    <2>2. QED
      BY <2>1 DEF Deploying, Tool, Opt
  <1>3. ASSUME Tick \/ UNCHANGED callVars, NEW t \in Calls, Deploying(t)
        PROVE  DeployInv(t)'
    BY <1>0, <1>3, DeploySame DEF Tick, callVars
  <1>4. \A t \in Calls : Deploying(t) => DeployInv(t)'
    BY <1>1, <1>3 DEF Next, Over
  <1>5. QED
    BY <1>0, <1>2, <1>4 DEF DeploysInv

\* Only the rename writes the file, and it would not replace a directory.
LEMMA DeployReplaces ==
  ASSUME PhasesInv, NEW t \in Calls, Deploying(t), DeployInv(t), Step(t), made'[t] # made[t]
  PROVE  loc[t].path \in DOMAIN fs[On(t)] => t \in raced \/ faults > 0
  <1> DEFINE tree == fs[On(t)]
             p == loc[t].path
             tmp == TmpOf(t, p)
             d == Place(tree, p)
  <1>1. /\ tree = Remote(t) /\ Home(t) = On(t) /\ Tmp(t) = tmp /\ Final(t) = p /\ p \in Seq(PlainNames)
        /\ Canonic(p) /\ WellFormed(tree) /\ TreeOK(tree) /\ faults \in Nat
    BY DeployAt DEF Remote
  <1>2. ~DeployFails(t) /\ ~DeployLooks(t) /\ ~MoveToBackup(t)
    BY DEF DeployFails, PayloadRefused, MoveToBackupFails, WriteFails, SweepFails, PrepareFails, Returns,
       RaiseAt, DeployLooks, StartUpload, OldStat, OldStatFails, IgnoreAt, OpenSource, MoveToBackup, Quiet
  <1>3. EditWrites(t) => RenameTmp(t)
    BY DEF EditWrites, OpenTmp, WriteTmp, ChmodTmp, SweepTmp, Scratch
  <1>4. RenameTmp(t)
    BY <1>2, <1>3, DeployTakes
  <1>5. at[t] = "rename" /\ Fits(tree, Place(tree, tmp), d)
    BY <1>1, <1>4 DEF RenameTmp, CanRename
  <1>6. SUFFICES ASSUME p \in DOMAIN tree, t \notin raced, faults = 0 PROVE FALSE
    BY <1>1
  <1>7. d = p /\ Len(p) <= Hops
    BY <1>1, <1>5, <1>6, StraightPlace DEF Fits
  <1>8. IsDir(tree, p)
    BY <1>1, <1>5, <1>6, <1>7 DEF DeployInv, SavePcs, Vacant
  <1>9. tree[Place(tree, tmp)].kind = "file"
    <2>1. RealM(tree, tmp) = Place(tree, tmp) /\ Place(tree, tmp) \in DOMAIN tree
      BY <1>1, <1>5, TmpIs DEF Fits
    <2>2. Place(tree, tmp) # Nowhere
      BY <1>1, <2>1 DEF WellFormed
    <2>3. QED
      BY <1>1, <2>1, <2>2, TmpNode
  <1>10. QED
    BY <1>5, <1>7, <1>8, <1>9 DEF Fits

\* ssh_deploy with a backup writes only where nothing is, or a file that came since:
\* what it saw there it has moved away before, to a name the path does not lead to.
THEOREM SetAsideKept == Spec => SetAsideFirst
<1> DEFINE Kept ==
      \A t \in Calls :
        /\ Tool(t) = "ssh_deploy" /\ Opt(t, "backup") /\ made'[t] # made[t]
        /\ loc[t].path \in DOMAIN fs[On(t)]
        => t \in raced \/ faults > 0
<1>1. DeploysInv /\ [Next]_callVars => Kept
  <2>1. SUFFICES ASSUME DeploysInv, [Next]_callVars, NEW t \in Calls, Deploying(t), made'[t] # made[t]
                 PROVE  loc[t].path \in DOMAIN fs[On(t)] => t \in raced \/ faults > 0
    BY DEF Deploying
  <2>2. PhasesInv /\ FilesInv /\ DeployInv(t)
    BY <2>1 DEF DeploysInv, PhasesInv, ReportsInv
  <2>3. \E u \in Calls : Step(u)
    BY <2>1 DEF Next, LoseConnection, Cancel, Tick, Over, callVars
  <2>4. \A u \in Calls : Step(u) => u = t
    BY <2>1, <2>2, StepEffect DEF Effect, Others
  <2>5. Step(t)
    BY <2>3, <2>4
  <2>6. QED
    BY <2>1, <2>2, <2>5, DeployReplaces
<1>2. CallsInit => DeploysInv
  BY DeploysInit
<1>3. DeploysInv /\ [Next]_callVars => DeploysInv'
  BY DeploysNext
<1>4. Spec => [][Kept]_callVars
  BY <1>1, <1>2, <1>3, PTL DEF Spec
<1>5. QED
  BY <1>4 DEF SetAsideFirst
===============================================================================
