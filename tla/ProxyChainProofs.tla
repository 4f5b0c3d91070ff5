-------------------------- MODULE ProxyChainProofs ---------------------------
(***************************************************************************)
(* Theorems about ProxyChain for every set of aliases and keys, every      *)
(* hosts.toml and every number of calls.                                   *)
(***************************************************************************)
EXTENDS ProxyChain, SequenceTheorems, FiniteSetTheorems, WellFoundedInduction, TLAPS

-----------------------------------------------------------------------------
(* The inductive invariant *)

Depth(t) == Len(stack[t])

\* Only an open can wait.
WaitersOpen == \A t \in Calls : waiting[t] => stack[t] # <<>>

\* A call holds the locks of the opens it is inside of, each of another key.
Holds(t) ==
  /\ \A k \in Keys : lock[k] = t <=> \E i \in Inside(t) : stack[t][i].key = k
  /\ \A i, j \in Inside(t) : stack[t][i].key = stack[t][j].key => i = j

LocksInv == \A t \in Calls : Holds(t)

\* The open f of alias n has acquired the first hops of n's chain.
Taken(n, f) == Len(hosts[n]) - Len(f.hops)

Follows(n, f) ==
  /\ Defined(hosts, n) /\ keyOf[n] = f.key
  /\ Len(f.hops) <= Len(hosts[n])
  /\ \A j \in 1..Len(f.hops) : f.hops[j] = hosts[n][Taken(n, f) + j]

\* The innermost open holds the last hop acquired, or its remains, ...
HoldsTunnel(n, f) ==
  f.tunnel \in {IF Taken(n, f) = 0 THEN Direct ELSE keyOf[hosts[n][Taken(n, f)]], Down}

\* ... any other is waiting for it.
RoutedAt(t, i) ==
  \E n \in Names :
    /\ Follows(n, stack[t][i])
    /\ IF i = Depth(t) THEN HoldsTunnel(n, stack[t][i])
       ELSE /\ Taken(n, stack[t][i]) >= 1
            /\ stack[t][i + 1].key = keyOf[hosts[n][Taken(n, stack[t][i])]]

Routed(t) == \A i \in 1..Depth(t) : RoutedAt(t, i)

\* Every order of the hosts descends from an open to the opens inside it.
Descends(t) ==
  \A rank \in [Keys -> 0..Cardinality(Keys)] : Ordered(hosts, rank) =>
    \A i, j \in 1..Depth(t) : i < j => rank[stack[t][j].key] < rank[stack[t][i].key]

OwnKey(n) == \A m \in Names : keyOf[m] = keyOf[n] => m = n

ViaRoute ==
  \A n \in Names : Defined(hosts, n) /\ OwnKey(n) /\ Up(keyOf[n])
    => via[keyOf[n]] = IF hosts[n] = <<>> THEN Direct ELSE keyOf[Last(hosts[n])]

RoutesInv == ~reloaded => ViaRoute /\ \A t \in Calls : Routed(t) /\ Descends(t)

ProxyInv == TypeOK /\ WaitersOpen /\ LocksInv /\ RoutesInv

-----------------------------------------------------------------------------
(* Chains and stacks *)

LEMMA ChainIsSeq ==
  \A c : c \in Chains <=> c \in Seq(Names) /\ Len(c) <= MaxHops
  <1>1. ASSUME NEW c \in Chains PROVE c \in Seq(Names) /\ Len(c) <= MaxHops
    <2>1. PICK m \in 0..MaxHops : c \in [1..m -> Names]
      BY DEF Chains, SeqOf
    <2>2. c \in Seq(Names)
      BY <2>1, SeqDef, ChainAssumption
    <2>3. Len(c) = m
      BY <2>1, <2>2, LenProperties, ChainAssumption
    <2>4. QED
      BY <2>1, <2>2, <2>3, ChainAssumption
  <1>2. ASSUME NEW c \in Seq(Names), Len(c) <= MaxHops PROVE c \in Chains
    <2>1. Len(c) \in 0..MaxHops /\ c \in [1..Len(c) -> Names]
      BY <1>2, LenProperties, ChainAssumption
    <2>2. QED
      BY <2>1 DEF Chains, SeqOf
  <1>3. QED
    BY <1>1, <1>2

LEMMA ChainTail ==
  ASSUME NEW c \in Chains, c # <<>>
  PROVE  /\ Tail(c) \in Chains /\ Len(Tail(c)) = Len(c) - 1 /\ Len(c) \in Nat \ {0}
         /\ \A j \in 1..Len(Tail(c)) : Tail(c)[j] = c[j + 1]
         /\ Head(c) = c[1] /\ Head(c) \in Names
  <1>1. c \in Seq(Names) /\ Len(c) <= MaxHops
    BY ChainIsSeq
  <1>2. Len(c) \in Nat \ {0}
    BY <1>1, EmptySeq
  <1>3. Tail(c) \in Seq(Names) /\ Len(Tail(c)) = Len(c) - 1 /\ Head(c) \in Names
    BY <1>1, HeadTailProperties
  <1>4. Tail(c) \in Chains
    <2>1. Len(Tail(c)) <= MaxHops
      BY <1>1, <1>2, <1>3, ChainAssumption
    <2> DEFINE rest == Tail(c)
    <2>2. rest \in Seq(Names) /\ Len(rest) <= MaxHops
      BY <1>3, <2>1
    <2> HIDE DEF rest
    <2>3. rest \in Chains
      BY <2>2, ChainIsSeq
    <2>4. QED
      BY <2>3 DEF rest
  <1>5. \A j \in 1..Len(Tail(c)) : Tail(c)[j] = c[j + 1]
    BY <1>1, HeadTailProperties
  <1>6. QED
    BY <1>1, <1>2, <1>3, <1>4, <1>5

\* What an open of a defined alias starts as.
LEMMA Opened ==
  ASSUME TypeOK, NEW n \in Names, Defined(hosts, n)
  PROVE  Open(n) \in Frames
  <1>1. hosts[n] \in Chains /\ keyOf[n] \in Keys
    BY ChainAssumption DEF TypeOK, Files, Defined
  <1>2. QED
    BY <1>1 DEF Open, Frames

LEMMA TopFrame ==
  ASSUME TypeOK, NEW t \in Calls, stack[t] # <<>>
  PROVE  /\ Len(stack[t]) \in Nat \ {0}
         /\ \A i \in 1..Len(stack[t]) : stack[t][i] \in Frames
         /\ Top(t) = stack[t][Len(stack[t])] /\ Top(t) \in Frames /\ Top(t).key \in Keys
  <1>1. stack[t] \in Seq(Frames)
    BY DEF TypeOK
  <1>2. Len(stack[t]) \in Nat \ {0}
    BY <1>1, EmptySeq
  <1>3. \A i \in 1..Len(stack[t]) : stack[t][i] \in Frames
    BY <1>1, ElementOfSeq
  <1>4. QED
    BY <1>2, <1>3 DEF Top, Frames

\* The innermost open goes; the one around it takes its connection as tunnel.
LEMMA Returned ==
  ASSUME TypeOK, NEW t \in Calls, stack[t] # <<>>, Return(t)
  PROVE  /\ stack' \in [Calls -> Seq(Frames)]
         /\ \A u \in Calls : u # t => stack'[u] = stack[u]
         /\ Len(stack'[t]) = Len(stack[t]) - 1
         /\ \A i \in 1..Len(stack'[t]) :
              /\ stack'[t][i].key = stack[t][i].key /\ stack'[t][i].hops = stack[t][i].hops
              /\ stack'[t][i].tunnel = IF i = Len(stack'[t]) THEN Top(t).key
                                                             ELSE stack[t][i].tunnel
  <1> DEFINE below == Front(stack[t])
  <1>1. stack[t] \in Seq(Frames) /\ Len(stack[t]) \in Nat \ {0} /\ Top(t).key \in Keys
    BY TopFrame DEF TypeOK
  <1>2. /\ below \in Seq(Frames) /\ Len(below) = Len(stack[t]) - 1
        /\ \A i \in 1..Len(below) : below[i] = stack[t][i] /\ below[i] \in Frames
    <2>1. \A i \in 1..Len(stack[t]) - 1 : stack[t][i] \in Frames
      BY <1>1, TopFrame
    <2>2. QED
      BY <1>1, <2>1, SubSeqProperties DEF Front
  <1> HIDE DEF below
  <1>3. stack' = [stack EXCEPT ![t] =
                    IF below = <<>> THEN below ELSE [below EXCEPT ![Len(below)].tunnel = Top(t).key]]
    BY DEF Return, below
  <1>4. CASE below = <<>>
    <2>1. stack'[t] = below /\ Len(below) = 0
      BY <1>3, <1>4, EmptySeq DEF TypeOK
    <2>2. QED
      BY <1>1, <1>2, <1>3, <1>4, <2>1 DEF TypeOK
  <1>5. CASE below # <<>>
    <2> DEFINE top == [below[Len(below)] EXCEPT !.tunnel = Top(t).key]
    <2>1. Len(below) \in 1..Len(below) /\ top \in Frames
      BY <1>1, <1>2, <1>5, EmptySeq DEF Frames
    <2>2. stack'[t] = [below EXCEPT ![Len(below)] = top]
      BY <1>3, <1>5 DEF TypeOK
    <2>3. /\ stack'[t] \in Seq(Frames) /\ Len(stack'[t]) = Len(below)
          /\ \A i \in 1..Len(below) : stack'[t][i] = IF i = Len(below) THEN top ELSE below[i]
      BY <1>2, <2>1, <2>2, ExceptSeq
    <2>4. top.key = below[Len(below)].key /\ top.hops = below[Len(below)].hops
            /\ top.tunnel = Top(t).key
      BY <1>2, <2>1 DEF Frames
    <2>5. stack' \in [Calls -> Seq(Frames)]
      BY <1>3, <1>5, <2>2, <2>3 DEF TypeOK
    <2>6. QED
      BY <1>2, <1>3, <1>5, <2>3, <2>4, <2>5 DEF TypeOK
  <1>6. QED
    BY <1>4, <1>5

\* The innermost open starts the open of its next hop.
LEMMA Nested ==
  ASSUME TypeOK, NEW t \in Calls, NextHop(t)
  PROVE  LET f == Top(t)  n == Len(stack[t]) IN
         /\ stack' \in [Calls -> Seq(Frames)]
         /\ \A u \in Calls : u # t => stack'[u] = stack[u]
         /\ Len(stack'[t]) = n + 1
         /\ \A i \in 1..n - 1 : stack'[t][i] = stack[t][i]
         /\ stack'[t][n] = [f EXCEPT !.hops = Tail(f.hops)]
         /\ stack'[t][n].key = f.key /\ stack'[t][n].hops = Tail(f.hops)
              /\ stack'[t][n].tunnel = f.tunnel
         /\ stack'[t][n + 1] = Open(Head(f.hops))
         /\ Head(f.hops) \in Names /\ Defined(hosts, Head(f.hops))
  <1> DEFINE f == Top(t)
             n == Len(stack[t])
             taken == [f EXCEPT !.hops = Tail(f.hops)]
             below == [stack[t] EXCEPT ![n] = taken]
  <1>1. /\ stack[t] # <<>> /\ f.hops # <<>> /\ Defined(hosts, Head(f.hops))
        /\ stack' = [stack EXCEPT ![t] = Append(HopTaken(t), Open(Head(f.hops)))]
    BY DEF NextHop
  <1>2. stack[t] \in Seq(Frames) /\ n \in Nat \ {0} /\ f = stack[t][n] /\ f \in Frames
    BY <1>1, TopFrame DEF TypeOK
  <1>3. f.hops \in Chains
    BY <1>2 DEF Frames
  <1>4. Tail(f.hops) \in Chains /\ Head(f.hops) \in Names
    BY <1>1, <1>3, ChainTail
  <1>5. taken \in Frames /\ taken.key = f.key /\ taken.hops = Tail(f.hops) /\ taken.tunnel = f.tunnel
    BY <1>2, <1>4 DEF Frames
  <1>6. stack'[t] = Append(below, Open(Head(f.hops)))
    BY <1>1, <1>2 DEF TypeOK, HopTaken
  <1>7. /\ below \in Seq(Frames) /\ Len(below) = n
        /\ \A i \in 1..n : below[i] = IF i = n THEN taken ELSE stack[t][i]
    BY <1>2, <1>5, ExceptSeq
  <1>8. Open(Head(f.hops)) \in Frames
    BY <1>1, <1>4, Opened
  <1> HIDE DEF f, taken, below
  <1>9. /\ stack'[t] \in Seq(Frames) /\ Len(stack'[t]) = n + 1
        /\ \A i \in 1..n : stack'[t][i] = below[i]
        /\ stack'[t][n + 1] = Open(Head(f.hops))
    BY <1>6, <1>7, <1>8, AppendProperties
  <1>10. stack' \in [Calls -> Seq(Frames)] /\ \A u \in Calls : u # t => stack'[u] = stack[u]
    BY <1>1, <1>6, <1>9 DEF TypeOK
  <1>11. \A i \in 1..n - 1 : stack'[t][i] = stack[t][i]
    BY <1>2, <1>7, <1>9
  <1>12. stack'[t][n] = taken
    BY <1>2, <1>7, <1>9
  <1>13. QED
    BY <1>1, <1>4, <1>5, <1>9, <1>10, <1>11, <1>12 DEF f, taken

\* A connection lost changes tunnels only, and only to Down.
LEMMA Dropped ==
  ASSUME TypeOK, NEW k \in Keys, Drop(k)
  PROVE  /\ stack' \in [Calls -> Seq(Frames)]
         /\ \A t \in Calls :
              /\ Len(stack'[t]) = Len(stack[t])
              /\ \A i \in 1..Len(stack[t]) :
                   /\ stack'[t][i].key = stack[t][i].key /\ stack'[t][i].hops = stack[t][i].hops
                   /\ stack'[t][i].tunnel \in {stack[t][i].tunnel, Down}
         /\ \A j \in Keys : via'[j] \in {via[j], Down}
  <1> DEFINE after(t) == [i \in DOMAIN stack[t] |->
                 [stack[t][i] EXCEPT !.tunnel = IF @ \in Carried(k) THEN Down ELSE @]]
  <1>1. stack' = [t \in Calls |-> after(t)]
    BY DEF Drop
  <1>2. ASSUME NEW t \in Calls
        PROVE  /\ after(t) \in Seq(Frames) /\ Len(after(t)) = Len(stack[t])
               /\ \A i \in 1..Len(stack[t]) :
                   /\ after(t)[i].key = stack[t][i].key /\ after(t)[i].hops = stack[t][i].hops
                   /\ after(t)[i].tunnel \in {stack[t][i].tunnel, Down}
    <2>1. /\ stack[t] \in Seq(Frames) /\ Len(stack[t]) \in Nat
          /\ DOMAIN stack[t] = 1..Len(stack[t])
          /\ \A i \in 1..Len(stack[t]) : stack[t][i] \in Frames
      BY LenProperties, ElementOfSeq DEF TypeOK
    <2>2. \A i \in 1..Len(stack[t]) :
            /\ after(t)[i] \in Frames
            /\ after(t)[i].key = stack[t][i].key /\ after(t)[i].hops = stack[t][i].hops
            /\ after(t)[i].tunnel = IF stack[t][i].tunnel \in Carried(k) THEN Down ELSE stack[t][i].tunnel
      BY <2>1 DEF Frames
    <2>3. after(t) \in [1..Len(stack[t]) -> Frames]
      BY <2>1, <2>2
    <2>4. after(t) \in Seq(Frames)
      BY <2>1, <2>3, SeqDef
    <2>5. DOMAIN after(t) = 1..Len(after(t)) /\ DOMAIN after(t) = 1..Len(stack[t]) /\ Len(after(t)) \in Nat
      BY <2>1, <2>4, LenProperties
    <2>6. QED
      BY <2>1, <2>2, <2>4, <2>5
  <1>3. \A j \in Keys : via'[j] \in {via[j], Down}
    BY DEF Drop, TypeOK
  <1>4. QED
    BY <1>1, <1>2, <1>3

-----------------------------------------------------------------------------
(* Types *)

LEMMA ProxyStart == Init => ProxyInv
  <1> SUFFICES ASSUME Init PROVE ProxyInv
    OBVIOUS
  <1>1. \A t \in Calls : stack[t] = <<>> /\ ~waiting[t] /\ Len(stack[t]) = 0
    BY EmptySeq DEF Init
  <1>2. TypeOK /\ WaitersOpen
    BY <1>1, EmptySeq DEF Init, TypeOK, WaitersOpen
  <1>3. LocksInv
    BY <1>1, ChainAssumption DEF Init, LocksInv, Holds, Inside
  <1>4. \A t \in Calls : Routed(t) /\ Descends(t)
    BY <1>1 DEF Routed, Descends, Depth
  <1>5. ViaRoute
    <2>1. \A n \in Names : ~Up(keyOf[n])
      BY ChainAssumption DEF Init, Up
    <2>2. QED
      BY <2>1 DEF ViaRoute
  <1>6. QED
    BY <1>2, <1>3, <1>4, <1>5 DEF ProxyInv, RoutesInv

LEMMA UnwindType ==
  ASSUME TypeOK, WaitersOpen, NEW t \in Calls, Unwind(t)
  PROVE  TypeOK' /\ WaitersOpen'
  BY EmptySeq DEF TypeOK, WaitersOpen, Unwind

LEMMA ProxyTypeStep ==
  ASSUME TypeOK, WaitersOpen, [Next]_vars
  PROVE  TypeOK' /\ WaitersOpen'
  <1>1. ASSUME NEW t \in Calls, NEW n \in Names, Acquire(t, n)
        PROVE  TypeOK' /\ WaitersOpen'
    <2>1. <<Open(n)>> \in Seq(Frames) /\ <<Open(n)>> # <<>>
      BY <1>1, Opened DEF Acquire
    <2> HIDE DEF Open
    <2>2. QED
      BY <1>1, <2>1 DEF Acquire, TypeOK, WaitersOpen
  <1>2. ASSUME NEW t \in Calls, Reuse(t)
        PROVE  TypeOK' /\ WaitersOpen'
    <2>1. stack' \in [Calls -> Seq(Frames)] /\ \A u \in Calls : u # t => stack'[u] = stack[u]
      BY <1>2, Returned DEF Reuse, WaitersOpen
    <2>2. QED
      BY <1>2, <2>1 DEF Reuse, TypeOK, WaitersOpen
  <1>3. ASSUME NEW t \in Calls, Lock(t)
        PROVE  TypeOK' /\ WaitersOpen'
    BY <1>3 DEF Lock, TypeOK, WaitersOpen
  <1>4. ASSUME NEW t \in Calls, NextHop(t)
        PROVE  TypeOK' /\ WaitersOpen'
    <2>1. /\ stack' \in [Calls -> Seq(Frames)]
          /\ \A u \in Calls : u # t => stack'[u] = stack[u]
          /\ Len(stack'[t]) = Len(stack[t]) + 1
      BY <1>4, Nested
    <2>2. Len(stack[t]) \in Nat
      BY LenProperties DEF TypeOK
    <2>3. stack'[t] # <<>>
      BY <2>1, <2>2, EmptySeq
    <2>4. QED
      BY <1>4, <2>1, <2>3 DEF NextHop, TypeOK, WaitersOpen
  <1>5. ASSUME NEW t \in Calls, Connect(t)
        PROVE  TypeOK' /\ WaitersOpen'
    <2>1. stack' \in [Calls -> Seq(Frames)] /\ \A u \in Calls : u # t => stack'[u] = stack[u]
      BY <1>5, Returned DEF Connect
    <2>2. Top(t) \in Frames
      BY <1>5, TopFrame DEF Connect
    <2>3. QED
      BY <1>5, <2>1, <2>2 DEF Connect, TypeOK, WaitersOpen, Frames
  <1>6. ASSUME NEW t \in Calls, Fail(t) \/ Cancel(t)
        PROVE  TypeOK' /\ WaitersOpen'
    BY <1>6, UnwindType DEF Fail, Cancel
  <1>7. ASSUME NEW k \in Keys, Drop(k)
        PROVE  TypeOK' /\ WaitersOpen'
    <2>1. /\ stack' \in [Calls -> Seq(Frames)]
          /\ \A t \in Calls : Len(stack'[t]) = Len(stack[t])
          /\ \A j \in Keys : via'[j] \in {via[j], Down}
      BY <1>7, Dropped
    <2>2. \A t \in Calls : stack[t] # <<>> => stack'[t] # <<>>
      BY <2>1, EmptySeq DEF TypeOK
    <2>3. DOMAIN via' = Keys /\ via' = [j \in Keys |-> via'[j]]
      BY <1>7 DEF Drop
    <2>4. via' \in [Keys -> Keys \cup {Direct, Down}]
      BY <2>1, <2>3 DEF TypeOK
    <2>5. QED
      BY <1>7, <2>1, <2>2, <2>4 DEF Drop, TypeOK, WaitersOpen
  <1>8. LoadHosts \/ UNCHANGED vars => TypeOK' /\ WaitersOpen'
    BY DEF LoadHosts, vars, TypeOK, WaitersOpen
  <1>9. ASSUME NEW file \in Rewrites, HostReload(file)
        PROVE  TypeOK' /\ WaitersOpen'
    BY <1>9, RewritesAssumption DEF HostReload, TypeOK, WaitersOpen
  <1>10. QED
    BY <1>1, <1>2, <1>3, <1>4, <1>5, <1>6, <1>7, <1>8, <1>9 DEF Next, Step

-----------------------------------------------------------------------------
(* Locks *)

\* A call whose opens, locks and waiting stay holds what it held.
LEMMA SameHolds ==
  ASSUME NEW t \in Calls, Holds(t), Inside(t)' = Inside(t),
         \A i \in Inside(t) : stack'[t][i].key = stack[t][i].key,
         \A k \in Keys : lock'[k] = t <=> lock[k] = t
  PROVE  Holds(t)'
  <1>1. \A k \in Keys : lock'[k] = t <=> \E i \in Inside(t)' : stack'[t][i].key = k
    BY DEF Holds
  <1>2. \A i, j \in Inside(t)' : stack'[t][i].key = stack'[t][j].key => i = j
    BY DEF Holds
  <1>3. QED
    BY <1>1, <1>2 DEF Holds

LEMMA HoldsKept ==
  ASSUME NEW t \in Calls, Holds(t), stack'[t] = stack[t], waiting'[t] = waiting[t],
         \A k \in Keys : lock'[k] = t <=> lock[k] = t
  PROVE  Holds(t)'
  BY SameHolds DEF Inside

LEMMA UnwindHolds ==
  ASSUME TypeOK, LocksInv, NEW t \in Calls, Unwind(t)
  PROVE  LocksInv'
  <1>1. ASSUME NEW u \in Calls, u # t PROVE Holds(u)'
    <2>1. stack'[u] = stack[u] /\ waiting'[u] = waiting[u]
      BY <1>1 DEF Unwind, TypeOK
    <2>2. \A k \in Keys : lock'[k] = u <=> lock[k] = u
      BY <1>1, ChainAssumption DEF Unwind, TypeOK
    <2>3. QED
      BY <2>1, <2>2, HoldsKept DEF LocksInv
  <1>2. Holds(t)'
    <2>1. Inside(t)' = {}
      BY EmptySeq DEF Unwind, TypeOK, Inside
    <2>2. \A k \in Keys : lock'[k] # t
      BY ChainAssumption DEF Unwind, TypeOK
    <2>3. QED
      BY <2>1, <2>2 DEF Holds
  <1>3. QED
    BY <1>1, <1>2 DEF LocksInv

LEMMA LocksStep ==
  ASSUME TypeOK, WaitersOpen, LocksInv, [Next]_vars
  PROVE  LocksInv'
  <1>1. ASSUME NEW t \in Calls, NEW n \in Names, Acquire(t, n)
        PROVE  LocksInv'
    <2>1. \A u \in Calls : u # t => stack'[u] = stack[u] /\ waiting'[u] = waiting[u]
      BY <1>1 DEF Acquire, TypeOK
    <2>2. Holds(t)'
      <3>1. Inside(t) = {}
        BY <1>1, EmptySeq DEF Acquire, Inside, WaitersOpen
      <3>2. Len(stack'[t]) = 1 /\ waiting'[t]
        BY <1>1 DEF Acquire, TypeOK
      <3>3. Inside(t)' = {}
        BY <3>2 DEF Inside
      <3>4. Holds(t) /\ lock' = lock
        BY <1>1 DEF LocksInv, Acquire
      <3>5. QED
        BY <3>1, <3>3, <3>4 DEF Holds
    <2>3. QED
      BY <1>1, <2>1, <2>2, HoldsKept DEF Acquire, LocksInv
  <1>2. ASSUME NEW t \in Calls, Reuse(t)
        PROVE  LocksInv'
    <2>1. stack[t] # <<>> /\ waiting[t] /\ ~waiting'[t] /\ lock' = lock
      BY <1>2 DEF Reuse, WaitersOpen, TypeOK
    <2>2. /\ \A u \in Calls : u # t => stack'[u] = stack[u] /\ waiting'[u] = waiting[u]
          /\ Len(stack'[t]) = Len(stack[t]) - 1
          /\ \A i \in 1..Len(stack'[t]) : stack'[t][i].key = stack[t][i].key
      BY <1>2, <2>1, Returned DEF Reuse, TypeOK
    <2>3. Inside(t)' = Inside(t) /\ Inside(t) = 1..Len(stack'[t])
      BY <2>1, <2>2 DEF Inside
    <2>4. Holds(t)'
      BY <2>1, <2>2, <2>3, SameHolds DEF LocksInv
    <2>5. QED
      BY <2>1, <2>2, <2>4, HoldsKept DEF LocksInv
  <1>3. ASSUME NEW t \in Calls, Lock(t)
        PROVE  LocksInv'
    <2>1. stack[t] # <<>> /\ Top(t).key \in Keys /\ Top(t) = stack[t][Len(stack[t])]
            /\ Len(stack[t]) \in Nat \ {0}
      BY <1>3, TopFrame DEF Lock, WaitersOpen
    <2>2. /\ stack' = stack /\ waiting[t] /\ ~waiting'[t]
          /\ \A u \in Calls : u # t => waiting'[u] = waiting[u]
          /\ lock[Top(t).key] = Nobody /\ lock'[Top(t).key] = t
          /\ \A k \in Keys : k # Top(t).key => lock'[k] = lock[k]
      BY <1>3, <2>1 DEF Lock, TypeOK
    <2>3. Inside(t) = 1..Len(stack[t]) - 1 /\ Inside(t)' = Inside(t) \cup {Len(stack[t])}
      BY <2>1, <2>2 DEF Inside
    <2>4. Holds(t) /\ t # Nobody
      BY ChainAssumption DEF LocksInv
    <2>5. \A i \in Inside(t) : stack[t][i].key # Top(t).key
      BY <2>1, <2>2, <2>4 DEF Holds
    <2>6. Holds(t)'
      BY <2>1, <2>2, <2>3, <2>4, <2>5 DEF Holds
    <2>7. \A u \in Calls : u # t => Holds(u)'
      BY <2>2, HoldsKept, ChainAssumption DEF LocksInv
    <2>8. QED
      BY <2>6, <2>7 DEF LocksInv
  <1>4. ASSUME NEW t \in Calls, NextHop(t)
        PROVE  LocksInv'
    <2>1. /\ \A u \in Calls : u # t => stack'[u] = stack[u]
          /\ Len(stack'[t]) = Len(stack[t]) + 1
          /\ \A i \in 1..Len(stack[t]) - 1 : stack'[t][i] = stack[t][i]
          /\ stack'[t][Len(stack[t])].key = Top(t).key
      BY <1>4, Nested
    <2>2. /\ ~waiting[t] /\ waiting'[t] /\ lock' = lock
          /\ \A u \in Calls : u # t => waiting'[u] = waiting[u]
      BY <1>4 DEF NextHop, TypeOK
    <2>3. Len(stack[t]) \in Nat \ {0} /\ Top(t) = stack[t][Len(stack[t])]
      BY <1>4, TopFrame DEF NextHop
    <2>4. Inside(t)' = 1..Len(stack[t]) /\ Inside(t) = 1..Len(stack[t])
      BY <2>1, <2>2, <2>3 DEF Inside
    <2>5. \A i \in 1..Len(stack[t]) : stack'[t][i].key = stack[t][i].key
      BY <2>1, <2>3
    <2>6. Holds(t)'
      BY <2>2, <2>4, <2>5, SameHolds DEF LocksInv
    <2>7. QED
      BY <2>1, <2>2, <2>6, HoldsKept DEF LocksInv
  <1>5. ASSUME NEW t \in Calls, Connect(t)
        PROVE  LocksInv'
    <2>1. /\ stack[t] # <<>> /\ ~waiting[t] /\ ~waiting'[t] /\ Return(t)
          /\ lock' = [lock EXCEPT ![Top(t).key] = Nobody]
          /\ waiting' = waiting
      BY <1>5 DEF Connect
    <2>2. Len(stack[t]) \in Nat \ {0} /\ Top(t) = stack[t][Len(stack[t])] /\ Top(t).key \in Keys
      BY <2>1, TopFrame
    <2>3. /\ \A u \in Calls : u # t => stack'[u] = stack[u]
          /\ Len(stack'[t]) = Len(stack[t]) - 1
          /\ \A i \in 1..Len(stack'[t]) : stack'[t][i].key = stack[t][i].key
      BY <2>1, Returned
    <2>4. Inside(t) = 1..Len(stack[t]) /\ Inside(t)' = 1..Len(stack[t]) - 1
      BY <2>1, <2>3 DEF Inside
    <2>5. Holds(t) /\ t # Nobody
      BY ChainAssumption DEF LocksInv
    <2>6. lock[Top(t).key] = t
      BY <2>2, <2>4, <2>5 DEF Holds
    <2>7. \A k \in Keys : lock'[k] = IF k = Top(t).key THEN Nobody ELSE lock[k]
      BY <2>1 DEF TypeOK
    <2>8. \A i \in 1..Len(stack[t]) - 1 : stack[t][i].key # Top(t).key
      BY <2>2, <2>4, <2>5 DEF Holds
    <2>9. Holds(t)'
      <3> DEFINE n == Len(stack[t])  N == 1..n - 1  M == 1..n
      <3>1. M = N \cup {n} /\ \A i \in N : stack'[t][i].key = stack[t][i].key
        BY <2>2, <2>3
      <3>2. /\ \A k \in Keys : lock[k] = t <=> \E i \in M : stack[t][i].key = k
            /\ \A i, j \in M : stack[t][i].key = stack[t][j].key => i = j
        BY <2>4, <2>5 DEF Holds
      <3> HIDE DEF N, M
      <3>3. \A k \in Keys : lock'[k] = t <=> \E i \in N : stack[t][i].key = k
        BY <2>2, <2>5, <2>7, <2>8, <3>1, <3>2 DEF N
      <3>4. /\ \A k \in Keys : lock'[k] = t <=> \E i \in N : stack'[t][i].key = k
            /\ \A i, j \in N : stack'[t][i].key = stack'[t][j].key => i = j
        BY <3>1, <3>2, <3>3
      <3>5. Inside(t)' = N
        BY <2>4 DEF N
      <3>6. QED
        BY <3>4, <3>5 DEF Holds
    <2>10. ASSUME NEW u \in Calls, u # t PROVE Holds(u)'
      <3>1. \A k \in Keys : lock'[k] = u <=> lock[k] = u
        BY <2>6, <2>7, <2>10, ChainAssumption
      <3>2. QED
        BY <2>1, <2>3, <2>10, <3>1, HoldsKept DEF LocksInv
    <2>11. QED
      BY <2>9, <2>10 DEF LocksInv
  <1>6. ASSUME NEW t \in Calls, Fail(t) \/ Cancel(t)
        PROVE  LocksInv'
    BY <1>6, UnwindHolds DEF Fail, Cancel
  <1>7. ASSUME NEW k \in Keys, Drop(k)
        PROVE  LocksInv'
    <2>1. \A t \in Calls :
            /\ Len(stack'[t]) = Len(stack[t])
            /\ \A i \in 1..Len(stack[t]) : stack'[t][i].key = stack[t][i].key
      BY <1>7, Dropped
    <2>2. UNCHANGED <<lock, waiting>>
      BY <1>7 DEF Drop
    <2>3. ASSUME NEW t \in Calls PROVE Holds(t)'
      <3>1. Len(stack[t]) \in Nat
        BY LenProperties DEF TypeOK
      <3>2. Inside(t)' = Inside(t) /\ Inside(t) \subseteq 1..Len(stack[t])
        BY <2>1, <2>2, <3>1 DEF Inside
      <3>3. QED
        BY <2>1, <2>2, <3>2, SameHolds DEF LocksInv
    <2>4. QED
      BY <2>3 DEF LocksInv
  <1>8. LoadHosts \/ UNCHANGED vars => LocksInv'
    BY DEF LoadHosts, vars, LocksInv, Holds, Inside
  <1>9. ASSUME NEW file \in Rewrites, HostReload(file)
        PROVE  LocksInv'
    BY <1>9 DEF HostReload, LocksInv, Holds, Inside
  <1>10. QED
    BY <1>1, <1>2, <1>3, <1>4, <1>5, <1>6, <1>7, <1>8, <1>9 DEF Next, Step

-----------------------------------------------------------------------------
(* Routes *)

\* Of an open that stays where it is only the tunnel may change, to Down.
LEMMA SameRoute ==
  ASSUME UNCHANGED <<hosts, keyOf>>, NEW t \in Calls, NEW i \in 1..Depth(t), RoutedAt(t, i),
         i = Depth(t) <=> i = Len(stack'[t]),
         stack'[t][i].key = stack[t][i].key, stack'[t][i].hops = stack[t][i].hops,
         stack'[t][i].tunnel \in {stack[t][i].tunnel, Down},
         i # Depth(t) => stack'[t][i + 1].key = stack[t][i + 1].key
  PROVE  RoutedAt(t, i)'
  <1>1. PICK n \in Names :
          /\ Follows(n, stack[t][i])
          /\ IF i = Depth(t) THEN HoldsTunnel(n, stack[t][i])
             ELSE /\ Taken(n, stack[t][i]) >= 1
                  /\ stack[t][i + 1].key = keyOf[hosts[n][Taken(n, stack[t][i])]]
    BY DEF RoutedAt
  <1>2. Taken(n, stack[t][i])' = Taken(n, stack[t][i])
    BY DEF Taken
  <1>3. Follows(n, stack[t][i])'
    BY <1>1, <1>2 DEF Follows, Taken, Defined
  <1>4. i = Depth(t) => HoldsTunnel(n, stack[t][i])'
    BY <1>1, <1>2 DEF HoldsTunnel
  <1>5. i # Depth(t) => /\ Taken(n, stack[t][i])' >= 1
                       /\ stack'[t][i + 1].key = keyOf'[hosts'[n][Taken(n, stack[t][i])']]
    BY <1>1, <1>2
  <1>6. Depth(t)' = Len(stack'[t])
    BY DEF Depth
  <1>7. QED
    BY <1>1, <1>3, <1>4, <1>5, <1>6 DEF RoutedAt

LEMMA RoutesKept ==
  ASSUME UNCHANGED <<hosts, keyOf>>, NEW t \in Calls, Routed(t), Descends(t), stack'[t] = stack[t]
  PROVE  Routed(t)' /\ Descends(t)'
  <1>1. Depth(t)' = Depth(t) /\ Len(stack'[t]) = Depth(t)
    BY DEF Depth
  <1>2. \A i \in 1..Depth(t) : RoutedAt(t, i)'
    BY <1>1, SameRoute DEF Routed
  <1>3. Routed(t)'
    BY <1>1, <1>2 DEF Routed
  <1>4. Descends(t)'
    BY <1>1 DEF Descends, Ordered, Defined
  <1>5. QED
    BY <1>3, <1>4

\* The chain of a defined alias.
LEMMA HostChain ==
  ASSUME TypeOK, NEW n \in Names, Defined(hosts, n)
  PROVE  /\ hosts[n] \in Chains /\ hosts[n] \in Seq(Names) /\ Len(hosts[n]) \in Nat
         /\ \A j \in 1..Len(hosts[n]) : hosts[n][j] \in Range(hosts[n])
  <1>1. hosts[n] \in Chains
    BY DEF TypeOK, Files, Defined
  <1>2. hosts[n] \in Seq(Names)
    BY <1>1, ChainIsSeq
  <1>3. DOMAIN hosts[n] = 1..Len(hosts[n]) /\ Len(hosts[n]) \in Nat
    BY <1>2, LenProperties
  <1>4. QED
    BY <1>1, <1>2, <1>3 DEF Range

\* An open starts with the whole chain before it.
LEMMA OpenedRoute ==
  ASSUME TypeOK, NEW n \in Names, Defined(hosts, n)
  PROVE  Follows(n, Open(n)) /\ HoldsTunnel(n, Open(n))
  <1>1. Len(hosts[n]) \in Nat
    BY HostChain
  <1>2. Open(n).hops = hosts[n] /\ Open(n).key = keyOf[n] /\ Open(n).tunnel = Direct
    BY DEF Open
  <1>3. Taken(n, Open(n)) = 0
    BY <1>1, <1>2 DEF Taken
  <1>4. QED
    BY <1>1, <1>2, <1>3 DEF Follows, HoldsTunnel

LEMMA ReturnedRoutes ==
  ASSUME TypeOK, UNCHANGED <<hosts, keyOf>>, NEW t \in Calls, stack[t] # <<>>, Return(t),
         Routed(t), Descends(t)
  PROVE  Routed(t)' /\ Descends(t)'
  <1>1. PICK n \in Nat \ {0} : n = Len(stack[t]) /\ Top(t) = stack[t][n]
    BY TopFrame
  <1>2. /\ Len(stack'[t]) = n - 1
        /\ \A i \in 1..n - 1 :
             /\ stack'[t][i].key = stack[t][i].key /\ stack'[t][i].hops = stack[t][i].hops
             /\ stack'[t][i].tunnel = IF i = n - 1 THEN Top(t).key ELSE stack[t][i].tunnel
    BY <1>1, Returned
  <1>3. Depth(t) = n /\ Depth(t)' = n - 1
    BY <1>1, <1>2 DEF Depth
  <1>4. ASSUME NEW i \in 1..n - 1, i # n - 1 PROVE RoutedAt(t, i)'
    <2>1. i \in 1..Depth(t) /\ i # Depth(t) /\ i # Len(stack'[t]) /\ i + 1 \in 1..n - 1
      BY <1>2, <1>3, <1>4
    <2>2. /\ RoutedAt(t, i) /\ stack'[t][i + 1].key = stack[t][i + 1].key
          /\ stack'[t][i].tunnel = stack[t][i].tunnel
      BY <1>2, <1>4, <2>1 DEF Routed
    <2>3. QED
      BY <1>2, <2>1, <2>2, SameRoute
  <1>5. ASSUME n - 1 \in 1..n - 1 PROVE RoutedAt(t, n - 1)'
    <2> DEFINE i == n - 1
    <2>1. RoutedAt(t, i) /\ i # Depth(t)
      BY <1>1, <1>3, <1>5 DEF Routed
    <2>2. PICK m \in Names :
            /\ Follows(m, stack[t][i]) /\ Taken(m, stack[t][i]) >= 1
            /\ stack[t][i + 1].key = keyOf[hosts[m][Taken(m, stack[t][i])]]
      BY <2>1 DEF RoutedAt
    <2>3. Taken(m, stack[t][i])' = Taken(m, stack[t][i]) /\ Taken(m, stack[t][i]) # 0
      <3>1. stack'[t][i].hops = stack[t][i].hops
        BY <1>2, <1>5
      <3>2. Taken(m, stack[t][i])' = Taken(m, stack[t][i])
        BY <3>1 DEF Taken
      <3>3. QED
        BY <2>2, <3>2
    <2>4. Follows(m, stack[t][i])'
      BY <1>2, <1>5, <2>2, <2>3 DEF Follows, Taken, Defined
    <2>5. stack'[t][i].tunnel = keyOf[hosts[m][Taken(m, stack[t][i])]]
      BY <1>1, <1>2, <1>5, <2>2
    <2>6. HoldsTunnel(m, stack[t][i])'
      BY <2>3, <2>5 DEF HoldsTunnel
    <2>7. i = Depth(t)'
      BY <1>3
    <2>8. QED
      BY <2>4, <2>6, <2>7 DEF RoutedAt
  <1>6. Routed(t)'
    BY <1>3, <1>4, <1>5 DEF Routed
  <1>7. Descends(t)'
    <2>1. \A i, j \in 1..n - 1 : i \in 1..n /\ j \in 1..n
      OBVIOUS
    <2>2. \A i \in 1..n - 1 : stack'[t][i].key = stack[t][i].key
      BY <1>2
    <2> SUFFICES ASSUME NEW rank \in [Keys -> 0..Cardinality(Keys)], Ordered(hosts, rank)
                 PROVE  \A i, j \in 1..n - 1 :
                          i < j => rank[stack'[t][j].key] < rank[stack'[t][i].key]
      BY <1>3 DEF Descends, Ordered, Defined
    <2>3. \A i, j \in 1..n : i < j => rank[stack[t][j].key] < rank[stack[t][i].key]
      BY <1>3 DEF Descends
    <2>4. QED
      BY <2>1, <2>2, <2>3
  <1>8. QED
    BY <1>6, <1>7

LEMMA NestedRoutes ==
  ASSUME TypeOK, UNCHANGED <<hosts, keyOf>>, NEW t \in Calls, NextHop(t), Routed(t), Descends(t)
  PROVE  Routed(t)' /\ Descends(t)'
  <1>0. PICK f \in Frames : f = Top(t)
    BY TopFrame DEF NextHop
  <1>1. PICK n \in Nat \ {0} :
          /\ n = Len(stack[t]) /\ f = stack[t][n] /\ f.hops # <<>>
          /\ \A i \in 1..n : stack[t][i].key \in Keys
    BY <1>0, TopFrame DEF NextHop, Frames
  <1> DEFINE hop == Head(f.hops)
  <1>2. /\ Len(stack'[t]) = n + 1
        /\ \A i \in 1..n - 1 : stack'[t][i] = stack[t][i]
        /\ stack'[t][n].key = f.key /\ stack'[t][n].hops = Tail(f.hops)
        /\ stack'[t][n + 1] = Open(hop)
        /\ hop \in Names /\ Defined(hosts, hop)
    BY <1>0, <1>1, Nested
  <1>3. Depth(t) = n /\ Depth(t)' = n + 1
    BY <1>1, <1>2 DEF Depth
  <1>4. PICK m \in Names : Follows(m, f)
    BY <1>1, <1>3 DEF Routed, RoutedAt
  <1>5. /\ Len(hosts[m]) \in Nat /\ Defined(hosts, m)
        /\ \A j \in 1..Len(hosts[m]) : hosts[m][j] \in Range(hosts[m])
    BY <1>4, HostChain DEF Follows
  <1>6. /\ Len(f.hops) \in Nat \ {0} /\ Len(Tail(f.hops)) = Len(f.hops) - 1
        /\ \A j \in 1..Len(Tail(f.hops)) : Tail(f.hops)[j] = f.hops[j + 1]
        /\ hop = f.hops[1]
    BY <1>1, ChainTail DEF Frames
  <1>7. /\ Taken(m, f) + 1 \in 1..Len(hosts[m]) /\ hop = hosts[m][Taken(m, f) + 1]
        /\ Taken(m, f) \in Nat
    <2>1. Len(f.hops) <= Len(hosts[m]) /\ 1 \in 1..Len(f.hops)
      BY <1>4, <1>6 DEF Follows
    <2>2. f.hops[1] = hosts[m][Taken(m, f) + 1]
      BY <1>4, <2>1 DEF Follows
    <2>3. Taken(m, f) + 1 \in 1..Len(hosts[m]) /\ Taken(m, f) \in Nat
      <3>1. Len(hosts[m]) \in Nat /\ Len(f.hops) \in Nat \ {0}
        BY <1>5, <1>6
      <3>2. \A a, b \in Nat : b # 0 /\ b <= a => a - b + 1 \in 1..a /\ a - b \in Nat
        OBVIOUS
      <3>3. QED
        BY <2>1, <3>1, <3>2 DEF Taken
    <2>4. QED
      BY <1>6, <2>2, <2>3
  <1>8. Taken(m, stack[t][n])' = Taken(m, f) + 1
    <2>1. Len(stack'[t][n].hops) = Len(f.hops) - 1
      BY <1>2, <1>6
    <2>2. Len(hosts[m]) \in Nat /\ Len(f.hops) \in Nat
      BY <1>5, <1>6
    <2>3. QED
      BY <2>1, <2>2 DEF Taken
  <1>9. RoutedAt(t, n)'
    <2>1. Follows(m, stack[t][n])'
      <3>1. Defined(hosts, m)' /\ keyOf'[m] = stack'[t][n].key
        BY <1>2, <1>4 DEF Follows, Defined
      <3>2. Len(stack'[t][n].hops) <= Len(hosts[m])
        BY <1>2, <1>4, <1>5, <1>6 DEF Follows
      <3>3. ASSUME NEW j \in 1..Len(stack'[t][n].hops)
            PROVE  stack'[t][n].hops[j] = hosts[m][Taken(m, f) + 1 + j]
        <4>1. j + 1 \in 1..Len(f.hops) /\ stack'[t][n].hops[j] = f.hops[j + 1]
          BY <1>2, <1>6, <3>3
        <4>2. f.hops[j + 1] = hosts[m][Taken(m, f) + (j + 1)]
          BY <1>4, <4>1 DEF Follows
        <4>3. j \in Int /\ Taken(m, f) \in Int
          BY <1>7, <3>3
        <4>4. Taken(m, f) + (j + 1) = Taken(m, f) + 1 + j
          BY <4>3
        <4>5. QED
          BY <4>1, <4>2, <4>4
      <3>4. QED
        BY <1>8, <3>1, <3>2, <3>3 DEF Follows
    <2>2. stack'[t][n + 1].key = keyOf[hosts[m][Taken(m, f) + 1]]
      BY <1>2, <1>7 DEF Open
    <2>3. n # Depth(t)' /\ Taken(m, f) + 1 >= 1
      BY <1>1, <1>3, <1>7
    <2>4. QED
      BY <1>8, <2>1, <2>2, <2>3 DEF RoutedAt
  <1>10. RoutedAt(t, n + 1)'
    <2>1. Follows(hop, Open(hop)) /\ HoldsTunnel(hop, Open(hop))
      BY <1>2, OpenedRoute
    <2>2. Follows(hop, stack[t][n + 1])' /\ HoldsTunnel(hop, stack[t][n + 1])'
      BY <1>2, <2>1 DEF Follows, HoldsTunnel, Taken, Defined
    <2>3. QED
      BY <1>2, <1>3, <2>2 DEF RoutedAt
  <1>11. ASSUME NEW i \in 1..n - 1 PROVE RoutedAt(t, i)'
    <2>1. i \in 1..Depth(t) /\ i # Depth(t) /\ i # Len(stack'[t])
      BY <1>1, <1>2, <1>3
    <2>2. stack'[t][i + 1].key = stack[t][i + 1].key
      <3>1. i + 1 \in 1..n - 1 \/ i + 1 = n
        BY <1>1
      <3>2. QED
        BY <1>1, <1>2, <3>1
    <2>3. QED
      BY <1>2, <2>1, <2>2, SameRoute DEF Routed
  <1>12. Routed(t)'
    BY <1>1, <1>3, <1>9, <1>10, <1>11 DEF Routed
  <1>13. Descends(t)'
    <2> SUFFICES ASSUME NEW rank \in [Keys -> 0..Cardinality(Keys)], Ordered(hosts, rank),
                        NEW i \in 1..n + 1, NEW j \in 1..n + 1, i < j
                 PROVE  rank[stack'[t][j].key] < rank[stack'[t][i].key]
      BY <1>3 DEF Descends, Ordered, Defined
    <2>1. ASSUME NEW l \in 1..n PROVE stack'[t][l].key = stack[t][l].key
      <3>1. l \in 1..n - 1 \/ l = n
        BY <1>1
      <3>2. QED
        BY <1>1, <1>2, <3>1
    <2>2. \A l \in 1..n : rank[stack[t][l].key] \in Int
      BY <1>1
    <2>3. CASE j \in 1..n
      <3>1. i \in 1..n
        BY <1>1, <2>3
      <3>2. rank[stack[t][j].key] < rank[stack[t][i].key]
        BY <1>3, <2>3, <3>1 DEF Descends
      <3>3. QED
        BY <2>1, <2>3, <3>1, <3>2
    <2>4. CASE j = n + 1
      <3>1. rank[keyOf[hop]] < rank[keyOf[m]] /\ keyOf[m] = f.key
        BY <1>4, <1>5, <1>7 DEF Ordered, Follows
      <3>2. keyOf[hop] \in Keys
        <4>1. keyOf \in [Names -> Keys]
          BY ChainAssumption DEF TypeOK
        <4>2. QED
          BY <1>2, <4>1
      <3>3. i \in 1..n /\ (i = n \/ rank[stack[t][n].key] < rank[stack[t][i].key])
        BY <1>1, <1>3, <2>4 DEF Descends
      <3>4. stack'[t][j].key = keyOf[hop] /\ stack[t][n].key = f.key
        BY <1>1, <1>2, <2>4 DEF Open
      <3>5. rank[keyOf[hop]] \in Int
        BY <3>2
      <3>6. n \in 1..n
        BY <1>1
      <3>7. QED
        BY <2>1, <2>2, <3>1, <3>3, <3>4, <3>5, <3>6
    <2>5. QED
      BY <1>1, <2>3, <2>4
  <1>14. QED
    BY <1>12, <1>13

\* Connect stores the route of the alias whose key it is, if it is the only one.
LEMMA ConnectedVia ==
  ASSUME TypeOK, ViaRoute, NEW t \in Calls, Connect(t), Routed(t)
  PROVE  ViaRoute'
  <1>1. PICK f \in Frames : f = Top(t) /\ f.key \in Keys
    BY TopFrame DEF Connect
  <1>2. PICK i \in Nat \ {0} : i = Len(stack[t]) /\ f = stack[t][i]
    BY <1>1, TopFrame DEF Connect
  <1>3. PICK m \in Names : Follows(m, f) /\ HoldsTunnel(m, f)
    BY <1>2 DEF Routed, RoutedAt, Depth
  <1>4. /\ f.hops = <<>> /\ f.tunnel # Down /\ UNCHANGED <<hosts, keyOf>>
        /\ via'[f.key] = f.tunnel /\ \A k \in Keys : k # f.key => via'[k] = via[k]
    BY <1>1 DEF Connect, TypeOK
  <1>5. Defined(hosts, m) /\ keyOf[m] = f.key /\ Len(hosts[m]) \in Nat /\ hosts[m] \in Seq(Names)
    BY <1>3, HostChain DEF Follows
  <1>6. Taken(m, f) = Len(hosts[m])
    BY <1>4, <1>5, EmptySeq DEF Taken
  <1>7. f.tunnel = IF hosts[m] = <<>> THEN Direct ELSE keyOf[Last(hosts[m])]
    BY <1>3, <1>4, <1>5, <1>6, EmptySeq DEF HoldsTunnel, Last
  <1>8. ASSUME NEW n \in Names, Defined(hosts, n), OwnKey(n), via'[keyOf[n]] # Down
        PROVE  via'[keyOf[n]] = IF hosts[n] = <<>> THEN Direct ELSE keyOf[Last(hosts[n])]
    <2>1. CASE keyOf[n] = f.key
      <3>1. n = m
        BY <1>5, <1>8, <2>1 DEF OwnKey
      <3>2. QED
        BY <1>4, <1>7, <2>1, <3>1
    <2>2. CASE keyOf[n] # f.key
      <3>1. keyOf[n] \in Keys
        BY ChainAssumption DEF TypeOK
      <3>2. via'[keyOf[n]] = via[keyOf[n]]
        BY <1>4, <2>2, <3>1
      <3>3. QED
        BY <1>8, <3>2 DEF ViaRoute, Up
    <2>3. QED
      BY <2>1, <2>2
  <1>9. QED
    BY <1>4, <1>8 DEF ViaRoute, OwnKey, Up, Defined

LEMMA RoutesStep ==
  ASSUME TypeOK, WaitersOpen, RoutesInv, [Next]_vars
  PROVE  RoutesInv'
  <1> SUFFICES ASSUME ~reloaded' PROVE ViaRoute' /\ \A t \in Calls : Routed(t)' /\ Descends(t)'
    BY DEF RoutesInv
  <1>1. ~reloaded /\ UNCHANGED <<hosts, keyOf>>
    BY DEF Next, Step, LoadHosts, HostReload, Acquire, Reuse, Lock, NextHop, Connect, Fail, Cancel,
           Unwind, Drop, vars
  <1>2. ViaRoute /\ \A t \in Calls : Routed(t) /\ Descends(t)
    BY <1>1 DEF RoutesInv
  <1>3. ASSUME via' = via PROVE ViaRoute'
    BY <1>1, <1>2, <1>3 DEF ViaRoute, OwnKey, Up, Defined
  <1>4. ASSUME NEW t \in Calls, \A u \in Calls : u # t => stack'[u] = stack[u],
               Routed(t)' /\ Descends(t)'
        PROVE  \A u \in Calls : Routed(u)' /\ Descends(u)'
    BY <1>1, <1>2, <1>4, RoutesKept
  <1>5. ASSUME NEW t \in Calls, NEW n \in Names, Acquire(t, n)
        PROVE  ViaRoute' /\ \A u \in Calls : Routed(u)' /\ Descends(u)'
    <2>1. /\ stack'[t] = <<Open(n)>> /\ \A u \in Calls : u # t => stack'[u] = stack[u]
          /\ via' = via /\ Defined(hosts, n)
      BY <1>5 DEF Acquire, TypeOK
    <2>2. Depth(t)' = 1 /\ stack'[t][1] = Open(n)
      BY <2>1 DEF Depth
    <2>3. Follows(n, stack[t][1])' /\ HoldsTunnel(n, stack[t][1])'
      <3>1. Follows(n, Open(n)) /\ HoldsTunnel(n, Open(n))
        BY <2>1, OpenedRoute
      <3>2. QED
        BY <1>1, <2>2, <3>1 DEF Follows, HoldsTunnel, Taken, Defined
    <2>4. Routed(t)'
      BY <2>2, <2>3 DEF Routed, RoutedAt
    <2>5. Descends(t)'
      BY <2>2 DEF Descends
    <2>6. QED
      BY <1>3, <1>4, <2>1, <2>4, <2>5
  <1>6. ASSUME NEW t \in Calls, Reuse(t)
        PROVE  ViaRoute' /\ \A u \in Calls : Routed(u)' /\ Descends(u)'
    <2>1. stack[t] # <<>> /\ Return(t) /\ via' = via
      BY <1>6 DEF Reuse, WaitersOpen
    <2>2. \A u \in Calls : u # t => stack'[u] = stack[u]
      BY <2>1, Returned
    <2>3. QED
      BY <1>1, <1>2, <1>3, <1>4, <2>1, <2>2, ReturnedRoutes
  <1>7. ASSUME NEW t \in Calls, NextHop(t)
        PROVE  ViaRoute' /\ \A u \in Calls : Routed(u)' /\ Descends(u)'
    <2>1. via' = via /\ \A u \in Calls : u # t => stack'[u] = stack[u]
      BY <1>7, Nested DEF NextHop
    <2>2. QED
      BY <1>1, <1>2, <1>3, <1>4, <1>7, <2>1, NestedRoutes
  <1>8. ASSUME NEW t \in Calls, Connect(t)
        PROVE  ViaRoute' /\ \A u \in Calls : Routed(u)' /\ Descends(u)'
    <2>1. stack[t] # <<>> /\ Return(t)
      BY <1>8 DEF Connect
    <2>2. \A u \in Calls : u # t => stack'[u] = stack[u]
      BY <2>1, Returned
    <2>3. ViaRoute'
      BY <1>2, <1>8, ConnectedVia
    <2>4. QED
      BY <1>1, <1>2, <1>4, <2>1, <2>2, <2>3, ReturnedRoutes
  <1>9. ASSUME NEW t \in Calls, Fail(t) \/ Cancel(t)
        PROVE  ViaRoute' /\ \A u \in Calls : Routed(u)' /\ Descends(u)'
    <2>1. /\ via' = via /\ stack'[t] = <<>>
          /\ \A u \in Calls : u # t => stack'[u] = stack[u]
      BY <1>9 DEF Fail, Cancel, Unwind, TypeOK
    <2>2. Depth(t)' = 0
      BY <2>1, EmptySeq DEF Depth
    <2>3. Routed(t)' /\ Descends(t)'
      BY <2>2 DEF Routed, Descends
    <2>4. QED
      BY <1>3, <1>4, <2>1, <2>3
  <1>10. ASSUME NEW k \in Keys, Drop(k)
         PROVE  ViaRoute' /\ \A u \in Calls : Routed(u)' /\ Descends(u)'
    <2>1. /\ \A j \in Keys : via'[j] \in {via[j], Down}
          /\ \A t \in Calls :
               /\ Len(stack'[t]) = Len(stack[t])
               /\ \A i \in 1..Len(stack[t]) :
                    /\ stack'[t][i].key = stack[t][i].key /\ stack'[t][i].hops = stack[t][i].hops
                    /\ stack'[t][i].tunnel \in {stack[t][i].tunnel, Down}
      BY <1>10, Dropped
    <2>2. ViaRoute'
      <3>1. \A n \in Names : keyOf[n] \in Keys
        BY ChainAssumption DEF TypeOK
      <3>2. \A n \in Names : via'[keyOf[n]] # Down => via'[keyOf[n]] = via[keyOf[n]]
        BY <2>1, <3>1
      <3>3. QED
        BY <1>1, <1>2, <3>2 DEF ViaRoute, OwnKey, Up, Defined
    <2>3. ASSUME NEW t \in Calls PROVE Routed(t)' /\ Descends(t)'
      <3>1. Depth(t)' = Depth(t) /\ Depth(t) = Len(stack[t]) /\ Len(stack[t]) \in Nat
        BY <2>1, LenProperties DEF Depth, TypeOK
      <3>2. ASSUME NEW i \in 1..Depth(t) PROVE RoutedAt(t, i)'
        <4>1. RoutedAt(t, i)
          BY <1>2 DEF Routed
        <4>2. i # Depth(t) => i + 1 \in 1..Len(stack[t])
          BY <3>1
        <4>3. i # Depth(t) => stack'[t][i + 1].key = stack[t][i + 1].key
          BY <2>1, <4>2
        <4>4. QED
          BY <1>1, <2>1, <3>1, <4>1, <4>3, SameRoute
      <3>3. Routed(t)'
        BY <3>1, <3>2 DEF Routed
      <3>4. Descends(t)'
        <4>1. \A rank : Ordered(hosts, rank)' => Ordered(hosts, rank)
          BY <1>1 DEF Ordered, Defined
        <4>2. \A i \in 1..Depth(t) : stack'[t][i].key = stack[t][i].key
          BY <2>1, <3>1
        <4>3. QED
          BY <1>2, <3>1, <4>1, <4>2 DEF Descends
      <3>5. QED
        BY <3>3, <3>4
    <2>4. QED
      BY <2>2, <2>3
  <1>11. ASSUME stack' = stack, via' = via
         PROVE  ViaRoute' /\ \A u \in Calls : Routed(u)' /\ Descends(u)'
    BY <1>1, <1>2, <1>3, <1>11, RoutesKept
  <1>12. LoadHosts \/ UNCHANGED vars \/ (\E t \in Calls : Lock(t)) => stack' = stack /\ via' = via
    BY DEF LoadHosts, Lock, vars
  <1>13. ~(\E file \in Rewrites : HostReload(file))
    BY DEF HostReload
  <1>14. QED
    BY <1>5, <1>6, <1>7, <1>8, <1>9, <1>10, <1>11, <1>12, <1>13 DEF Next, Step

-----------------------------------------------------------------------------
(* The theorems *)

LEMMA ProxyStep == ProxyInv /\ [Next]_vars => ProxyInv'
  BY ProxyTypeStep, LocksStep, RoutesStep DEF ProxyInv

LEMMA ProxyInvariant == Spec => []ProxyInv
  BY ProxyStart, ProxyStep, PTL DEF Spec

\* The values stay in their types: among them, no open is ever started for an
\* alias the registry does not define.
THEOREM ProxyTypeOK == Spec => []TypeOK
  <1>1. ProxyInv => TypeOK
    BY DEF ProxyInv
  <1>2. QED
    BY <1>1, ProxyInvariant, PTL

\* However nested opens end, a call holds the locks of the opens it is inside of
\* and no others (the async with blocks of acquire_policy).
THEOREM LocksAlwaysNested == Spec => []LocksNested
  <1>1. ASSUME ProxyInv PROVE LocksNested
    <2> SUFFICES ASSUME NEW t \in Calls
                 PROVE  {k \in Keys : lock[k] = t} = {stack[t][i].key : i \in Inside(t)}
      BY DEF LocksNested
    <2>1. Holds(t) /\ stack[t] \in Seq(Frames)
      BY <1>1 DEF ProxyInv, LocksInv, TypeOK
    <2>2. Inside(t) \subseteq 1..Len(stack[t])
      BY <2>1, LenProperties DEF Inside
    <2>3. \A i \in Inside(t) : stack[t][i].key \in Keys
      <3>1. \A i \in 1..Len(stack[t]) : stack[t][i] \in Frames
        BY <2>1, ElementOfSeq
      <3>2. QED
        BY <2>2, <3>1 DEF Frames
    <2>4. QED
      BY <2>1, <2>3 DEF Holds
  <1>2. QED
    BY <1>1, ProxyInvariant, PTL

\* Until hosts.toml is reloaded, a pooled connection runs through the last hop of
\* its host and through nothing else, whatever drops while it is opened.
THEOREM AlwaysThroughLastHop == Spec => []ThroughLastHop
  <1>1. ProxyInv => ThroughLastHop
    BY DEF ProxyInv, RoutesInv, ViaRoute, OwnKey, ThroughLastHop
  <1>2. QED
    BY <1>1, ProxyInvariant, PTL

\* A set of naturals that is not empty has a least element.
LEMMA LeastNatural ==
  ASSUME NEW S \in SUBSET Nat, S # {}
  PROVE  \E x \in S : \A y \in S : x <= y
  <1> DEFINE R == OpToRel(<, Nat)
  <1>1. PICK x \in S : \A y \in S : ~(<<y, x>> \in R)
    BY NatLessThanWellFounded, WFMin
  <1>2. \A y \in S : ~(y < x)
    BY <1>1 DEF OpToRel
  <1>3. QED
    BY <1>2

\* Where the jumps between keys have no cycle, calls never wait for one another
\* in a circle, however many open shared bastions at once: of the waiting calls,
\* the one whose key is lowest in the order waits for a call that is inside that
\* key and itself waits for a still lower one.
THEOREM AcyclicCallsNeverDeadlock == Spec => []AcyclicNeverDeadlocks
  <1>1. ASSUME ProxyInv, Acyclic(hosts), ~reloaded PROVE NoCircularWait
    <2> SUFFICES ASSUME NEW S \in SUBSET Calls, S # {}, Deadlocked(S)
                 PROVE  FALSE
      BY DEF NoCircularWait
    <2>1. PICK rank \in [Keys -> 0..Cardinality(Keys)] : Ordered(hosts, rank)
      BY <1>1 DEF Acyclic
    <2>2. ASSUME NEW t \in S
          PROVE  /\ Len(stack[t]) \in Nat \ {0} /\ Top(t) = stack[t][Len(stack[t])]
                 /\ Top(t).key \in Keys /\ waiting[t] /\ lock[Top(t).key] \in S
      BY <1>1, TopFrame DEF ProxyInv, WaitersOpen, Deadlocked
    <2> DEFINE ranks == {rank[Top(t).key] : t \in S}
    <2>3. ranks \in SUBSET Nat /\ ranks # {}
      <3>1. \A k \in Keys : rank[k] \in Nat
        BY FS_CardinalityType, ChainAssumption
      <3>2. QED
        BY <2>2, <3>1
    <2>4. PICK t \in S : \A u \in S : rank[Top(t).key] <= rank[Top(u).key]
      <3>1. PICK x \in ranks : \A y \in ranks : x <= y
        BY <2>3, LeastNatural
      <3>2. QED
        BY <3>1
    <2>5. PICK u \in S : u = lock[Top(t).key]
      BY <2>2
    <2>6. PICK i \in Inside(u) : stack[u][i].key = Top(t).key
      <3>1. Holds(u) /\ Top(t).key \in Keys /\ lock[Top(t).key] = u
        BY <1>1, <2>2, <2>5 DEF ProxyInv, LocksInv
      <3>2. QED
        BY <3>1 DEF Holds
    <2>7. i \in 1..Len(stack[u]) /\ i < Len(stack[u]) /\ Len(stack[u]) \in 1..Len(stack[u])
      BY <2>2, <2>6 DEF Inside
    <2>8. rank[stack[u][Len(stack[u])].key] < rank[stack[u][i].key]
      BY <1>1, <2>1, <2>7 DEF ProxyInv, RoutesInv, Descends, Depth
    <2>9. rank[Top(u).key] < rank[Top(t).key]
      BY <2>2, <2>6, <2>8
    <2>10. rank[Top(u).key] \in Nat /\ rank[Top(t).key] \in Nat
      BY <2>3
    <2>11. QED
      BY <2>4, <2>9, <2>10
  <1>2. ProxyInv => AcyclicNeverDeadlocks
    BY <1>1 DEF AcyclicNeverDeadlocks
  <1>3. QED
    BY <1>2, ProxyInvariant, PTL

===============================================================================
