------------------------------ MODULE ProxyChain ------------------------------
(***************************************************************************)
(* Bastion chains: hosts.py accepts or rejects the proxy_jump references   *)
(* of hosts.toml (_validate_proxy_chains), and connection.py opens a host  *)
(* through them (open_connection).                                         *)
(*                                                                         *)
(* Opening a host runs inside the lock of its pool entry, and every hop is *)
(* acquired from the same pool, under the lock of the hop's entry.  A call *)
(* is therefore a stack of nested opens, one lock held per open.  The      *)
(* registry may be reloaded while calls are under way (ssh_host_reload);   *)
(* a call keeps the policies it has already looked up.                     *)
(*                                                                         *)
(* Abstracted: entries (one lock and one connection per key, see           *)
(* ConnectionPool), authentication, host keys, the allow- and blocklists   *)
(* (each of these only adds a way to fail).                                *)
(***************************************************************************)
EXTENDS Naturals, FiniteSets, Sequences, Functions, SequencesExt

CONSTANTS
  Names,     \* aliases a hosts.toml may define
  Keys,      \* (user, hostname, port)
  KeyMaps,   \* the assignments of keys to aliases considered
  Calls,     \* tool calls in flight together
  MaxHops,   \* bound: the longest proxy_jump list
  Rewrites,  \* what hosts.toml may be rewritten to before an ssh_host_reload
  Absent,    \* an alias hosts.toml does not define
  Direct, Down, Nobody

ASSUME ChainAssumption ==
  /\ IsFiniteSet(Keys)
  /\ KeyMaps \subseteq [Names -> Keys]
  /\ MaxHops \in Nat
  /\ Direct \notin Keys /\ Down \notin Keys /\ Direct # Down
  /\ Nobody \notin Calls

Chains == SeqOf(Names, MaxHops)

ASSUME AbsentAssumption == Absent \notin Chains

\* The contents hosts.toml may have: the proxy_chain() of every defined alias.
Files == [Names -> Chains \cup {Absent}]

ASSUME RewritesAssumption == Rewrites \subseteq Files

VARIABLES
  phase,    \* "startup", "serving", or "refused" (HostsConfigError)
  hosts,    \* the live registry
  keyOf,    \* the pool key of each alias (never changes)
  via,      \* via[k]: what the pooled connection of k runs through
  lock,     \* the call that holds the lock of k's entry
  stack,    \* the nested opens of a call, outermost first
  waiting,  \* the innermost open of the call queues for its lock
  reloaded  \* history: the registry has been swapped since startup

vars == <<phase, hosts, keyOf, via, lock, stack, waiting, reloaded>>

Defined(file, n) == file[n] # Absent

\* An open under way: the policy's key and remaining hops, and the tunnel (the
\* key of the last hop acquired, Down when that connection has died since).
Frames == [key : Keys, hops : Chains, tunnel : Keys \cup {Direct, Down}]

TypeOK ==
  /\ phase \in {"startup", "serving", "refused"}
  /\ hosts \in Files
  /\ keyOf \in KeyMaps
  /\ via \in [Keys -> Keys \cup {Direct, Down}]
  /\ lock \in [Keys -> Calls \cup {Nobody}]
  /\ stack \in [Calls -> Seq(Frames)]
  /\ waiting \in [Calls -> BOOLEAN]
  /\ reloaded \in BOOLEAN

Init ==
  /\ phase = "startup"
  /\ hosts \in Files
  /\ keyOf \in KeyMaps
  /\ via = [k \in Keys |-> Down]
  /\ lock = [k \in Keys |-> Nobody]
  /\ stack = [t \in Calls |-> <<>>]
  /\ waiting = [t \in Calls |-> FALSE]
  /\ reloaded = FALSE

-----------------------------------------------------------------------------
(* hosts.py *)

\* What the validation of n walks over: n, and each hop followed by the hop's
\* own chain, one level deep.
Walk(file, n) ==
  <<n>> \o FlattenSeq([i \in DOMAIN file[n] |-> <<file[n][i]>> \o file[file[n][i]]])

\* _validate_proxy_chains raises nothing: hops are defined, no name is met twice.
Accepted(file) ==
  \A n \in Names : Defined(file, n) /\ file[n] # <<>> =>
    /\ \A h \in Range(file[n]) : Defined(file, h)
    /\ IsInjective(Walk(file, n))

\* load_hosts at startup: serve, or abort with HostsConfigError.
LoadHosts ==
  /\ phase = "startup"
  /\ phase' = IF Accepted(hosts) THEN "serving" ELSE "refused"
  /\ UNCHANGED <<hosts, keyOf, via, lock, stack, waiting, reloaded>>

\* ssh_host_reload: validate, then swap; pooled connections are kept.
HostReload(file) ==
  /\ phase = "serving" /\ Accepted(file)
  /\ hosts' = file /\ reloaded' = TRUE
  /\ UNCHANGED <<phase, keyOf, via, lock, stack, waiting>>

-----------------------------------------------------------------------------
(* acquire_policy and open_connection *)

Top(t) == stack[t][Len(stack[t])]

\* A connection is usable.
Up(k) == via[k] # Down

\* acquire_policy(policy of n): queue for the entry's lock.
Open(n) == [key |-> keyOf[n], hops |-> hosts[n], tunnel |-> Direct]

Acquire(t, n) ==
  /\ phase = "serving" /\ stack[t] = <<>> /\ Defined(hosts, n)
  /\ stack' = [stack EXCEPT ![t] = <<Open(n)>>]
  /\ waiting' = [waiting EXCEPT ![t] = TRUE]
  /\ UNCHANGED <<phase, hosts, keyOf, via, lock, reloaded>>

\* The innermost open returns its connection: the tool call goes on with it, or
\* the enclosing open takes it for its tunnel.
Return(t) ==
  LET below == Front(stack[t]) IN
  stack' = [stack EXCEPT ![t] =
              IF below = <<>> THEN below
              ELSE [below EXCEPT ![Len(below)].tunnel = Top(t).key]]

\* The lock is free and the connection alive: reuse it and release the lock.
Reuse(t) ==
  /\ waiting[t] /\ lock[Top(t).key] = Nobody /\ Up(Top(t).key)
  /\ Return(t)
  /\ waiting' = [waiting EXCEPT ![t] = FALSE]
  /\ UNCHANGED <<phase, hosts, keyOf, via, lock, reloaded>>

\* The lock is free and there is no live connection: open one, lock held.
Lock(t) ==
  /\ waiting[t] /\ lock[Top(t).key] = Nobody /\ ~Up(Top(t).key)
  /\ lock' = [lock EXCEPT ![Top(t).key] = t]
  /\ waiting' = [waiting EXCEPT ![t] = FALSE]
  /\ UNCHANGED <<phase, hosts, keyOf, via, stack, reloaded>>

\* The innermost open of t with its next hop taken from the list.
HopTaken(t) == [stack[t] EXCEPT ![Len(stack[t])].hops = Tail(@)]

\* Mutant: the hop is not checked against the registry.
NextHopUnchecked(t) ==
  /\ stack[t] # <<>> /\ ~waiting[t] /\ Top(t).hops # <<>>
  /\ stack' = [stack EXCEPT ![t] = Append(HopTaken(t), Open(Head(Top(t).hops)))]
  /\ waiting' = [waiting EXCEPT ![t] = TRUE]
  /\ UNCHANGED <<phase, hosts, keyOf, via, lock, reloaded>>

\* The next hop, looked up in the registry as it is now.
NextHop(t) ==
  /\ stack[t] # <<>> /\ ~waiting[t] /\ Top(t).hops # <<>>
  /\ LET hop == Head(Top(t).hops) IN
     /\ Defined(hosts, hop)
     /\ stack' = [stack EXCEPT ![t] = Append(HopTaken(t), Open(hop))]
  /\ waiting' = [waiting EXCEPT ![t] = TRUE]
  /\ UNCHANGED <<phase, hosts, keyOf, via, lock, reloaded>>

\* Mutant: a dead tunnel is ignored and the host connected to directly.
ConnectAnyway(t) ==
  /\ stack[t] # <<>> /\ ~waiting[t] /\ Top(t).hops = <<>>
  /\ via' = [via EXCEPT ![Top(t).key] =
                IF Top(t).tunnel = Down THEN Direct ELSE Top(t).tunnel]
  /\ lock' = [lock EXCEPT ![Top(t).key] = Nobody]
  /\ Return(t)
  /\ UNCHANGED <<phase, hosts, keyOf, waiting, reloaded>>

\* _open_single succeeds: directly, or through a tunnel that is still alive.
Connect(t) ==
  /\ stack[t] # <<>> /\ ~waiting[t] /\ Top(t).hops = <<>>
  /\ Top(t).tunnel # Down
  /\ via' = [via EXCEPT ![Top(t).key] = Top(t).tunnel]
  /\ lock' = [lock EXCEPT ![Top(t).key] = Nobody]
  /\ Return(t)
  /\ UNCHANGED <<phase, hosts, keyOf, waiting, reloaded>>

\* Mutant: only the innermost lock is released.
UnwindInnermost(t) ==
  /\ lock' = [lock EXCEPT ![Top(t).key] = IF @ = t THEN Nobody ELSE @]
  /\ stack' = [stack EXCEPT ![t] = <<>>]
  /\ waiting' = [waiting EXCEPT ![t] = FALSE]
  /\ UNCHANGED <<phase, hosts, keyOf, via, reloaded>>

\* An exception leaves every `async with entry.lock` the call is in.
Unwind(t) ==
  /\ lock' = [k \in Keys |-> IF lock[k] = t THEN Nobody ELSE lock[k]]
  /\ stack' = [stack EXCEPT ![t] = <<>>]
  /\ waiting' = [waiting EXCEPT ![t] = FALSE]
  /\ UNCHANGED <<phase, hosts, keyOf, via, reloaded>>

\* _open_single raises (it has SSH_CONNECT_TIMEOUT), or the hop is no longer in
\* the registry.
Fail(t) ==
  /\ stack[t] # <<>> /\ ~waiting[t]
  /\ Top(t).hops # <<>> => ~Defined(hosts, Head(Top(t).hops))
  /\ Unwind(t)

\* The client cancels a call that waits for a lock.
Cancel(t) == waiting[t] /\ Unwind(t)

\* A connection is lost, and with it what is tunnelled through it (external).
\* An open that holds one of them as its tunnel holds a dead one.
Carried(k) ==
  LET grow[i \in 0..Cardinality(Keys)] ==
        IF i = 0 THEN {k} ELSE grow[i - 1] \cup {j \in Keys : via[j] \in grow[i - 1]}
  IN grow[Cardinality(Keys)]

Drop(k) ==
  /\ Up(k)
  /\ via' = [j \in Keys |-> IF j \in Carried(k) THEN Down ELSE via[j]]
  /\ stack' = [t \in Calls |-> [i \in DOMAIN stack[t] |->
                 [stack[t][i] EXCEPT !.tunnel = IF @ \in Carried(k) THEN Down ELSE @]]]
  /\ UNCHANGED <<phase, hosts, keyOf, lock, waiting, reloaded>>

-----------------------------------------------------------------------------
Step(t) == Reuse(t) \/ Lock(t) \/ NextHop(t) \/ Connect(t) \/ Fail(t)

Next ==
  \/ LoadHosts
  \/ \E file \in Rewrites : HostReload(file)
  \/ \E t \in Calls : \/ \E n \in Names : Acquire(t, n)
                      \/ Step(t)
                      \/ Cancel(t)
  \/ \E k \in Keys : Drop(k)

Spec == Init /\ [][Next]_vars

\* Locks wake their waiters in order and connects time out; nobody has to
\* cancel a call or drop a connection.
FairSpec == Spec /\ \A t \in Calls : SF_vars(Step(t))

-----------------------------------------------------------------------------
(* Properties *)

\* The hosts can be ordered so that every hop comes before what it leads to.
Ordered(file, rank) ==
  \A n \in Names : Defined(file, n) =>
    \A h \in Range(file[n]) : rank[keyOf[h]] < rank[keyOf[n]]

Acyclic(file) == \E rank \in [Keys -> 0..Cardinality(Keys)] : Ordered(file, rank)

\* Every call of S waits for a lock that a call of S holds.
Deadlocked(S) == \A t \in S : waiting[t] /\ lock[Top(t).key] \in S

\* hosts.py promises "no cycles allowed": with the configurations it lets
\* through, calls never wait for one another in a circle.
NoCircularWait == \A S \in (SUBSET Calls) \ {{}} : ~Deadlocked(S)

\* They do not when the jumps between keys really have no cycle, however
\* many calls open shared bastions at once.  (A reload under running opens may
\* mix the jumps of two files, which are acyclic only one by one.)
AcyclicNeverDeadlocks == Acyclic(hosts) /\ ~reloaded => NoCircularWait

\* A host that is reached through a bastion is never connected to directly,
\* nor through another host than its last hop, also when its bastion drops and
\* is reopened while the host is being opened.  (Of two aliases of one key the
\* pool keeps the route of the one that connected first.)
ThroughLastHop ==
  \A n \in Names :
    /\ phase = "serving" /\ ~reloaded /\ Defined(hosts, n) /\ Up(keyOf[n])
    /\ \A m \in Names : keyOf[m] = keyOf[n] => m = n
    => via[keyOf[n]] = IF hosts[n] = <<>> THEN Direct ELSE keyOf[Last(hosts[n])]

\* The opens a call is inside of.
Inside(t) == 1..(IF waiting[t] THEN Len(stack[t]) - 1 ELSE Len(stack[t]))

\* Whatever way nested opens end (return, failed connect, a hop reloaded away,
\* cancellation), a call holds the lock of every open it is inside of and no
\* other.
LocksNested ==
  \A t \in Calls : {k \in Keys : lock[k] = t} = {stack[t][i].key : i \in Inside(t)}

\* Where the jumps are acyclic every acquire ends, with a connection or an error.
AcquireEnds ==
  \A t \in Calls : stack[t] # <<>> ~> stack[t] = <<>> \/ ~Acyclic(hosts) \/ reloaded
===============================================================================
