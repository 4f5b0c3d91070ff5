------------------------------- MODULE MCPool -------------------------------
(* Instances of ConnectionPool for TLC: symmetric identities, and a view     *)
(* that hides the fields of entries nobody can reach any more.               *)
EXTENDS ConnectionPool, TLC

Identities == Permutations(Tasks) \cup Permutations(Entries) \cup Permutations(Conns)

Reachable ==
  << entries,
     [e \in Entries |-> IF Held(e) THEN <<conn[e], sftp[e], idle[e], lock[e]>>
                                   ELSE <<>>],
     status, [c \in Conns |-> IF ~Forgotten(c) THEN <<peer[c]>> ELSE <<>>],
     clients, running,
     [t \in Tasks |-> IF pc[t] # "idle" THEN <<pc[t], want[t], key[t], entry[t], got[t], tries[t]>>
                                        ELSE <<>>],
     rpc, todo, IF rpc = "drain" THEN <<rkey, rconn>> ELSE <<>>,
     weather, cpc, IF cpc = "drain" THEN <<ckey, cconn>> ELSE <<>> >>
=============================================================================
