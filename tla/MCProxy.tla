------------------------------- MODULE MCProxy --------------------------------
(* Instances of ProxyChain for TLC.                                           *)
EXTENDS ProxyChain

\* Every alias its own host; the same, or two aliases of one host.
OwnKeys == {CHOOSE f \in [Names -> Keys] : IsInjective(f)}
OwnOrSharedKeys == OwnKeys \cup {CHOOSE f \in [Names -> Keys] : Cardinality(Range(f)) = 2}

\* hosts.toml after an edit: one host is reached through another and the third
\* is gone.  Which ones makes no difference, since hosts.toml starts as any file.
OneJump == {CHOOSE file \in [Names -> {<<>>, Absent} \cup {<<h>> : h \in Names}] :
              \E m \in Names : /\ file[m] = <<>>
                              /\ <<m>> \in Range(file)
                              /\ Absent \in Range(file)}
NoRewrite == {}
===============================================================================
