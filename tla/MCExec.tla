-------------------------------- MODULE MCExec --------------------------------
(* Instances of RemoteExec for TLC.                                           *)
EXTENDS RemoteExec

\* Commands by what pkill makes of them: "ls" and "ls -l" contain the pattern
\* "ls", and an alternative of "a || b" is empty, which matches everything.
Lines == {"ls", "ls -l", "a || b"}
OneLine == {"ls"}
Self == {<<"ls", "ls">>}

Finds == {<<c, d>> \in Lines \X Lines : \/ c = d
                                        \/ c = "ls" /\ d = "ls -l"
                                        \/ c = "a || b"}
===============================================================================
