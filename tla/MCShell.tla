------------------------------- MODULE MCShell --------------------------------
(* Instances of ShellSessions for TLC.                                        *)
EXTENDS ShellSessions

\* Every wrapped command, read as a regular expression, matches every process:
\* the alternative between the bars of `cd X || cd ~` is empty.
Wrapped == {"cd || cd"}
Everything == Wrapped \X Wrapped

\* /home/app10 without its last character is /home/app1, the home directory.
Folders == {"app1", "app10"}
Shortened == [d \in Folders |-> "app1"]
===============================================================================
