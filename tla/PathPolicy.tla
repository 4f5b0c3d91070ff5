------------------------------ MODULE PathPolicy ------------------------------
(***************************************************************************)
(* Which paths a tool may touch: services/path_policy.py (remote paths),   *)
(* services/redact_policy.py (the redact list and its bypass modes) and    *)
(* services/local_path_policy.py (paths on the MCP host).                  *)
(*                                                                         *)
(* A policy is what a host entry or the environment configures: roots and  *)
(* restricted paths as written (with ".."), globs as sequences of patterns *)
(* matched from the right.  Abstracted: control characters, UNC paths, the *)
(* spelling of separators; "**" in a glob is pathlib.match's: one name.    *)
(***************************************************************************)
EXTENDS RemoteFs

CONSTANTS
  Hosts,
  Windows,      \* the hosts with platform = "windows"
  Chrooted,     \* POSIX hosts whose SFTP subsystem sees another tree than the shell
  HostPolicy,   \* host -> policy from hosts.toml
  EnvPolicy,    \* policy from the SSH_* settings
  Casefold(_),  \* equal on names that differ in case only
  LocalRoots    \* SSH_LOCAL_TRANSFER_ROOTS

ASSUME PolicyAssumption == Windows \subseteq Hosts /\ Chrooted \subseteq Hosts \ Windows

Everything == [all |-> TRUE, path |-> <<>>]        \* the sentinel "*"
Root(path) == [all |-> FALSE, path |-> path]

\* posixpath.normpath, ntpath.normpath of an absolute path
Normed(path) ==
  LET done[n \in 0..Len(path)] ==
        IF n = 0 THEN <<>>
        ELSE LET before == done[n - 1] IN
             IF path[n] # ".." THEN Append(before, path[n])
             ELSE IF before = <<>> THEN <<>> ELSE Front(before)
  IN done
Norm(path) == Normed(path)[Len(path)]

Folded(h, path) == IF h \in Windows THEN [i \in 1..Len(path) |-> Casefold(path[i])] ELSE path

EffectiveAllowlist(h) ==
  {[r EXCEPT !.path = Norm(@)] : r \in HostPolicy[h].allow \cup EnvPolicy.allow}
EffectiveRestricted(h) == {Norm(p) : p \in HostPolicy[h].restricted \cup EnvPolicy.restricted}

\* The path is the root or lies inside it.  "/" has nothing inside it here:
\* as an allowlist entry it is a sentinel, and on POSIX hosts only.
PrefixMatch(h, path, root) ==
  LET c == Folded(h, path) r == Folded(h, root) IN c = r \/ (r # <<>> /\ IsPrefix(r, c))

InAllowlist(h, path) ==
  \E r \in EffectiveAllowlist(h) :
    \/ r.all
    \/ r.path = <<>> /\ h \notin Windows
    \/ PrefixMatch(h, path, r.path)

GlobMatch(h, path, glob) ==
  LET parts == <<"/">> \o Folded(h, path)
      want == Folded(h, IF glob.abs THEN <<"/">> \o glob.names ELSE glob.names)
      skip == Len(parts) - Len(want)
  IN /\ IF glob.abs THEN skip = 0 ELSE Len(want) <= Len(parts)
     /\ \A i \in 1..Len(want) : want[i] \in {"*", parts[i + skip]}

NotRestricted(h, path, globs) ==
  /\ \A r \in EffectiveRestricted(h) : ~PrefixMatch(h, path, r)
  /\ \A g \in globs : ~GlobMatch(h, path, g)
RestrictedGlobs(h) == HostPolicy[h].globs \cup EnvPolicy.globs

\* The redact list: "none", or how a raw access to the path is treated.
BypassMode(h, path) ==
  IF ~\E g \in HostPolicy[h].redact \cup EnvPolicy.redact : GlobMatch(h, path, g) THEN "none"
  ELSE IF HostPolicy[h].bypass # "inherit" THEN HostPolicy[h].bypass ELSE EnvPolicy.bypass

-----------------------------------------------------------------------------
(* Canonical forms *)

\* What the shell of the host sees, given the tree its SFTP server shows.
ShellTree(h, t) == IF h \in Chrooted THEN [p \in {<<>>} |-> Dir] ELSE t

\* SSH_FXP_REALPATH: the last name may be missing, nothing before it.
SftpReal(t, path) ==
  LET q == RealM(t, path) IN
  IF q = <<>> \/ (q # Nowhere /\ RealE(t, Front(q)) # Nowhere) THEN q ELSE Nowhere

\* canonicalize: the forms a call may be given, none if it is refused.  A
\* strict Windows server refuses to resolve what does not exist; the path is
\* then only normalised.
Canonical(h, t, path, mustExist) ==
  LET shell == IF mustExist THEN RealE(ShellTree(h, t), path) ELSE RealM(ShellTree(h, t), path)
      sftp == SftpReal(t, path)
      found == IF h \in Windows
               THEN (IF StatOk(t, path) THEN {} ELSE {Norm(path)}) \cup ({sftp} \ {Nowhere})
               ELSE IF shell # Nowhere THEN {shell} ELSE {sftp} \ {Nowhere}
  IN {q \in found : mustExist /\ (h \in Windows \/ shell = Nowhere) => StatOk(t, q)}

CanonicalizeAndCheck(h, t, path, mustExist) ==
  {q \in Canonical(h, t, path, mustExist) : InAllowlist(h, q)}

ResolveForRedactedRead(h, t, path, mustExist) ==
  {q \in CanonicalizeAndCheck(h, t, path, mustExist) : NotRestricted(h, q, RestrictedGlobs(h))}

ResolvePath(h, t, path, mustExist) ==
  {q \in ResolveForRedactedRead(h, t, path, mustExist) : BypassMode(h, q) # "block"}

\* resolve_local_path on the MCP host's own tree: a set as above.
ResolveLocal(t, path, mode) ==
  LET read == RealE(t, path)
      loose == RealM(t, path)
      parent == IF loose = <<>> THEN Nowhere ELSE RealE(t, Front(loose))
      found == IF mode = "read"
               THEN IF read # Nowhere /\ t[read].kind = "file" THEN {read} ELSE {}
               ELSE IF loose # Nowhere /\ parent # Nowhere /\ IsDir(t, parent)
                    THEN {Append(parent, Last(loose))} ELSE {}
  IN {q \in found : \E r \in LocalRoots : IsPrefix(RealM(t, r), q)}
===============================================================================
