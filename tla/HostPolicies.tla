----------------------------- MODULE HostPolicies -----------------------------
(***************************************************************************)
(* Which host a name stands for and what may be run there:                 *)
(* services/host_policy.py, services/exec_policy.py, the gates of          *)
(* tools/_context.py and the pool's own check (ssh/pool.py).               *)
(*                                                                         *)
(* The registry (hosts.toml) is a function from aliases to policies.       *)
(* Abstracted: the fields of a policy that no gate reads, the texts of the *)
(* errors, the syntax of a command (all that counts is its first token).   *)
(***************************************************************************)
CONSTANTS
  Blocked,       \* SSH_HOSTS_BLOCKLIST
  EnvHosts,      \* SSH_HOSTS_ALLOWLIST
  EnvCommands,   \* SSH_COMMAND_ALLOWLIST
  AllowAny,      \* ALLOW_ANY_COMMAND
  Any,           \* the entry "*" of a command allowlist
  Bare           \* the directory part of a program without one

Aliases(hosts) == DOMAIN hosts
Policies(hosts) == {hosts[a] : a \in DOMAIN hosts}

\* The policy of a host that is only named in the environment.
Minimal(name) == [hostname |-> name, platform |-> "posix", commands |-> {}]

Named(hosts, name) == {p \in Policies(hosts) : p.hostname = name}

\* An alias, a hostname (the first entry that has it: file order is not
\* modelled, the choice is a fixed one), the environment.  Empty: HostNotAllowed.
Locate(hosts, name) ==
  IF name \in Aliases(hosts) THEN {hosts[name]}
  ELSE IF Named(hosts, name) # {} THEN {CHOOSE p \in Named(hosts, name) : TRUE}
  ELSE IF name \in EnvHosts THEN {Minimal(name)} ELSE {}

CheckPolicy(p) == p.hostname \notin Blocked

\* At most one policy; none when the host is unknown or blocked.
Resolve(hosts, name) == {p \in Locate(hosts, name) : CheckPolicy(p)}

\* ConnectionPool._check_allowed; a hostname that equals an alias passes too.
CheckAllowed(hosts, p) ==
  /\ Aliases(hosts) # {} \/ EnvHosts # {}
  /\ p.hostname \in Aliases(hosts) \cup EnvHosts \/ Named(hosts, p.hostname) # {}
  /\ CheckPolicy(p)

RequirePosix(p) == p.platform # "windows"

EffectiveCommandAllowlist(p) == p.commands \cup EnvCommands

\* `program` is a set: empty when the command is empty or does not parse.  A
\* bare entry admits the program in any directory, another only itself.
CheckCommand(p, program) ==
  LET allowed == EffectiveCommandAllowlist(p)
  IN  \/ allowed = {} /\ AllowAny
      \/ Any \in allowed
      \/ \E t \in program, e \in allowed :
           /\ e # Any /\ e.name = t.name
           /\ e.dir \in {t.dir, Bare}
===============================================================================
