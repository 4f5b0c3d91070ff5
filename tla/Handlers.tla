------------------------------- MODULE Handlers -------------------------------
(***************************************************************************)
(* The tools that run commands, each as the sequence of what its handler   *)
(* does.  The server (module Server) gives the words their meaning:        *)
(*   valid     arguments, or an answer, are checked and may be refused     *)
(*   resolve   resolve_host, under the registry as it is now               *)
(*   name      this resolution is the one whose host the result names      *)
(*   cheat     cheatsheet_precheck        posix    require_posix           *)
(*   allowed   check_command              password fetch_sudo_password     *)
(*   connect   await pool.acquire         try      the same, its ConnectError *)
(*                                        and UnknownHost being an answer  *)
(*   run       await of a command, whose exit status is data               *)
(*   probe     the same, a status other than 0 raises                      *)
(*   probes    gather of fixed commands with return_exceptions             *)
(*   path      await resolve_path of a path of the host                    *)
(* Abstracted: the command lines and the parsing of their outputs.         *)
(***************************************************************************)
EXTENDS Sequences

Commands == {"run", "probe", "probes"}
Awaits == Commands \cup {"connect", "try", "path"}
HandlerWords == Awaits \cup {"valid", "resolve", "name", "cheat", "posix", "allowed", "password"}

\* tools/exec_tools.py
ExecRun == <<"resolve", "name", "cheat", "posix", "allowed", "connect", "run">>
ExecScript == <<"resolve", "name", "posix", "connect", "run">>
ExecRunStreaming == <<"resolve", "name", "cheat", "posix", "allowed", "connect", "run">>

\* tools/sudo_tools.py
SudoExec == <<"resolve", "name", "cheat", "posix", "allowed", "connect", "password", "run">>
SudoRunScript == <<"resolve", "name", "posix", "connect", "password", "run">>

\* tools/host_tools.py
HostPing == <<"resolve", "name", "try">>
HostInfo == <<"resolve", "name", "posix", "connect", "probes">>
HostNetwork == <<"resolve", "name", "posix", "connect", "run">>
\* With a user name; without one `id -un` is run first.
UserInfo == <<"valid", "resolve", "name", "posix", "connect", "probes", "valid">>
UserInfoSelf ==
  <<"resolve", "name", "posix", "connect", "run", "valid", "probes", "valid">>
DiskUsage == <<"resolve", "name", "posix", "connect", "run">>
HostProcesses == <<"valid", "resolve", "name", "posix", "connect", "run">>
HostAlerts == <<"resolve", "name", "posix", "connect", "probes">>
KnownHostsVerify == <<"resolve", "name", "try">>

\* tools/systemctl_tools.py
RunSystemctl == <<"resolve", "name", "connect", "run">>
SystemctlStates == <<"valid">> \o RunSystemctl    \* status, is-active, is-enabled, is-failed
SystemctlListings == <<"valid">> \o RunSystemctl  \* list-units, show, cat
Journalctl == <<"valid">> \o RunSystemctl
RunUnitAction == <<"valid">> \o RunSystemctl
UnitActions == RunUnitAction                      \* the nine mutations

\* tools/apt_tools.py
ProbeApt == <<"resolve", "connect", "probe">>
RunApt == <<"resolve", "connect", "run">>
AptRead == <<"valid", "resolve", "name", "posix">> \o ProbeApt \o RunApt
AptShow == AptRead \o RunApt
AptMutation == <<"resolve", "name", "posix">> \o ProbeApt \o RunApt
AptInstall == <<"valid">> \o AptMutation
AptInstallUpdating ==
  <<"valid", "resolve", "posix">> \o ProbeApt \o RunApt \o AptMutation
AptUpgrade == AptMutation
AptRemove == <<"valid">> \o AptMutation
AptAutoremove == AptMutation
AptShowHolds == <<"resolve", "name", "posix">> \o ProbeApt \o RunApt
AptMark == <<"valid">> \o AptMutation

\* tools/docker
RunDocker == <<"resolve", "name", "posix", "connect", "run">>
\* The path of the compose file is resolved under a first resolution of the
\* host, the command is run under a second.
ComposePath == <<"resolve", "connect", "path">>
ComposeProjectOp == ComposePath \o RunDocker
DockerListings == <<"valid">> \o RunDocker        \* ps, logs, inspect
DockerStats == RunDocker
DockerTop == <<"valid">> \o RunDocker
DockerEvents == <<"valid">> \o RunDocker
DockerVolumes == <<"valid">> \o RunDocker
DockerSystemDf == RunDocker
DockerImages == <<"valid">> \o RunDocker
ComposePs == <<"valid">> \o ComposePath \o RunDocker
ComposeLogs == <<"valid">> \o ComposePath \o RunDocker
SimpleContainerOp == <<"valid">> \o RunDocker     \* start, stop, restart
DockerCp == <<"valid">> \o ComposePath \o RunDocker
ComposeLifecycle == ComposeProjectOp              \* compose start, stop, restart
DockerExec == <<"valid", "resolve", "allowed">> \o RunDocker
DockerRun == <<"valid">> \o RunDocker
DockerPull == <<"valid">> \o RunDocker
DockerRm == <<"valid">> \o RunDocker
DockerRmi == <<"valid">> \o RunDocker
DockerPrune == RunDocker
ComposeUp == ComposePath \o RunDocker
ComposeDown == ComposePath \o RunDocker
ComposePull == ComposeProjectOp

\* Each host of ssh_broadcast, once the call has resolved them all.
BroadcastOne == <<"posix", "allowed", "connect", "run">>
===============================================================================
