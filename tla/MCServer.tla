------------------------------- MODULE MCServer -------------------------------
(***************************************************************************)
(* Three requests at a time: one with a host of every tool, two on one     *)
(* task, a broadcast, a reload in between, a life with hooks, an operator  *)
(* who edits the pins.                                                     *)
(***************************************************************************)
EXTENDS Server

MCCalls == 1 .. 3

Policy(h, platform, commands) == [hostname |-> h, platform |-> platform, commands |-> commands]
Ls == [dir |-> "none", name |-> "ls"]
BinLs == [dir |-> "/bin", name |-> "ls"]
OptPs == [dir |-> "/opt", name |-> "ps"]
BinPs == [dir |-> "/bin", name |-> "ps"]

\* web and db are aliases, h1 to h3 and w are hostnames, bad is blocked.
Fleet == [web |-> Policy("h1", "posix", {Ls, BinPs}), db |-> Policy("h2", "posix", {Any}),
          win |-> Policy("w", "windows", {}), bad |-> Policy("bad", "posix", {Any})]
Moved == [web |-> Policy("h2", "posix", {}), win |-> Policy("w", "windows", {}),
          h2 |-> Policy("w", "posix", {BinPs})]
MCRegistries == {Fleet, Moved}

MCPlans ==
  [ssh_exec_run |-> ExecRun, ssh_exec_script |-> ExecScript, ssh_exec_run_streaming |-> ExecRunStreaming,
   ssh_sudo_exec |-> SudoExec, ssh_sudo_run_script |-> SudoRunScript,
   ssh_host_ping |-> HostPing, ssh_host_info |-> HostInfo, ssh_host_network |-> HostNetwork,
   ssh_user_info |-> UserInfo, ssh_user_info_self |-> UserInfoSelf, ssh_host_disk_usage |-> DiskUsage,
   ssh_host_processes |-> HostProcesses, ssh_host_alerts |-> HostAlerts,
   ssh_known_hosts_verify |-> KnownHostsVerify,
   ssh_systemctl_status |-> SystemctlStates, ssh_systemctl_show |-> SystemctlListings,
   ssh_journalctl |-> Journalctl, ssh_systemctl_restart |-> UnitActions,
   ssh_apt_list |-> AptRead, ssh_apt_show |-> AptShow, ssh_apt_install |-> AptInstall,
   ssh_apt_install_updating |-> AptInstallUpdating, ssh_apt_upgrade |-> AptUpgrade,
   ssh_apt_remove |-> AptRemove, ssh_apt_autoremove |-> AptAutoremove,
   ssh_apt_show_holds |-> AptShowHolds, ssh_apt_mark |-> AptMark,
   ssh_docker_ps |-> DockerListings, ssh_docker_stats |-> DockerStats, ssh_docker_top |-> DockerTop,
   ssh_docker_events |-> DockerEvents, ssh_docker_volumes |-> DockerVolumes,
   ssh_docker_system_df |-> DockerSystemDf, ssh_docker_images |-> DockerImages,
   ssh_docker_compose_ps |-> ComposePs, ssh_docker_compose_logs |-> ComposeLogs,
   ssh_docker_start |-> SimpleContainerOp, ssh_docker_cp |-> DockerCp,
   ssh_docker_compose_start |-> ComposeLifecycle, ssh_docker_exec |-> DockerExec,
   ssh_docker_run |-> DockerRun, ssh_docker_pull |-> DockerPull, ssh_docker_rm |-> DockerRm,
   ssh_docker_rmi |-> DockerRmi, ssh_docker_prune |-> DockerPrune,
   ssh_docker_compose_up |-> ComposeUp, ssh_docker_compose_down |-> ComposeDown,
   ssh_docker_compose_pull |-> ComposePull, ssh_broadcast |-> BroadcastOne, ssh_host_list |-> <<>>, ssh_host_reload |-> <<>>, none |-> <<>>]

Request(tool, names, program, matches, task) ==
  [tool |-> tool, names |-> names, program |-> program, matches |-> matches, task |-> task]
None == Request("none", {}, {}, FALSE, 3)
Reload == Request("ssh_host_reload", {}, {}, FALSE, 2)
Quiet == [startup |-> <<>>, shutdown |-> <<>>]
Serving(reqs, opt, used) ==
  [req |-> reqs, optOut |-> opt, pinned |-> FALSE, faults |-> used, hooks |-> Quiet,
   phase |-> "serving", hosts |-> Fleet]
SingleTools == DOMAIN MCPlans \ {"ssh_broadcast", "ssh_host_list", "ssh_host_reload", "none"}

MCNames == {"web", "h2", "win", "h3", "bad", "who"}

MCScenarios ==
  \* every tool, for names of every kind, with a reload
  {Serving(<<Request(t, {n}, {BinLs}, FALSE, 1), Reload, None>>, FALSE, 0) :
     t \in SingleTools, n \in MCNames}
  \* what the gates of a command look at
  \cup {Serving(<<Request(t, {n}, p, m, 1), Reload, None>>, o, 0) :
     t \in {"ssh_exec_run", "ssh_sudo_exec", "ssh_docker_exec"}, n \in MCNames,
     p \in {{}, {Ls}, {OptPs}}, m \in BOOLEAN, o \in BOOLEAN}
  \* two calls of one task and one of another
  \cup {Serving(<<Request(t, {"web"}, {Ls}, TRUE, 1), Request("ssh_exec_run", {"web"}, {Ls}, m, 1),
                  Request("ssh_host_list", {}, {}, FALSE, 2)>>, o, 1) :
     t \in {"ssh_exec_run", "ssh_sudo_exec", "ssh_docker_cp"}, m \in BOOLEAN, o \in BOOLEAN}
  \* a broadcast, a reload and a further call
  \cup {Serving(<<Request("ssh_broadcast", ns, {BinLs}, FALSE, 1), Reload,
                  Request("ssh_apt_show", {"web"}, {}, FALSE, 3)>>, FALSE, 0) :
     ns \in {{"web", "db", "h3"}, {"web", "win"}, {"web", "bad"}}}
  \* the life of the server, the pins
  \cup {[Serving(<<Request("ssh_host_ping", {"web"}, {}, FALSE, 1), None, None>>, FALSE, 0)
           EXCEPT !.phase = "start", !.hooks = [startup |-> a, shutdown |-> b], !.pinned = w] :
     a \in {<<>>, <<"plain", "slow">>}, w \in BOOLEAN,
     b \in {<<>>, <<"plain", "slow">>, <<"slow", "exits">>, <<"stubborn">>}}
===============================================================================
