-------------------------------- MODULE Server --------------------------------
(***************************************************************************)
(* The server: audited tool calls on any number of tasks, the registry     *)
(* that ssh_host_reload swaps under them, ssh_broadcast, the lifespan and  *)
(* the pins of host keys.  Everything between two awaits is one step.      *)
(*                                                                         *)
(* Abstracted: the pool (ConnectionPool), what happens while a command     *)
(* runs (RemoteExec), what a command prints.                               *)
(***************************************************************************)
EXTENDS Handlers, HostPolicies, Lifespan, KnownHosts, Functions

CONSTANTS
  Calls,        \* 1 .. n; those of one task follow one another
  Plans,        \* the plan of each tool (module Handlers)
  Scenarios,    \* requests, settings, hooks and phase to start from
  NoPolicy, NoName,
  MaxFaults

\* The calls of a task are numbered in their order; only ssh_broadcast takes
\* several hosts, it does not look at the cheatsheet.
ASSUME CallsAssumption ==
  /\ Calls \subseteq Nat
  /\ \A i \in DOMAIN Plans["ssh_broadcast"] : Plans["ssh_broadcast"][i] # "cheat"
  /\ \A s \in Scenarios, c \in Calls :
       /\ s.req[c].task \in Calls /\ s.req[c].tool \in DOMAIN Plans
       /\ s.req[c].tool # "ssh_broadcast" => \A m, n \in s.req[c].names : m = n
       /\ s.req[c].tool \in {"ssh_host_list", "ssh_host_reload"} => s.req[c].names = {}

\* How handlers are written: a name is that of a resolution; require_posix comes
\* before the first command; no host is resolved anew at an await after its
\* command was admitted; the answer of ping and of verify is the last they do.
ASSUME PlansAssumption ==
  \A tool \in DOMAIN Plans : LET P == Plans[tool] IN
    /\ P \in Seq(HandlerWords)
    /\ \A i \in DOMAIN P : P[i] = "name" => i > 1 /\ P[i - 1] = "resolve"
    /\ \A i, j \in DOMAIN P : P[i] \in Commands /\ P[j] = "posix" =>
         \E l \in DOMAIN P : l < i /\ P[l] = "posix"
    /\ \A i, j, l \in DOMAIN P : i < j /\ j < l /\ P[i] = "allowed" /\ P[j] \in Awaits =>
         P[l] # "resolve"
    /\ \A i \in DOMAIN P : P[i] = "try" => i = Len(P)

VARIABLES
  req,          \* the requests: tool, names (of hosts), program, matches, task
  optOut,       \* SSH_EXEC_ALLOW_CHEATSHEET_PATTERNS
  pc,           \* the await each host's part of a call is at, 0: none
  pol,          \* the policy it was resolved to
  res,          \* how it ended
  shown,        \* the host the result names
  approved,     \* the host a path was approved on
  ended,        \* how a call ended, "no" before
  sent,         \* the hook events a call has emitted
  lines,        \* its audit lines
  flag,         \* the context variable _cheatsheet_bypass_pattern of a task
  ran,          \* for the properties: the commands that were started
  moved,        \* for the properties: parts whose name a reload has moved
  pinned,       \* whether the file of pins is edited in this behaviour
  faults

callVars == <<req, optOut, pc, pol, res, shown, approved, ended, sent, lines, flag, ran, moved, pinned, faults>>
vars == <<callVars, lifeVars, pinVars>>

Init ==
  \E s \in Scenarios :
    /\ req = s.req /\ optOut = s.optOut /\ pinned = s.pinned /\ faults = s.faults
    /\ pc = [c \in Calls |-> [n \in s.req[c].names |-> 0]]
    /\ pol = [c \in Calls |-> [n \in s.req[c].names |-> NoPolicy]]
    /\ res = [c \in Calls |-> [n \in s.req[c].names |-> "none"]]
    /\ shown = [c \in Calls |-> [n \in s.req[c].names |-> NoName]]
    /\ approved = shown
    /\ ended = [c \in Calls |-> "no"] /\ sent = [c \in Calls |-> <<>>]
    /\ lines = [c \in Calls |-> <<>>] /\ flag = [c \in Calls |-> FALSE]
    /\ ran = {} /\ moved = {}
    /\ hooks = s.hooks /\ phase = s.phase /\ turn = 1
    /\ IF phase = "start" THEN LifespanStart ELSE hosts = s.hosts /\ reaper = TRUE /\ open = {}
    /\ KnownHostsInit /\ (~pinned => file = Missing)

-----------------------------------------------------------------------------
(* One segment of a handler: from the await at k, or its start, to the next *)

Plan(c) == Plans[req[c].tool]
Broadcasts(c) == req[c].tool = "ssh_broadcast"
Started(c) == sent[c] # <<>>
Running(c) == Started(c) /\ ended[c] = "no"
Parts == {x \in Calls \X UNION {req[d].names : d \in Calls} : x[2] \in req[x[1]].names}

NextAwait(c, k) ==
  LET later == {i \in DOMAIN Plan(c) : i > k /\ Plan(c)[i] \in Awaits}
  IN  IF later = {} THEN Len(Plan(c)) + 1
      ELSE CHOOSE i \in later : \A j \in later : i <= j
Words(c, k) == {Plan(c)[i] : i \in {j \in DOMAIN Plan(c) : k < j /\ j < NextAwait(c, k)}}
Word(c, k) == IF k \in DOMAIN Plan(c) THEN Plan(c)[k] ELSE "none"

\* resolve_host, or the policy the handler has.
PolicyAt(c, n, k) ==
  IF "resolve" \in Words(c, k) THEN Resolve(hosts, n) ELSE {pol[c][n]} \ {NoPolicy}

\* cheatsheet_precheck: a match is refused, or marks the call.
Matched(c, n, k) ==
  "cheat" \in Words(c, k) /\ PolicyAt(c, n, k) # {} /\ req[c].matches

\* The gates up to the await; the pool's own check is made when it is called.
Gates(c, n, k, p) ==
  /\ "posix" \in Words(c, k) => RequirePosix(p)
  /\ "allowed" \in Words(c, k) => CheckCommand(p, req[c].program)
  /\ Word(c, NextAwait(c, k)) \in {"connect", "try"} => CheckAllowed(hosts, p)

Outcomes(c, n, k) ==
  LET usesHost == Words(c, k) \cap {"resolve", "posix", "allowed"} # {} \/ NextAwait(c, k) \in DOMAIN Plan(c)
  IN  IF Matched(c, n, k) /\ ~optOut THEN {"cheatsheet"}
      ELSE (IF usesHost => \E p \in PolicyAt(c, n, k) : Gates(c, n, k, p) THEN {"ok"} ELSE {"error"})
           \cup (IF Words(c, k) \cap {"valid", "password"} # {} THEN {"error"} ELSE {})

-----------------------------------------------------------------------------
(* audited *)

AuditLine(result, bypass) == [result |-> result, bypass |-> bypass]

\* Mutant: the line is written after the call, not in the finally.
LeaveUnlessCancelled(c, how, bypass, events) ==
  /\ ended' = [ended EXCEPT ![c] = how]
  /\ sent' = [sent EXCEPT ![c] = @ \o events \o <<"post">>]
  /\ lines' = IF how \in {"cheatsheet", "cancelled"} THEN lines
              ELSE [lines EXCEPT ![c] = Append(@, AuditLine(IF how = "ok" THEN "ok" ELSE "error", bypass))]
  /\ flag' = [flag EXCEPT ![req[c].task] = FALSE]

\* The finally: a call that the cheatsheet refused leaves no line.
Leave(c, how, bypass, events) ==
  /\ ended' = [ended EXCEPT ![c] = how]
  /\ sent' = [sent EXCEPT ![c] = @ \o events \o <<"post">>]
  /\ lines' = IF how = "cheatsheet" THEN lines
              ELSE [lines EXCEPT ![c] = Append(@, AuditLine(IF how = "ok" THEN "ok" ELSE "error", bypass))]
  /\ flag' = [flag EXCEPT ![req[c].task] = FALSE]

\* The part of c for the host n goes on from k with outcome o.
Advance(c, n, k, o, bypass, events) ==
  LET next == NextAwait(c, k)
      over == o # "ok" \/ next \notin DOMAIN Plan(c)
      p == CHOOSE q \in PolicyAt(c, n, k) : TRUE
  IN  /\ pc' = [pc EXCEPT ![c][n] = IF over THEN 0 ELSE next]
      /\ res' = IF over THEN [res EXCEPT ![c][n] = o] ELSE res
      /\ IF o # "ok" THEN UNCHANGED <<pol, shown, approved, ran>>
         ELSE /\ pol' = IF over THEN pol ELSE [pol EXCEPT ![c][n] = p]
              /\ shown' = IF "name" \in Words(c, k) THEN [shown EXCEPT ![c][n] = p.hostname] ELSE shown
              /\ approved' = IF Word(c, k) = "path"
                             THEN [approved EXCEPT ![c][n] = pol[c][n].hostname] ELSE approved
              /\ ran' = IF Word(c, next) \in Commands
                        THEN ran \cup {[call |-> c, name |-> n, policy |-> p]} ELSE ran
      /\ IF over /\ ~Broadcasts(c) THEN Leave(c, o, bypass, events)
         ELSE /\ sent' = [sent EXCEPT ![c] = @ \o events]
              /\ flag' = [flag EXCEPT ![req[c].task] = bypass]
              /\ UNCHANGED <<ended, lines>>

Same == UNCHANGED <<req, optOut, moved, pinned, lifeVars, pinVars>>

-----------------------------------------------------------------------------
(* The beginning of a call *)

MayStart(c) ==
  /\ phase = "serving" /\ ~Started(c)
  /\ \A d \in Calls : d < c /\ req[d].task = req[c].task => ended[d] # "no"

\* A tool of one host: the PRE event and the handler up to its first await.
Enter(c) ==
  /\ MayStart(c) /\ ~Broadcasts(c)
  /\ \E n \in req[c].names : \E o \in Outcomes(c, n, 0) :
       Advance(c, n, 0, o, Matched(c, n, 0) /\ optOut, <<"pre">>)
  /\ Same /\ UNCHANGED faults

\* ssh_broadcast resolves all its hosts, or raises; a task is made for each.
EnterBroadcast(c) ==
  /\ MayStart(c) /\ Broadcasts(c)
  /\ IF \E n \in req[c].names : Resolve(hosts, n) = {}
     THEN Leave(c, "error", FALSE, <<"pre">>) /\ UNCHANGED <<pol, shown>>
     ELSE /\ pol' = [pol EXCEPT ![c] = [n \in req[c].names |-> CHOOSE p \in Resolve(hosts, n) : TRUE]]
          /\ shown' = [shown EXCEPT ![c] = [n \in req[c].names |-> pol'[c][n].hostname]]
          /\ sent' = [sent EXCEPT ![c] = <<"pre">>]
          /\ UNCHANGED <<ended, lines, flag>>
  /\ UNCHANGED <<pc, res, approved, ran>> /\ Same /\ UNCHANGED faults

\* _run_one begins; a reload may have come before it.
StartOne(c, n) ==
  /\ Broadcasts(c) /\ Running(c) /\ pc[c][n] = 0 /\ res[c][n] = "none"
  /\ \E o \in Outcomes(c, n, 0) : Advance(c, n, 0, o, FALSE, <<>>)
  /\ Same /\ UNCHANGED faults

-----------------------------------------------------------------------------
(* What ends an await *)

At(c, n, words) == Running(c) /\ pc[c][n] > 0 /\ Word(c, pc[c][n]) \in words
Bypass(c) == flag[req[c].task]

\* The connection is there, the command has ended (with any status, unless
\* it is a probe), the path is accepted.
Answered(c, n) ==
  /\ At(c, n, Awaits)
  /\ \E o \in Outcomes(c, n, pc[c][n]) : Advance(c, n, pc[c][n], o, Bypass(c), <<>>)
  /\ open' = IF Word(c, pc[c][n]) \in {"connect", "try"} THEN open \cup {pol[c][n].hostname} ELSE open
  /\ UNCHANGED <<req, optOut, moved, pinned, phase, hosts, hooks, turn, reaper, pinVars, faults>>

\* Mutant: an error of one host ends the broadcast.
RaisesLoose(c, n) ==
  /\ At(c, n, Awaits \ {"probes"}) /\ faults < MaxFaults /\ faults' = faults + 1
  /\ pc' = [pc EXCEPT ![c][n] = 0] /\ res' = [res EXCEPT ![c][n] = "error"]
  /\ Leave(c, "error", Bypass(c), <<>>)
  /\ UNCHANGED <<pol, shown, approved, ran>> /\ Same

\* It fails.  A host of a broadcast has its error in the result; the probes of
\* a gather with return_exceptions do not raise.
Raises(c, n) ==
  /\ At(c, n, Awaits \ {"probes"}) /\ faults < MaxFaults /\ faults' = faults + 1
  /\ Advance(c, n, pc[c][n], "error", Bypass(c), <<>>)
  /\ Same

\* ConnectError and UnknownHost, to ping and to verify.
Unreachable(c, n) ==
  /\ At(c, n, {"try"}) /\ faults < MaxFaults /\ faults' = faults + 1
  /\ Advance(c, n, pc[c][n], "ok", Bypass(c), <<>>)
  /\ Same

\* The gather of a broadcast is complete.
Gathered(c) ==
  /\ Broadcasts(c) /\ Running(c) /\ \A n \in req[c].names : res[c][n] # "none"
  /\ Leave(c, "ok", FALSE, <<>>)
  /\ UNCHANGED <<pc, pol, res, shown, approved, ran, faults>> /\ Same

\* Cancellation, which a gather passes on to its tasks.
Cancel(c) ==
  /\ Running(c) /\ faults < MaxFaults /\ faults' = faults + 1
  /\ pc' = [pc EXCEPT ![c] = [n \in req[c].names |-> 0]]
  /\ Leave(c, "cancelled", Bypass(c), <<>>)
  /\ UNCHANGED <<pol, res, shown, approved, ran>> /\ Same

-----------------------------------------------------------------------------
(* Tools without an await *)

\* ssh_host_list.
HostList(c) ==
  /\ MayStart(c) /\ req[c].tool = "ssh_host_list" /\ Leave(c, "ok", FALSE, <<"pre">>)
  /\ UNCHANGED <<pc, pol, res, shown, approved, ran, faults>> /\ Same

\* ssh_host_reload: the file is loaded, then the dict is swapped; or it cannot
\* be loaded and nothing changes.
HostReload(c) ==
  /\ MayStart(c) /\ req[c].tool = "ssh_host_reload"
  /\ \/ hosts' \in Registries /\ Leave(c, "ok", FALSE, <<"pre">>)
     \/ UNCHANGED hosts /\ Leave(c, "error", FALSE, <<"pre">>)
  /\ moved' = moved \cup {x \in Parts : Running(x[1]) /\ Resolve(hosts', x[2]) # Resolve(hosts, x[2])}
  /\ UNCHANGED <<req, optOut, pc, pol, res, shown, approved, ran, pinned, faults>>
  /\ UNCHANGED <<phase, hooks, turn, reaper, open, pinVars>>

-----------------------------------------------------------------------------
CallNext ==
  \E c \in Calls :
    \/ Enter(c) \/ EnterBroadcast(c) \/ Gathered(c) \/ Cancel(c) \/ HostList(c) \/ HostReload(c)
    \/ \E n \in req[c].names : StartOne(c, n) \/ Answered(c, n) \/ Raises(c, n) \/ Unreachable(c, n)

\* The event loop does nothing else while a look at the pins is under way.
Next ==
  \/ looking = NoTime /\ CallNext
  \/ looking = NoTime /\ LifespanNext /\ UNCHANGED <<callVars, pinVars>>
  \/ pinned /\ KnownHostsNext /\ UNCHANGED <<callVars, lifeVars>>

Spec == Init /\ [][Next]_vars /\ LifespanFairness
-----------------------------------------------------------------------------
\* A call leaves exactly one audit line, whatever ends it, with its own outcome
\* and its own cheatsheet mark; only a call the cheatsheet refused leaves none.
\* Its PRE and POST events come in pairs (services/audit.py, audited).
AuditTruthful ==
  \A c \in Calls :
    /\ ended[c] \in {"no", "cheatsheet"} => lines[c] = <<>>
    /\ ended[c] \notin {"no", "cheatsheet"} =>
         /\ Len(lines[c]) = 1
         /\ lines[c][1].result = (IF ended[c] = "ok" THEN "ok" ELSE "error")
         /\ lines[c][1].bypass => optOut /\ req[c].matches
         /\ "cheat" \in Words(c, 0) /\ req[c].matches /\ (\E r \in ran : r.call = c)
              => lines[c][1].bypass
    /\ sent[c] = IF ~Started(c) THEN <<>> ELSE IF ended[c] = "no" THEN <<"pre">> ELSE <<"pre", "post">>

\* A command runs only where its call may run it, and unless a reload moved the
\* name meanwhile, every command of a call, and the path it was given, belong
\* to the one host its result names, also when the tool resolves the name anew
\* for every command (_run_apt, _run_docker).  A broadcast answers for every
\* host: the error of one does not end the others, and nothing of a call goes
\* on once it has ended.
AnswersTruthful ==
  /\ \A r \in ran :
       /\ CheckPolicy(r.policy)
       /\ "allowed" \in Words(r.call, 0) => CheckCommand(r.policy, req[r.call].program)
       /\ <<r.call, r.name>> \notin moved =>
            /\ shown[r.call][r.name] \in {r.policy.hostname, NoName}
            /\ approved[r.call][r.name] \in {r.policy.hostname, NoName}
            /\ "posix" \in Range(Plan(r.call)) => RequirePosix(r.policy)
  /\ \A x \in Parts :
       /\ ended[x[1]] = "ok" => res[x[1]][x[2]] \in {"ok", "error"}
       /\ ended[x[1]] # "no" => pc[x[1]][x[2]] = 0

\* Unless a hook ignores its cancellation, the start of the server comes to an
\* end, and its end closes every connection and stops the reaper; what may go
\* past close_all is a second cancellation or a hook's SystemExit (lifespan.py).
ClosedAtEnd ==
  (phase \in {"starting", "stopping"} /\ \A e \in DOMAIN hooks : "stubborn" \notin Range(hooks[e]))
    ~> \/ phase \in {"serving", "abandoned"}
       \/ phase = "gone" /\ open = {} /\ ~reaper
===============================================================================
