------------------------------- MODULE ToolCalls -------------------------------
(***************************************************************************)
(* The frame of every file tool: a call resolves its path, then awaits one *)
(* remote operation after the other (tools/low_access/_helpers.py).  Calls *)
(* of any number of clients interleave at the awaits.                      *)
(*                                                                         *)
(* At an await the operation may succeed, be impossible (the tree changed),*)
(* be refused by the server, meet a lost connection, or the call may be    *)
(* cancelled; a connection once lost answers nothing more to that call.    *)
(* Abstracted: connection pooling (ConnectionPool), the messages of        *)
(* results and errors, sizes other than the length of a text.              *)
(***************************************************************************)
EXTENDS FileRequests

VARIABLES
  fs,      \* the trees of the hosts and of the MCP host
  req,     \* the requests
  at,      \* the await a call is suspended at
  loc,     \* its local variables, with what its remote process has `seen` and,
           \* of a call that writes, the `plan`: the whole text, once it is known
  out,     \* how it ended
  cut,     \* calls whose connection is lost
  proc,    \* the remote process of a call that runs one in steps
  clock,
  faults,
  made,    \* for the properties: whether it has changed its target ("whole",
           \* "part" if the change is not what was asked)
  raced    \* for the properties: calls whose places another call has changed

callVars == <<fs, req, at, loc, out, cut, proc, clock, faults, made, raced>>

\* A request names all parameters; the MC module gives defaults to those a
\* tool has not.
Tool(t) == req[t].tool
On(t) == req[t].host
Opt(t, o) == o \in req[t].opts

NoLocals == [path |-> <<>>, to |-> <<>>, text |-> <<>>, mode |-> "0644", todo |-> <<>>, list |-> <<>>,
             seen |-> {}, size |-> {}, plan |-> {}]

CallsInit ==
  \E s \in Scenarios :
    /\ fs = s.fs /\ req = s.req
    /\ at = [t \in Calls |-> IF s.req[t].tool = "none" THEN "done" ELSE "start"]
    /\ loc = [t \in Calls |-> NoLocals]
    /\ out = [t \in Calls |-> "none"]
    /\ cut = {} /\ proc = [t \in Calls |-> "none"]
    /\ clock = 0 /\ faults = s.faults /\ raced = {}
    /\ made = [t \in Calls |-> "no"]

-----------------------------------------------------------------------------
(* Steps *)

Go(t, there) == at' = [at EXCEPT ![t] = there]
Keep(t, l) == loc' = [loc EXCEPT ![t] = l]
End(t, how) == Go(t, "done") /\ out' = [out EXCEPT ![t] = how]
Raise(t) == End(t, "error")

\* Nothing but the call's own position, locals and outcome changes.
Quiet == UNCHANGED <<fs, req, cut, proc, clock, faults, made, raced>>

\* What a command run through the shell sees.
ShellSees(t) == ShellTree(On(t), fs[On(t)])

AtRest(t) == at[t] = "done" /\ proc[t] \in {"none", "ok", "failed", "cancelled"}

\* A temporary file is a sibling, the "/" has one too.
NameOf(p) == IF p = <<>> THEN "" ELSE Last(p)
TmpOf(t, p) == Append(Front(p), TmpName(NameOf(p), t))

\* The places a call works on: its resolved paths, and the backup of a deploy.
Names(t) ==
  {<<On(t), loc[t].path>>, <<req[t].peer, loc[t].to>>}
    \cup (IF Tool(t) = "ssh_deploy" THEN {<<On(t), loc[t].list>>} ELSE {})

\* What it finds at such a place: what is there, what `lstat` and `stat` show, its
\* own temporary files for it, wherever they are, and where it looks for them.
NodeAt(tree, p) == IF p \in DOMAIN tree THEN {tree[p]} ELSE {}
TmpsOf(t, tree, p) == {q \in DOMAIN tree : q # <<>> /\ Last(q) = TmpName(NameOf(p), t)}
Finds(t, tree, p) ==
  <<NodeAt(tree, p), NodeAt(tree, Place(tree, p)), NodeAt(tree, RealM(tree, p)),
    {<<q, tree[q]>> : q \in TmpsOf(t, tree, p)}, RealM(tree, TmpOf(t, p))>>
Touches(t, h, tree) == \E x \in Names(t) : x[1] = h /\ Finds(t, tree, x[2]) # Finds(t, fs[h], x[2])

\* The call changes the tree of h.
Affect(t, h, tree) ==
  /\ fs' = [fs EXCEPT ![h] = tree]
  /\ raced' = raced \cup {u \in Calls \ {t} : Touches(u, h, tree)}
Change(t, h, tree) == Affect(t, h, tree) /\ made' = [made EXCEPT ![t] = "whole"]
\* It changes a temporary file of its own.
Scratch(t, h, tree) == Affect(t, h, tree) /\ UNCHANGED made
Rest == UNCHANGED <<req, cut, proc, clock, faults>>

\* Where the temporary file of a call is, whatever has become of its directory.
TmpNow(t, h, p) == TmpsOf(t, fs[h], p)
\* A chunk reaches it by its handle.
Grow(tree, places, text) ==
  [q \in DOMAIN tree |-> IF q \in places THEN [tree[q] EXCEPT !.text = text] ELSE tree[q]]

\* What an operation that fails may cost: nothing when it could not succeed.
Trouble(t, possible) ==
  \/ (~possible \/ t \in cut) /\ UNCHANGED faults
  \/ possible /\ t \notin cut /\ faults < MaxFaults /\ faults' = faults + 1

\* An operation whose failure makes no difference.
Tried(t) == IF t \in cut THEN UNCHANGED faults ELSE UNCHANGED faults \/ Trouble(t, TRUE)

-----------------------------------------------------------------------------
(* The environment *)

LoseConnection(t) ==
  /\ at[t] # "done" /\ t \notin cut /\ faults < MaxFaults
  /\ cut' = cut \cup {t} /\ faults' = faults + 1
  /\ UNCHANGED <<fs, req, at, loc, out, proc, clock, made, raced>>

\* Cancellation: no handler of the file tools catches it, except that of a
\* download to the MCP host's disk.
Cancel(t) ==
  /\ at[t] \notin {"done", "localOpen", "localCopy", "localReplace", "localSweep"}
  /\ faults < MaxFaults /\ faults' = faults + 1
  /\ End(t, "cancelled")
  /\ UNCHANGED <<fs, req, loc, cut, proc, clock, made, raced>>

Tick ==
  /\ clock < MaxClock /\ clock' = clock + 1
  /\ \E t \in Calls : at[t] # "done" /\ Tool(t) = "ssh_deploy"   \* nobody else reads it
  /\ UNCHANGED <<fs, req, at, loc, out, cut, proc, faults, made, raced>>

-----------------------------------------------------------------------------
(* _prepare_existing, _prepare_creatable and their kin *)

Resolved(t) ==
  IF Tool(t) \in Redacted THEN ResolveForRedactedRead(On(t), fs[On(t)], req[t].path, TRUE)
  ELSE ResolvePath(On(t), fs[On(t)], req[t].path, Tool(t) \notin Creating)

\* resolve_host, require_posix, acquire, resolve_path: then the tool's own steps.
PrepareCall(t, first) ==
  /\ at[t] = "start"
  /\ t \notin cut /\ ~(Tool(t) \in PosixOnly /\ On(t) \in Windows)
  /\ \E p \in Resolved(t) : Keep(t, [loc[t] EXCEPT !.path = p])
  /\ Go(t, first) /\ Quiet /\ UNCHANGED out

PrepareFails(t) ==
  /\ at[t] = "start"
  /\ Trouble(t, Resolved(t) # {} /\ ~(Tool(t) \in PosixOnly /\ On(t) \in Windows))
  /\ Raise(t) /\ UNCHANGED <<fs, req, loc, cut, proc, clock, made, raced>>

\* The second path of cp, mv and transfer.
Second(t) == ResolvePath(req[t].peer, fs[req[t].peer], req[t].to, FALSE)
SecondOk(t) == Second(t) # {}
PrepareSecond(t, next) ==
  /\ at[t] = "second" /\ t \notin cut
  /\ \E p \in Second(t) : Keep(t, [loc[t] EXCEPT !.to = p])
  /\ Go(t, next) /\ Quiet /\ UNCHANGED out

\* An operation that fails and whose error nobody handles.
RaiseAt(t, here, possible) ==
  /\ at[t] = here /\ Trouble(t, possible)
  /\ Raise(t) /\ UNCHANGED <<fs, req, loc, cut, proc, clock, made, raced>>

\* One whose error the tool ignores.
IgnoreAt(t, here, next, possible) ==
  /\ at[t] = here /\ Trouble(t, possible)
  /\ Go(t, next) /\ UNCHANGED <<fs, req, loc, out, cut, proc, clock, made, raced>>

Returns(t) ==
  /\ at[t] = "return" /\ End(t, "ok") /\ Quiet /\ UNCHANGED loc
===============================================================================
