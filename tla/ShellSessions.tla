---------------------------- MODULE ShellSessions ----------------------------
(***************************************************************************)
(* Persistent shell sessions: services/shell_sessions.py and               *)
(* tools/shell_tools.py over RemoteExec.  A session is only a remembered   *)
(* directory: every command runs in a shell of its own, wrapped as         *)
(* `cd <cwd> || cd ~; <command>; printf <SENTINEL>$PWD`, and the directory *)
(* is read back from the sentinel line.  A lock per session serialises.    *)
(*                                                                         *)
(* The sentinel line is two chunks of stdout: the marker with the first    *)
(* part of $PWD, and the rest of it.  The command itself does not print    *)
(* the sentinel.  stderr plays no part and is left out.                    *)
(***************************************************************************)
EXTENDS RemoteExec

CONSTANTS
  Sessions,
  Dirs,        \* directories of the host
  Home,
  Cut          \* Cut[d]: what is left of the path d when its end is missing

ASSUME ShellAssumption ==
  /\ Streaming = {}
  /\ Home \in Dirs /\ Cut \in [Dirs -> Dirs]

VARIABLES
  life,     \* of a session: before ssh_shell_open, in the registry, removed
  cwd,      \* ShellSession.cwd
  locked,   \* ShellSession.lock
  step,     \* where an ssh_shell_exec call is
  session,  \* its ShellSession object
  base,     \* the cwd that wrap_command put into its command
  line,     \* chunks of the sentinel line that arrived
  final     \* $PWD of its shell at the printf

shellVars == <<life, cwd, locked, step, session, base, line, final>>
allVars == <<execVars, shellVars>>

ShellTypeOK ==
  /\ ExecTypeOK
  /\ life \in [Sessions -> {"fresh", "open", "closed"}]
  /\ cwd \in [Sessions -> Dirs] /\ locked \in [Sessions -> BOOLEAN]
  /\ step \in [Calls -> {"new", "acquiring", "queued", "inside", "done"}]
  /\ session \in [Calls -> Sessions]
  /\ base \in [Calls -> Dirs] /\ final \in [Calls -> Dirs]
  /\ line \in [Calls -> 0..2]

ShellInit ==
  /\ ExecInit
  /\ life = [s \in Sessions |-> "fresh"]
  /\ cwd = [s \in Sessions |-> Home]
  /\ locked = [s \in Sessions |-> FALSE]
  /\ step = [t \in Calls |-> "new"]
  /\ session \in [Calls -> Sessions]
  /\ base = [t \in Calls |-> Home] /\ final = [t \in Calls |-> Home]
  /\ line = [t \in Calls |-> 0]

-----------------------------------------------------------------------------
(* The registry *)

SessionOpen(s) ==
  /\ life[s] = "fresh"
  /\ life' = [life EXCEPT ![s] = "open"]
  /\ UNCHANGED <<execVars, cwd, locked, step, session, base, line, final>>

\* Running and queued calls keep the session object.
SessionClose(s) ==
  /\ life[s] = "open"
  /\ life' = [life EXCEPT ![s] = "closed"]
  /\ UNCHANGED <<execVars, cwd, locked, step, session, base, line, final>>

-----------------------------------------------------------------------------
(* ssh_shell_exec *)

\* Look the session up; an unknown id is refused.  Then pool.acquire.
ShellExec(t) ==
  /\ step[t] = "new" /\ life[session[t]] # "fresh"
  /\ step' = [step EXCEPT ![t] = IF life[session[t]] = "open" THEN "acquiring" ELSE "done"]
  /\ UNCHANGED <<execVars, life, cwd, locked, session, base, line, final>>

Acquired(t) ==
  /\ step[t] = "acquiring"
  /\ step' = [step EXCEPT ![t] = "queued"]
  /\ UNCHANGED <<execVars, life, cwd, locked, session, base, line, final>>

\* Mutant: the command is wrapped without waiting for the lock.
EnterUnlocked(t) ==
  /\ step[t] = "queued"
  /\ locked' = [locked EXCEPT ![session[t]] = TRUE]
  /\ step' = [step EXCEPT ![t] = "inside"]
  /\ base' = [base EXCEPT ![t] = cwd[session[t]]]
  /\ UNCHANGED <<execVars, life, cwd, session, line, final>>

\* The lock is free; the command is wrapped with the cwd of this moment.
Enter(t) ==
  /\ step[t] = "queued" /\ ~locked[session[t]]
  /\ locked' = [locked EXCEPT ![session[t]] = TRUE]
  /\ step' = [step EXCEPT ![t] = "inside"]
  /\ base' = [base EXCEPT ![t] = cwd[session[t]]]
  /\ UNCHANGED <<execVars, life, cwd, session, line, final>>

\* Mutant: the lock is released only when a result comes back.
FinishKeepsLock(t) ==
  /\ step' = [step EXCEPT ![t] = "done"]
  /\ locked' = [locked EXCEPT ![session[t]] = step[t] = "inside" /\ outcome'[t] # "ok"]
  /\ base' = [base EXCEPT ![t] = Home] /\ final' = [final EXCEPT ![t] = Home]
  /\ line' = [line EXCEPT ![t] = 0]
  /\ UNCHANGED <<life, session>>

\* The call ends: exec_scope() is left, its locals are gone.
Finish(t) ==
  /\ step' = [step EXCEPT ![t] = "done"]
  /\ locked' = IF step[t] = "inside" THEN [locked EXCEPT ![session[t]] = FALSE] ELSE locked
  /\ base' = [base EXCEPT ![t] = Home] /\ final' = [final EXCEPT ![t] = Home]
  /\ line' = [line EXCEPT ![t] = 0]
  /\ UNCHANGED <<life, session>>

ShellStart(t) == step[t] = "inside" /\ Start(t) /\ UNCHANGED shellVars

\* Output of the user's command; then the sentinel line; then the shell exits.
\* A command that exits its shell never reaches the printf.
CommandWrites(t) == line[t] = 0 /\ Emit(t, "stdout") /\ UNCHANGED shellVars

PrintSentinel(t) ==
  /\ line[t] < 2 /\ Emit(t, "stdout")
  /\ line' = [line EXCEPT ![t] = @ + 1]
  /\ IF line[t] = 0 THEN \E d \in Dirs : final' = [final EXCEPT ![t] = d]
                    ELSE UNCHANGED final
  /\ UNCHANGED <<life, cwd, locked, step, session, base>>

ShellExits(t) == (line[t] # 1 \/ chan[t] # "open") /\ Exit(t) /\ UNCHANGED shellVars

\* Chunks of the sentinel line among the captured output.
Kept(t) == buf'[t]["stdout"] - Lower(buf'[t]["stdout"], sent[t]["stdout"] - line[t])

\* Mutant: the last line is taken for the sentinel line, wherever it ends.
NewCwdAnyLine(t) == IF buf'[t]["stdout"] > 0 THEN {final[t]} ELSE {cwd[session[t]]}

\* strip_sentinel: the rest of the line behind the marker, whole or not.  With
\* nothing behind the marker, as without a marker, the cwd is left alone.
NewCwd(t) ==
  CASE Kept(t) = 2 -> {final[t]}
    [] Kept(t) = 1 -> {Cut[final[t]], cwd[session[t]]}
    [] OTHER -> {cwd[session[t]]}

ShellResult(t) ==
  /\ RunReturns(t) /\ Finish(t)
  /\ \E d \in IF outcome'[t] = "ok" THEN NewCwd(t) ELSE {cwd[session[t]]} :
       cwd' = [cwd EXCEPT ![session[t]] = d]

\* A timeout reports empty output; every other way out raises.
ShellTimeout(t) == Timeout(t) /\ UNCHANGED shellVars
ShellTimedOut(t) == (Pkill(t) \/ PkillFails(t)) /\ Finish(t) /\ UNCHANGED cwd
ShellCancel(t) == step[t] = "inside" /\ Cancel(t) /\ Finish(t) /\ UNCHANGED cwd

\* pool.acquire or the start of the command fails, or the call is cancelled
\* before its command started.
GiveUp(t) ==
  /\ step[t] \in {"acquiring", "queued", "inside"}
  /\ StartFails(t) /\ Finish(t) /\ UNCHANGED cwd

-----------------------------------------------------------------------------
ShellAdvance(t) ==
  \/ ShellExec(t) \/ Acquired(t) \/ Enter(t) \/ ShellStart(t)
  \/ ShellResult(t) \/ ShellTimeout(t) \/ ShellTimedOut(t)

ShellNext ==
  \/ \E s \in Sessions : SessionOpen(s) \/ SessionClose(s)
  \/ \E t \in Calls : ShellAdvance(t) \/ ShellCancel(t) \/ GiveUp(t)
  \/ \E t \in Calls : CommandWrites(t) \/ PrintSentinel(t) \/ ShellExits(t)
  \/ \E t \in Calls : ChanClose(t) /\ UNCHANGED shellVars
  \/ LoseConnection /\ UNCHANGED shellVars

ShellSpec == ShellInit /\ [][ShellNext]_allVars

\* A call that can go on does: pool.acquire ends, the lock wakes its waiters,
\* timers fire.  Nothing is asked of the remote shell.
ShellFairSpec ==
  /\ ShellSpec
  /\ \A t \in Calls : WF_allVars(ShellAdvance(t))

-----------------------------------------------------------------------------
(* Properties *)

\* The inductive invariant behind RunsFromCwd: one call at a time is inside a
\* session, it holds the lock, and commands run only there.
LockInv ==
  /\ \A t \in Calls : /\ step[t] = "inside" => base[t] = cwd[session[t]] /\ locked[session[t]]
                      /\ pc[t] \notin {"idle", "done"} => step[t] = "inside"
  /\ \A t, u \in Calls : step[t] = "inside" /\ step[u] = "inside" /\ session[t] = session[u]
                         => t = u

\* While a command of a session is prepared or runs, the session's directory is
\* the one it was started from: no other call of the session moves it meanwhile
\* (shell_sessions.py:58-60, two calls must not "stomp on each other's cwd").
RunsFromCwd ==
  \A t \in Calls : step[t] = "inside" =>
    base[t] = cwd[session[t]] /\ locked[session[t]]

Returns(t) == outcome[t] = "none" /\ outcome'[t] = "ok"

\* The directory of a session only moves with the normal result of a command
\* that was started from the directory it had.  When all output was captured and
\* the shell reached its printf, it moves to where that shell was; when the shell
\* did not reach it, the directory stays.
CwdMovesWithResults ==
  [][/\ \A s \in Sessions : cwd'[s] # cwd[s] =>
          \E t \in Calls : Returns(t) /\ session[t] = s /\ base[t] = cwd[s]
     /\ \A t \in Calls : Returns(t) =>
          /\ line[t] = 0 => cwd'[session[t]] = cwd[session[t]]
          /\ line[t] = 2 /\ buf'[t]["stdout"] = sent[t]["stdout"]
               => cwd'[session[t]] = final[t]]_allVars

\* "If the sentinel wasn't found (truncated output, ...) callers should leave
\* cwd unchanged": a directory is never recorded from output that was cut.
CwdOnlyFromWholeOutput ==
  [][\A t \in Calls :
       Returns(t) /\ buf'[t]["stdout"] < sent[t]["stdout"]
       => cwd'[session[t]] = cwd[session[t]]]_allVars

\* Every ssh_shell_exec call ends, whatever happens to the calls before it in
\* the session, and even when the session is closed meanwhile.
ShellCallsEnd == \A t \in Calls : step[t] # "new" ~> step[t] = "done"
===============================================================================
