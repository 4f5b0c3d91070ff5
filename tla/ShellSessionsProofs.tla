------------------------- MODULE ShellSessionsProofs --------------------------
(***************************************************************************)
(* Shell sessions, for all sessions, calls and directories: their calls    *)
(* are calls of RemoteExec, so what is proved there holds of them, and a   *)
(* command runs from the directory of its session.                         *)
(***************************************************************************)
EXTENDS ShellSessions, RemoteExecProofs

\* A step of the sessions is a step of the commands they run, or none.
LEMMA ShellStepIsExecStep ==
  ASSUME [ShellNext]_allVars
  PROVE  [ExecNext]_execVars
<1>1. ASSUME NEW s \in Sessions, SessionOpen(s) \/ SessionClose(s) PROVE UNCHANGED execVars
  BY <1>1 DEF SessionOpen, SessionClose
<1>2. ASSUME NEW t \in Calls, ShellExec(t) \/ Acquired(t) \/ Enter(t) PROVE UNCHANGED execVars
  BY <1>2 DEF ShellExec, Acquired, Enter
<1>3. ASSUME NEW t \in Calls, ShellAdvance(t) PROVE [ExecNext]_execVars
  BY <1>2, <1>3
  DEF ShellAdvance, ShellStart, ShellResult, ShellTimeout, ShellTimedOut, ExecNext, Advance
<1>4. ASSUME NEW t \in Calls, ShellCancel(t) \/ GiveUp(t) PROVE ExecNext
  BY <1>4 DEF ShellCancel, GiveUp, ExecNext
<1>5. ASSUME NEW t \in Calls,
             CommandWrites(t) \/ PrintSentinel(t) \/ ShellExits(t) \/ ChanClose(t)
      PROVE  ExecNext
  BY <1>5 DEF CommandWrites, PrintSentinel, ShellExits, ExecNext, Remote, Streams
<1>6. ASSUME LoseConnection PROVE ExecNext
  BY <1>6 DEF ExecNext, Remote
<1>7. CASE UNCHANGED allVars
  BY <1>7 DEF allVars
<1> QED BY <1>1, <1>3, <1>4, <1>5, <1>6, <1>7 DEF ShellNext

\* tools/shell_tools.py:103: a session runs its commands the way ssh_exec_run
\* does.  What is proved of RemoteExec is true of the commands of a session.
THEOREM ShellRunsCommands == ShellSpec => ExecSpec
<1>1. ShellInit => ExecInit
  BY DEF ShellInit
<1>2. [ShellNext]_allVars => [ExecNext]_execVars
  BY ShellStepIsExecStep
<1> QED BY <1>1, <1>2, PTL DEF ShellSpec, ExecSpec

-----------------------------------------------------------------------------
(* Types *)

\* The types of the variables of this module.
OwnTypes ==
  /\ life \in [Sessions -> {"fresh", "open", "closed"}]
  /\ cwd \in [Sessions -> Dirs] /\ locked \in [Sessions -> BOOLEAN]
  /\ step \in [Calls -> {"new", "acquiring", "queued", "inside", "done"}]
  /\ session \in [Calls -> Sessions]
  /\ base \in [Calls -> Dirs] /\ final \in [Calls -> Dirs]
  /\ line \in [Calls -> 0..2]

\* Whatever stands behind the marker, the session gets a directory.
LEMMA NewCwdType ==
  ASSUME OwnTypes, NEW t \in Calls, NEW d \in NewCwd(t)
  PROVE  d \in Dirs
BY ShellAssumption DEF NewCwd, OwnTypes

LEMMA FinishType ==
  ASSUME OwnTypes, NEW t \in Calls, Finish(t), cwd' \in [Sessions -> Dirs]
  PROVE  OwnTypes'
<1>1. locked' \in [Sessions -> BOOLEAN]
  <2>1. CASE step[t] = "inside"
    BY <2>1 DEF OwnTypes, Finish
  <2>2. CASE step[t] # "inside"
    BY <2>2 DEF OwnTypes, Finish
  <2> QED BY <2>1, <2>2
<1>2. /\ base' \in [Calls -> Dirs] /\ final' \in [Calls -> Dirs]
      /\ line' \in [Calls -> 0..2]
  BY ShellAssumption DEF OwnTypes, Finish
<1> QED BY <1>1, <1>2 DEF OwnTypes, Finish

LEMMA ShellResultCwd ==
  ASSUME OwnTypes, NEW t \in Calls, ShellResult(t)
  PROVE  \E d \in Dirs : cwd' = [cwd EXCEPT ![session[t]] = d]
<1>1. PICK d \in IF outcome'[t] = "ok" THEN NewCwd(t) ELSE {cwd[session[t]]} :
        cwd' = [cwd EXCEPT ![session[t]] = d]
  BY DEF ShellResult
<1>2. d \in Dirs
  BY <1>1, NewCwdType DEF OwnTypes
<1> QED BY <1>1, <1>2

LEMMA OwnTypesStep ==
  ASSUME OwnTypes, [ShellNext]_allVars
  PROVE  OwnTypes'
<1>1. ASSUME NEW s \in Sessions, SessionOpen(s) \/ SessionClose(s) PROVE OwnTypes'
  BY <1>1 DEF OwnTypes, SessionOpen, SessionClose
<1>2. ASSUME NEW t \in Calls, ShellExec(t) \/ Acquired(t) PROVE OwnTypes'
  BY <1>2 DEF OwnTypes, ShellExec, Acquired
<1>3. ASSUME NEW t \in Calls, Enter(t) PROVE OwnTypes'
  BY <1>3 DEF OwnTypes, Enter
<1>4. ASSUME NEW t \in Calls, ShellResult(t) PROVE OwnTypes'
  <2>1. cwd' \in [Sessions -> Dirs]
    BY <1>4, ShellResultCwd DEF OwnTypes
  <2> QED BY <1>4, <2>1, FinishType DEF ShellResult
<1>5. ASSUME NEW t \in Calls, ShellTimedOut(t) \/ ShellCancel(t) \/ GiveUp(t) PROVE OwnTypes'
  <2>1. Finish(t) /\ cwd' = cwd
    BY <1>5 DEF ShellTimedOut, ShellCancel, GiveUp
  <2> QED BY <2>1, FinishType DEF OwnTypes
<1>6. ASSUME NEW t \in Calls, PrintSentinel(t) PROVE OwnTypes'
  <2>1. line' \in [Calls -> 0..2]
    BY <1>6 DEF OwnTypes, PrintSentinel
  <2>2. final' \in [Calls -> Dirs]
    BY <1>6 DEF OwnTypes, PrintSentinel
  <2> QED BY <1>6, <2>1, <2>2 DEF OwnTypes, PrintSentinel
<1>7. ASSUME UNCHANGED shellVars PROVE OwnTypes'
  BY <1>7 DEF OwnTypes, shellVars
<1> QED
  BY <1>1, <1>2, <1>3, <1>4, <1>5, <1>6, <1>7
  DEF ShellNext, ShellAdvance, ShellStart, ShellTimeout, CommandWrites, ShellExits, allVars

\* Type correctness of shell sessions.
THEOREM ShellTypeCorrect == ShellSpec => []ShellTypeOK
<1>1. ShellInit => OwnTypes
  BY ShellAssumption DEF ShellInit, OwnTypes
<1>2. OwnTypes /\ [ShellNext]_allVars => OwnTypes'
  BY OwnTypesStep
<1>3. ShellSpec => []OwnTypes
  BY <1>1, <1>2, PTL DEF ShellSpec
<1>4. ExecTypeOK /\ OwnTypes => ShellTypeOK
  BY DEF OwnTypes, ShellTypeOK
<1> QED BY <1>3, <1>4, ShellRunsCommands, ExecTypeCorrect, PTL

-----------------------------------------------------------------------------
(* The session lock *)

\* A call that ends gives the lock back; the other calls inside a session are
\* inside another one, so their directory is not the one that moves.
LEMMA FinishKeepsLockInv ==
  ASSUME ExecTypeOK, OwnTypes, LockInv, NEW t \in Calls, Finish(t),
         pc' = [pc EXCEPT ![t] = "done"],
         \/ cwd' = cwd
         \/ step[t] = "inside" /\ \E d \in Dirs : cwd' = [cwd EXCEPT ![session[t]] = d]
  PROVE  LockInv'
<1>1. /\ step'[t] = "done" /\ pc'[t] = "done" /\ session' = session
      /\ \A u \in Calls : u # t => step'[u] = step[u] /\ pc'[u] = pc[u] /\ base'[u] = base[u]
  BY DEF Finish, OwnTypes, ExecTypeOK
<1>2. ASSUME NEW u \in Calls, u # t, step[u] = "inside"
      PROVE  cwd'[session[u]] = cwd[session[u]] /\ locked'[session[u]] = locked[session[u]]
  <2>1. CASE step[t] = "inside"
    <3>1. session[u] # session[t]
      BY <1>2, <2>1 DEF LockInv
    <3> QED BY <3>1 DEF Finish, OwnTypes
  <2>2. CASE step[t] # "inside"
    BY <2>2 DEF Finish
  <2> QED BY <2>1, <2>2
<1>3. ASSUME NEW u \in Calls
      PROVE  /\ step'[u] = "inside" => base'[u] = cwd'[session'[u]] /\ locked'[session'[u]]
             /\ pc'[u] \notin {"idle", "done"} => step'[u] = "inside"
  <2>1. CASE u = t
    BY <1>1, <2>1
  <2>2. CASE u # t
    BY <1>1, <1>2, <2>2 DEF LockInv
  <2> QED BY <2>1, <2>2
<1>4. ASSUME NEW u \in Calls, NEW v \in Calls, step'[u] = "inside", step'[v] = "inside",
             session'[u] = session'[v]
      PROVE  u = v
  BY <1>1, <1>4 DEF LockInv
<1> QED BY <1>3, <1>4 DEF LockInv

LEMMA LockStep ==
  ASSUME ExecTypeOK, OwnTypes, LockInv, [ShellNext]_allVars
  PROVE  LockInv'
<1>1. ASSUME UNCHANGED <<pc, cwd, locked, step, session, base>> PROVE LockInv'
  BY <1>1 DEF LockInv
<1>2. ASSUME NEW t \in Calls, ShellExec(t) \/ Acquired(t) PROVE LockInv'
  <2>1. /\ UNCHANGED <<pc, cwd, locked, session, base>>
        /\ step[t] # "inside" /\ step'[t] # "inside"
        /\ \A u \in Calls : u # t => step'[u] = step[u]
    BY <1>2 DEF ShellExec, Acquired, OwnTypes, execVars
  <2> QED BY <2>1 DEF LockInv
<1>3. ASSUME NEW t \in Calls, Enter(t) PROVE LockInv'
  <2>1. /\ UNCHANGED <<pc, cwd, session>> /\ ~locked[session[t]] /\ step[t] = "queued"
        /\ step'[t] = "inside" /\ base'[t] = cwd[session[t]] /\ locked'[session[t]]
        /\ \A u \in Calls : u # t => step'[u] = step[u] /\ base'[u] = base[u]
        /\ \A s \in Sessions : locked[s] => locked'[s]
    BY <1>3 DEF Enter, OwnTypes, execVars
  <2>2. \A u \in Calls : step[u] = "inside" => session[u] # session[t]
    BY <2>1 DEF LockInv
  <2>3. ASSUME NEW u \in Calls
        PROVE  /\ step'[u] = "inside" => base'[u] = cwd'[session'[u]] /\ locked'[session'[u]]
               /\ pc'[u] \notin {"idle", "done"} => step'[u] = "inside"
    BY <2>1 DEF LockInv, OwnTypes
  <2>4. ASSUME NEW u \in Calls, NEW v \in Calls, step'[u] = "inside", step'[v] = "inside",
               session'[u] = session'[v]
        PROVE  u = v
    BY <2>1, <2>2, <2>4 DEF LockInv
  <2> QED BY <2>3, <2>4 DEF LockInv
<1>4. ASSUME NEW t \in Calls, ShellStart(t) \/ ShellTimeout(t) PROVE LockInv'
  <2>1. /\ UNCHANGED <<cwd, locked, step, session, base>>
        /\ \A u \in Calls : u # t => pc'[u] = pc[u]
        /\ step[t] = "inside"
    BY <1>4 DEF ShellStart, Start, ShellTimeout, Timeout, shellVars, ExecTypeOK, LockInv
  <2> QED BY <2>1 DEF LockInv
<1>5. ASSUME NEW t \in Calls, ShellResult(t) PROVE LockInv'
  <2>1. pc' = [pc EXCEPT ![t] = "done"] /\ Finish(t) /\ pc[t] = "waiting"
    BY <1>5 DEF ShellResult, RunReturns, Leave
  <2>2. step[t] = "inside"
    BY <2>1 DEF LockInv
  <2> QED BY <1>5, <2>1, <2>2, ShellResultCwd, FinishKeepsLockInv
<1>6. ASSUME NEW t \in Calls, ShellTimedOut(t) \/ ShellCancel(t) \/ GiveUp(t) PROVE LockInv'
  <2>1. pc' = [pc EXCEPT ![t] = "done"] /\ Finish(t) /\ cwd' = cwd
    BY <1>6 DEF ShellTimedOut, Pkill, PkillFails, ShellCancel, Cancel, GiveUp, StartFails, Leave
  <2> QED BY <2>1, FinishKeepsLockInv
<1> QED
  BY <1>1, <1>2, <1>3, <1>4, <1>5, <1>6
  DEF ShellNext, ShellAdvance, SessionOpen, SessionClose, CommandWrites, PrintSentinel,
      ShellExits, Emit, Exit, ChanClose, LoseConnection, allVars, execVars, shellVars

\* services/shell_sessions.py:58-60 (INC-023): from the moment a call wraps its
\* command until it leaves exec_scope, the directory of its session is the one
\* its command was started from, for any number of calls and sessions.
THEOREM RunsFromCwdAlways == ShellSpec => []RunsFromCwd
<1>1. ShellInit => LockInv
  BY DEF ShellInit, ExecInit, LockInv
<1>2. ShellTypeOK => ExecTypeOK /\ OwnTypes
  BY DEF ShellTypeOK, OwnTypes
<1>3. ExecTypeOK /\ OwnTypes /\ LockInv /\ [ShellNext]_allVars => LockInv'
  BY LockStep
<1>4. LockInv => RunsFromCwd
  BY DEF LockInv, RunsFromCwd
<1> QED BY <1>1, <1>2, <1>3, <1>4, ShellTypeCorrect, PTL DEF ShellSpec

-----------------------------------------------------------------------------
(* How a directory moves *)

LEMMA LockAlways == ShellSpec => []LockInv
<1>1. ShellInit => LockInv
  BY DEF ShellInit, ExecInit, LockInv
<1>2. ShellTypeOK => ExecTypeOK /\ OwnTypes
  BY DEF ShellTypeOK, OwnTypes
<1> QED BY <1>1, <1>2, LockStep, ShellTypeCorrect, PTL DEF ShellSpec

\* A normal result, and a directory that moves, come from nothing but the end of
\* a command.
LEMMA MovesComeFromResults ==
  ASSUME ExecTypeOK, OwnTypes, [ShellNext]_allVars
  PROVE  /\ \A t \in Calls : Returns(t) => ShellResult(t) /\ outcome'[t] = "ok"
         /\ cwd' # cwd => \E t \in Calls : ShellResult(t) /\ outcome'[t] = "ok"
<1> DEFINE Goal == /\ \A t \in Calls : Returns(t) => ShellResult(t) /\ outcome'[t] = "ok"
                   /\ cwd' # cwd => \E t \in Calls : ShellResult(t) /\ outcome'[t] = "ok"
<1>1. ASSUME UNCHANGED <<outcome, cwd>> PROVE Goal
  BY <1>1 DEF Returns
<1>2. ASSUME NEW t \in Calls, cwd' = cwd, NEW how \in {"timeout", "error", "cancelled"}, Leave(t, how)
      PROVE  Goal
  BY <1>2 DEF Leave, Returns, ExecTypeOK
<1>3. ASSUME NEW t \in Calls, ShellTimedOut(t) \/ ShellCancel(t) \/ GiveUp(t) PROVE Goal
  BY <1>2, <1>3 DEF ShellTimedOut, Pkill, PkillFails, ShellCancel, Cancel, GiveUp, StartFails
<1>4. ASSUME NEW t \in Calls, ShellResult(t) PROVE Goal
  <2>1. \A u \in Calls : u # t => outcome'[u] = outcome[u]
    BY <1>4 DEF ShellResult, RunReturns, Leave, ExecTypeOK
  <2>2. CASE outcome'[t] = "ok"
    BY <1>4, <2>1, <2>2 DEF Returns
  <2>3. CASE outcome'[t] # "ok"
    <3>1. cwd' = [cwd EXCEPT ![session[t]] = cwd[session[t]]]
      BY <1>4, <2>3 DEF ShellResult
    <3>2. cwd' = cwd
      BY <3>1 DEF OwnTypes
    <3> QED BY <2>1, <2>3, <3>2 DEF Returns
  <2> QED BY <2>2, <2>3
<1>5. ASSUME NEW t \in Calls,
             \/ ShellExec(t) \/ Acquired(t) \/ Enter(t) \/ ShellStart(t) \/ ShellTimeout(t)
             \/ CommandWrites(t) \/ PrintSentinel(t) \/ ShellExits(t)
             \/ ChanClose(t) /\ UNCHANGED shellVars
      PROVE  UNCHANGED <<outcome, cwd>>
  BY <1>5
  DEF ShellExec, Acquired, Enter, ShellStart, Start, ShellTimeout, Timeout, CommandWrites,
      PrintSentinel, Emit, ShellExits, Exit, ChanClose, execVars, shellVars
<1>6. ASSUME \/ \E s \in Sessions : SessionOpen(s) \/ SessionClose(s)
             \/ LoseConnection /\ UNCHANGED shellVars
             \/ UNCHANGED allVars
      PROVE  UNCHANGED <<outcome, cwd>>
  BY <1>6 DEF SessionOpen, SessionClose, LoseConnection, execVars, shellVars, allVars
<1>7. Goal
  BY <1>1, <1>3, <1>4, <1>5, <1>6 DEF ShellNext, ShellAdvance
<1> QED BY <1>7

\* What strip_sentinel finds in the output of a command that ended: nothing if
\* the shell never printed the line, all of it if the output was not cut.
LEMMA SentinelFound ==
  ASSUME ExecTypeOK, OwnTypes, NEW t \in Calls, ShellResult(t), outcome'[t] = "ok", outcome[t] = "none"
  PROVE  /\ line[t] = 0 => NewCwd(t) = {cwd[session[t]]}
         /\ line[t] = 2 /\ buf'[t]["stdout"] = sent[t]["stdout"] => NewCwd(t) = {final[t]}
<1>0. MaxOut \in Nat /\ Cap \in Nat /\ "stdout" \in Streams
  BY ExecAssumption DEF Streams
<1>1. sent[t]["stdout"] \in Nat
  BY <1>0 DEF ExecTypeOK
<1>2. RunReturns(t) /\ Leave(t, "ok")
  BY DEF ShellResult, RunReturns, Leave, ExecTypeOK
<1>3. buf'[t]["stdout"] = Lower(sent[t]["stdout"], Cap)
  BY <1>0, <1>2 DEF RunReturns, Leave, ExecTypeOK
<1>4. buf'[t]["stdout"] \in Nat /\ buf'[t]["stdout"] <= sent[t]["stdout"]
  BY <1>0, <1>1, <1>3, LowerBound
<1>5. ASSUME line[t] = 0 PROVE Kept(t) = 0
  BY <1>1, <1>4, <1>5 DEF Kept, Lower
<1>6. ASSUME line[t] = 2, buf'[t]["stdout"] = sent[t]["stdout"] PROVE Kept(t) = 2
  BY <1>1, <1>6 DEF Kept, Lower
<1> QED BY <1>5, <1>6 DEF NewCwd

\* The directory of a session moves only with the result of a command that was
\* started from it, to where the shell of that command was, for any number of
\* sessions and calls: no timeout, cancellation, lost connection or close of the
\* session moves it.
THEOREM CwdMovesOnlyWithResults == ShellSpec => CwdMovesWithResults
<1> DEFINE Moves == /\ \A s \in Sessions : cwd'[s] # cwd[s] =>
                         \E t \in Calls : Returns(t) /\ session[t] = s /\ base[t] = cwd[s]
                    /\ \A t \in Calls : Returns(t) =>
                         /\ line[t] = 0 => cwd'[session[t]] = cwd[session[t]]
                         /\ line[t] = 2 /\ buf'[t]["stdout"] = sent[t]["stdout"]
                              => cwd'[session[t]] = final[t]
<1>1. ExecTypeOK /\ OwnTypes /\ LockInv /\ PumpsInv /\ [ShellNext]_allVars => Moves
  <2> SUFFICES ASSUME ExecTypeOK, OwnTypes, LockInv, PumpsInv, [ShellNext]_allVars PROVE Moves
    OBVIOUS
  <2>1. ASSUME NEW t \in Calls, ShellResult(t), outcome'[t] = "ok"
        PROVE  /\ Returns(t) /\ base[t] = cwd[session[t]] /\ session[t] \in Sessions
               /\ \E d \in NewCwd(t) : cwd' = [cwd EXCEPT ![session[t]] = d]
    <3>1. pc[t] = "waiting"
      BY <2>1 DEF ShellResult, RunReturns
    <3>2. outcome[t] = "none"
      BY <3>1 DEF PumpsInv, PumpsIdle
    <3>3. step[t] = "inside" /\ base[t] = cwd[session[t]]
      BY <3>1 DEF LockInv
    <3> QED BY <2>1, <3>2, <3>3 DEF ShellResult, Returns, OwnTypes
  <2>2. ASSUME NEW s \in Sessions, cwd'[s] # cwd[s]
        PROVE  \E t \in Calls : Returns(t) /\ session[t] = s /\ base[t] = cwd[s]
    <3>1. PICK t \in Calls : ShellResult(t) /\ outcome'[t] = "ok"
      BY <2>2, MovesComeFromResults
    <3>2. session[t] = s
      BY <2>1, <2>2, <3>1 DEF OwnTypes
    <3> QED BY <2>1, <3>1, <3>2
  <2>3. ASSUME NEW t \in Calls, Returns(t)
        PROVE  /\ line[t] = 0 => cwd'[session[t]] = cwd[session[t]]
               /\ line[t] = 2 /\ buf'[t]["stdout"] = sent[t]["stdout"] => cwd'[session[t]] = final[t]
    <3>1. ShellResult(t) /\ outcome'[t] = "ok" /\ outcome[t] = "none"
      BY <2>3, MovesComeFromResults DEF Returns
    <3>2. PICK d \in NewCwd(t) : cwd' = [cwd EXCEPT ![session[t]] = d]
      BY <2>1, <3>1
    <3>3. cwd'[session[t]] = d
      BY <3>2 DEF OwnTypes
    <3> QED BY <3>1, <3>2, <3>3, SentinelFound
  <2> QED BY <2>2, <2>3
<1>2. ShellTypeOK => ExecTypeOK /\ OwnTypes
  BY DEF ShellTypeOK, OwnTypes
<1>3. ShellSpec => [][Moves]_allVars
  BY <1>1, <1>2, ShellTypeCorrect, LockAlways, ShellRunsCommands, PumpsAlways, PTL DEF ShellSpec
<1> QED BY <1>3 DEF CwdMovesWithResults
===============================================================================
