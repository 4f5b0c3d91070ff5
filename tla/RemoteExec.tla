----------------------------- MODULE RemoteExec ------------------------------
(***************************************************************************)
(* Running a command on a remote host: ssh/exec.py, `run` (buffered) and   *)
(* `run_streaming` (two pump tasks, capped buffers, a progress callback),  *)
(* with the clean-up by pkill after a timeout.                             *)
(*                                                                         *)
(* The calls of one host share a connection and the remote process table.  *)
(* Output is counted in chunks, per stream.  A call identity is used once. *)
(* Abstracted: what the output says, its sanitising, telemetry.            *)
(***************************************************************************)
EXTENDS Naturals, FiniteSets

CONSTANTS
  Calls,
  Streaming,   \* the calls that use run_streaming; the others use run
  Commands,
  Matches,     \* <<c, d>>: c, read as a regular expression, is found in the
               \* command line d, so that `pkill -f -- c` signals d
  Cap,         \* stdout_cap, stderr_cap
  MaxOut,      \* bound: chunks a process writes to one stream
  Window       \* asyncssh stops reading a process with this much unread

ASSUME ExecAssumption ==
  /\ Streaming \subseteq Calls
  /\ Matches \subseteq Commands \X Commands
  /\ Cap \in Nat /\ MaxOut \in Nat /\ Window \in Nat \ {0}

Streams == {"stdout", "stderr"}

VARIABLES
  pc,        \* where the call is suspended
  cmd,       \* its command
  proc,      \* its remote process
  chan,      \* its channel: "closed" by the server, "lost" with the connection
  sent,      \* chunks received from the server, per stream
  pump,      \* the pump tasks
  seen,      \* stdout_bytes_seen, stderr_bytes_seen
  buf,       \* length of stdout_buf, stderr_buf
  shown,     \* what chunk_cb has been given
  outcome

execVars == <<pc, cmd, proc, chan, sent, pump, seen, buf, shown, outcome>>

Lower(m, n) == IF m < n THEN m ELSE n

ExecTypeOK ==
  /\ pc \in [Calls -> {"idle", "waiting", "joinOut", "joinErr", "killing", "done"}]
  /\ cmd \in [Calls -> Commands]
  /\ proc \in [Calls -> {"none", "running", "exited", "killed"}]
  /\ chan \in [Calls -> {"none", "open", "closed", "lost"}]
  /\ sent \in [Calls -> [Streams -> 0..MaxOut]]
  /\ pump \in [Calls -> [Streams -> {"none", "reading", "calling", "ended", "failed"}]]
  /\ seen \in [Calls -> [Streams -> 0..MaxOut]]
  /\ buf \in [Calls -> [Streams -> 0..Cap]]
  /\ shown \in [Calls -> [Streams -> 0..Cap]]
  /\ outcome \in [Calls -> {"none", "ok", "timeout", "error", "cancelled"}]

ExecInit ==
  LET both(x) == [t \in Calls |-> [s \in Streams |-> x]] IN
  /\ pc = [t \in Calls |-> "idle"]
  /\ cmd \in [Calls -> Commands]
  /\ proc = [t \in Calls |-> "none"] /\ chan = [t \in Calls |-> "none"]
  /\ sent = both(0) /\ pump = both("none")
  /\ seen = both(0) /\ buf = both(0) /\ shown = both(0)
  /\ outcome = [t \in Calls |-> "none"]

\* The coroutine ends and its channel is closed from this side.
Leave(t, how) ==
  /\ pc' = [pc EXCEPT ![t] = "done"]
  /\ outcome' = [outcome EXCEPT ![t] = how]
  /\ chan' = [chan EXCEPT ![t] = IF @ = "open" THEN "closed" ELSE @]

-----------------------------------------------------------------------------
(* The remote side (external) *)

Unread(t) == (sent[t]["stdout"] + sent[t]["stderr"]) - (seen[t]["stdout"] + seen[t]["stderr"])

\* The process writes; both streams stop when too much is unread, so a pump
\* that died blocks the other one too.
Emit(t, s) ==
  /\ proc[t] = "running" /\ chan[t] = "open" /\ sent[t][s] < MaxOut
  /\ t \in Streaming => Unread(t) < Window
  /\ sent' = [sent EXCEPT ![t][s] = @ + 1]
  /\ UNCHANGED <<pc, cmd, proc, chan, pump, seen, buf, shown, outcome>>

Exit(t) ==
  /\ proc[t] = "running"
  /\ proc' = [proc EXCEPT ![t] = "exited"]
  /\ UNCHANGED <<pc, cmd, chan, sent, pump, seen, buf, shown, outcome>>

\* The server closes the channel of a process that has ended.
ChanClose(t) ==
  /\ proc[t] \in {"exited", "killed"} /\ chan[t] = "open"
  /\ chan' = [chan EXCEPT ![t] = "closed"]
  /\ UNCHANGED <<pc, cmd, proc, sent, pump, seen, buf, shown, outcome>>

\* The connection is lost; the processes do not notice.
LoseConnection ==
  /\ \E t \in Calls : chan[t] = "open"
  /\ chan' = [t \in Calls |-> IF chan[t] = "open" THEN "lost" ELSE chan[t]]
  /\ UNCHANGED <<pc, cmd, proc, sent, pump, seen, buf, shown, outcome>>

-----------------------------------------------------------------------------
(* Both kinds of call *)

\* The channel is opened and the process started.
Start(t) ==
  /\ pc[t] = "idle"
  /\ pc' = [pc EXCEPT ![t] = "waiting"]
  /\ proc' = [proc EXCEPT ![t] = "running"]
  /\ chan' = [chan EXCEPT ![t] = "open"]
  /\ pump' = [pump EXCEPT ![t] = [s \in Streams |-> IF t \in Streaming THEN "reading" ELSE "none"]]
  /\ UNCHANGED <<cmd, sent, seen, buf, shown, outcome>>

\* The connection is dead, or the server refuses: ConnectError.
StartFails(t) ==
  /\ pc[t] = "idle"
  /\ Leave(t, "error")
  /\ UNCHANGED <<cmd, proc, sent, pump, seen, buf, shown>>

\* Mutant: the caps are not applied.
RunReturnsUncapped(t) ==
  /\ t \notin Streaming /\ pc[t] = "waiting" /\ chan[t] \in {"closed", "lost"}
  /\ Leave(t, "ok")
  /\ seen' = [seen EXCEPT ![t] = sent[t]] /\ buf' = [buf EXCEPT ![t] = sent[t]]
  /\ UNCHANGED <<cmd, proc, sent, pump, shown>>

\* conn.run returns what it has collected, and `run` cuts it to the caps.  A
\* lost connection is a result without exit status, or ConnectError.
RunReturns(t) ==
  /\ t \notin Streaming /\ pc[t] = "waiting" /\ chan[t] \in {"closed", "lost"}
  /\ \/ /\ Leave(t, "ok")
        /\ seen' = [seen EXCEPT ![t] = sent[t]]
        /\ buf' = [buf EXCEPT ![t] = [s \in Streams |-> Lower(sent[t][s], Cap)]]
     \/ /\ chan[t] = "lost" /\ Leave(t, "error")
        /\ UNCHANGED <<seen, buf>>
  /\ UNCHANGED <<cmd, proc, sent, pump, shown>>

\* Mutant: wait_for is left out.
TimeoutNever(t) == FALSE /\ UNCHANGED execVars /\ t \in Calls

\* Mutant: the pumps are not cancelled.
TimeoutLeavesPumps(t) ==
  /\ pc[t] = "waiting"
  /\ pc' = [pc EXCEPT ![t] = "killing"]
  /\ proc' \in {proc, IF proc[t] = "running" THEN [proc EXCEPT ![t] = "killed"] ELSE proc}
  /\ UNCHANGED <<cmd, chan, sent, pump, seen, buf, shown, outcome>>

\* wait_for gives up, possibly when the end is already on its way.  A streaming
\* call terminates its process (a server may ignore that), and cancels and
\* awaits its pumps; then either awaits the clean-up.
Timeout(t) ==
  /\ pc[t] = "waiting"
  /\ pc' = [pc EXCEPT ![t] = "killing"]
  /\ \/ UNCHANGED proc
     \/ /\ t \in Streaming /\ proc[t] = "running"
        /\ proc' = [proc EXCEPT ![t] = "killed"]
  /\ pump' = [pump EXCEPT ![t] = [s \in Streams |-> IF t \in Streaming THEN "ended" ELSE "none"]]
  /\ UNCHANGED <<cmd, chan, sent, seen, buf, shown, outcome>>

\* What `timeout 3s pkill -f -- <command>` signals.
Hit(t) == {u \in Calls : proc[u] = "running" /\ <<cmd[t], cmd[u]>> \in Matches}

Pkill(t) ==
  /\ pc[t] = "killing"
  /\ proc' = [u \in Calls |-> IF u \in Hit(t) THEN "killed" ELSE proc[u]]
  /\ Leave(t, "timeout")
  /\ UNCHANGED <<cmd, sent, pump, seen, buf, shown>>

\* The clean-up fails or takes more than its 5 s: ignored.
PkillFails(t) ==
  /\ pc[t] = "killing"
  /\ Leave(t, "timeout")
  /\ UNCHANGED <<cmd, proc, sent, pump, seen, buf, shown>>

\* The client cancels the call.  Only the task that is being awaited is
\* cancelled with it; the remote process stays.
Cancel(t) ==
  /\ pc[t] \notin {"idle", "done"}
  /\ pump' = CASE pc[t] = "joinOut" -> [pump EXCEPT ![t]["stdout"] = "ended"]
               [] pc[t] = "joinErr" -> [pump EXCEPT ![t]["stderr"] = "ended"]
               [] OTHER -> pump
  /\ Leave(t, "cancelled")
  /\ UNCHANGED <<cmd, proc, sent, seen, buf, shown>>

-----------------------------------------------------------------------------
(* run_streaming *)

\* Mutant: the counter is updated only at the end of the stream.
PumpReadCountsAtEof(t, s) ==
  /\ pump[t][s] = "reading" /\ seen[t][s] < sent[t][s]
  /\ buf' = [buf EXCEPT ![t][s] = Lower(sent[t][s], Cap)]
  /\ pump' = [pump EXCEPT ![t][s] = IF Lower(sent[t][s], Cap) > buf[t][s] THEN "calling" ELSE @]
  /\ seen' = [seen EXCEPT ![t][s] = IF chan[t] = "closed" THEN sent[t][s] ELSE @]
  /\ UNCHANGED <<pc, cmd, proc, chan, sent, shown, outcome>>

\* Mutant: the cap is applied to each read.
PumpReadCapsEachRead(t, s) ==
  /\ pump[t][s] = "reading"
  /\ \E n \in 1..(sent[t][s] - seen[t][s]) :
       /\ seen' = [seen EXCEPT ![t][s] = @ + n]
       /\ buf' = [buf EXCEPT ![t][s] = @ + Lower(n, Cap)]
       /\ pump' = [pump EXCEPT ![t][s] = "calling"]
  /\ UNCHANGED <<pc, cmd, proc, chan, sent, shown, outcome>>

\* read() returns a part of what has arrived: count it, keep what the cap
\* allows, and await the callback if anything was kept.
PumpRead(t, s) ==
  /\ pump[t][s] = "reading"
  /\ \E n \in 1..(sent[t][s] - seen[t][s]) :
       LET kept == Lower(n, Cap - buf[t][s]) IN
       /\ seen' = [seen EXCEPT ![t][s] = @ + n]
       /\ buf' = [buf EXCEPT ![t][s] = @ + kept]
       /\ pump' = [pump EXCEPT ![t][s] = IF kept > 0 THEN "calling" ELSE @]
  /\ UNCHANGED <<pc, cmd, proc, chan, sent, shown, outcome>>

ChunkShown(t, s) ==
  /\ pump[t][s] = "calling"
  /\ pump' = [pump EXCEPT ![t][s] = "reading"]
  /\ shown' = [shown EXCEPT ![t][s] = buf[t][s]]
  /\ UNCHANGED <<pc, cmd, proc, chan, sent, seen, buf, outcome>>

\* read() finds the end of the stream; after a lost connection it may raise.
\* The callback may raise at any time.
PumpEnds(t, s) ==
  /\ \/ /\ pump[t][s] = "reading" /\ seen[t][s] = sent[t][s]
        /\ chan[t] \in {"closed", "lost"}
        /\ pump' = [pump EXCEPT ![t][s] = "ended"]
     \/ /\ \/ pump[t][s] = "reading" /\ chan[t] = "lost"
           \/ pump[t][s] = "calling"
        /\ pump' = [pump EXCEPT ![t][s] = "failed"]
  /\ UNCHANGED <<pc, cmd, proc, chan, sent, seen, buf, shown, outcome>>

\* Mutant: the result is built as soon as the channel is closed.
ClosedAndDone(t) ==
  /\ t \in Streaming /\ pc[t] = "waiting" /\ chan[t] \in {"closed", "lost"}
  /\ Leave(t, "ok")
  /\ UNCHANGED <<cmd, proc, sent, pump, seen, buf, shown>>

\* wait_closed() returns; now the pumps are awaited, stdout first.
Closed(t) ==
  /\ t \in Streaming /\ pc[t] = "waiting" /\ chan[t] \in {"closed", "lost"}
  /\ pc' = [pc EXCEPT ![t] = "joinOut"]
  /\ UNCHANGED <<cmd, proc, chan, sent, pump, seen, buf, shown, outcome>>

JoinOut(t) ==
  /\ pc[t] = "joinOut" /\ pump[t]["stdout"] = "ended"
  /\ pc' = [pc EXCEPT ![t] = "joinErr"]
  /\ UNCHANGED <<cmd, proc, chan, sent, pump, seen, buf, shown, outcome>>

JoinErr(t) ==
  /\ pc[t] = "joinErr" /\ pump[t]["stderr"] = "ended"
  /\ Leave(t, "ok")
  /\ UNCHANGED <<cmd, proc, sent, pump, seen, buf, shown>>

\* The exception of a pump is raised where it is awaited.  A TimeoutError
\* cannot be told from wait_for's, so the call takes its timeout path.
JoinFails(t) ==
  /\ \/ pc[t] = "joinOut" /\ pump[t]["stdout"] = "failed"
     \/ pc[t] = "joinErr" /\ pump[t]["stderr"] = "failed"
  /\ \/ Leave(t, "error") /\ UNCHANGED pump
     \/ /\ pc' = [pc EXCEPT ![t] = "killing"]
        /\ pump' = [pump EXCEPT ![t] = [s \in Streams |-> "ended"]]
        /\ UNCHANGED <<chan, outcome>>
  /\ UNCHANGED <<cmd, proc, sent, seen, buf, shown>>

-----------------------------------------------------------------------------
Remote == \/ \E t \in Calls, s \in Streams : Emit(t, s)
          \/ \E t \in Calls : Exit(t) \/ ChanClose(t)
          \/ LoseConnection

PumpStep(t, s) == PumpRead(t, s) \/ ChunkShown(t, s) \/ PumpEnds(t, s)

Advance(t) ==
  \/ RunReturns(t) \/ Timeout(t) \/ Pkill(t) \/ PkillFails(t)
  \/ Closed(t) \/ JoinOut(t) \/ JoinErr(t) \/ JoinFails(t)

ExecNext ==
  \/ Remote
  \/ \E t \in Calls : Start(t) \/ StartFails(t) \/ Advance(t) \/ Cancel(t)
  \/ \E t \in Calls, s \in Streams : PumpStep(t, s)

ExecSpec == ExecInit /\ [][ExecNext]_execVars

\* Timers fire, pkill is capped at 5 s, and the pumps run; the remote process
\* need not do anything.
ExecFairSpec ==
  /\ ExecSpec
  /\ \A t \in Calls : WF_execVars(Advance(t))
  /\ \A t \in Calls, s \in Streams : WF_execVars(PumpStep(t, s))

-----------------------------------------------------------------------------
(* Properties *)

\* At every moment, so also when a timeout, a lost connection or a cancellation
\* cuts the call short, the buffer holds what was counted up to the cap: the
\* truncation flag (seen > cap) tells the truth about the partial output, and
\* the callback has had no more than was captured.
CountsMatch ==
  \A t \in Calls, s \in Streams :
    /\ buf[t][s] = Lower(seen[t][s], Cap)
    /\ t \in Streaming => shown[t][s] <= buf[t][s]

\* A call that returns normally after its channel closed has lost nothing, how
\* far the pumps and the callback may have lagged behind: all output was
\* counted, and all that was captured was shown.
NothingLost ==
  \A t \in Calls : outcome[t] = "ok" /\ chan[t] = "closed" /\ proc[t] = "exited" =>
    /\ seen[t] = sent[t]
    /\ t \in Streaming => shown[t] = buf[t]

\* Once a call has returned a result its buffers stay as they were returned and
\* the callback is not called again: no pump outlives the call.
ResultIsFinal ==
  [][\A t \in Calls : outcome[t] \in {"ok", "timeout"} =>
        UNCHANGED <<seen[t], buf[t], shown[t]>>]_execVars

\* Every call ends, whatever the remote process and the callback do.
CallsEnd == \A t \in Calls : pc[t] # "idle" ~> pc[t] = "done"

\* "clean up the runaway": the clean-up of a call kills its own process only.
KillsOnlyRunaway ==
  [][\A t, u \in Calls : pc[t] = "killing" /\ pc'[t] = "done"
       /\ proc[u] = "running" /\ proc'[u] = "killed" => u = t]_execVars
===============================================================================
