--------------------------- MODULE RemoteExecProofs ---------------------------
(***************************************************************************)
(* RemoteExec, for all calls, caps and windows: types, the truth of the    *)
(* output counters, the finality of results, and that nothing is lost.     *)
(***************************************************************************)
EXTENDS RemoteExec, TLAPS

\* A length cut to the cap is a length within the cap.
LEMMA LowerBound ==
  ASSUME NEW m \in Nat, NEW n \in Nat
  PROVE  /\ Lower(m, n) \in Nat /\ Lower(m, n) <= n /\ Lower(m, n) <= m
         /\ Lower(m, n) \in 0..n
BY DEF Lower

\* Leaving a call keeps the types of the three variables it sets.
LEMMA LeaveType ==
  ASSUME ExecTypeOK, NEW t \in Calls, NEW how \in {"ok", "timeout", "error", "cancelled"},
         Leave(t, how)
  PROVE  /\ pc' \in [Calls -> {"idle", "waiting", "joinOut", "joinErr", "killing", "done"}]
         /\ chan' \in [Calls -> {"none", "open", "closed", "lost"}]
         /\ outcome' \in [Calls -> {"none", "ok", "timeout", "error", "cancelled"}]
BY DEF ExecTypeOK, Leave

\* A read by a pump keeps the types: what is counted has been sent, what is
\* kept fits under the cap.
LEMMA PumpReadType ==
  ASSUME ExecTypeOK, NEW t \in Calls, NEW s \in Streams, PumpRead(t, s)
  PROVE  ExecTypeOK'
<1>1. PICK n \in 1..(sent[t][s] - seen[t][s]) :
        LET kept == Lower(n, Cap - buf[t][s]) IN
        /\ seen' = [seen EXCEPT ![t][s] = @ + n]
        /\ buf' = [buf EXCEPT ![t][s] = @ + kept]
        /\ pump' = [pump EXCEPT ![t][s] = IF kept > 0 THEN "calling" ELSE @]
  BY DEF PumpRead
<1>2. /\ sent[t][s] \in 0..MaxOut /\ seen[t][s] \in 0..MaxOut /\ buf[t][s] \in 0..Cap
      /\ MaxOut \in Nat /\ Cap \in Nat
  BY ExecAssumption DEF ExecTypeOK
<1>3. Lower(n, Cap - buf[t][s]) \in 0..(Cap - buf[t][s])
  <2>1. n \in Nat /\ Cap - buf[t][s] \in Nat
    BY <1>2
  <2> QED BY <2>1, LowerBound
<1>4. seen[t][s] + n \in 0..MaxOut /\ buf[t][s] + Lower(n, Cap - buf[t][s]) \in 0..Cap
  BY <1>2, <1>3
<1>5. /\ seen' \in [Calls -> [Streams -> 0..MaxOut]]
      /\ buf' \in [Calls -> [Streams -> 0..Cap]]
      /\ pump' \in [Calls -> [Streams -> {"none", "reading", "calling", "ended", "failed"}]]
  BY <1>1, <1>4 DEF ExecTypeOK
<1> QED
  BY <1>5 DEF ExecTypeOK, PumpRead

\* Every step keeps the types.
LEMMA ExecTypeStep ==
  ASSUME ExecTypeOK, [ExecNext]_execVars
  PROVE  ExecTypeOK'
<1>0. MaxOut \in Nat /\ Cap \in Nat
  BY ExecAssumption
<1>1. ASSUME NEW t \in Calls, NEW s \in Streams, Emit(t, s) PROVE ExecTypeOK'
  <2>1. sent[t][s] + 1 \in 0..MaxOut
    BY <1>0, <1>1 DEF ExecTypeOK, Emit
  <2> QED BY <1>1, <2>1 DEF ExecTypeOK, Emit
<1>2. ASSUME NEW t \in Calls, Exit(t) PROVE ExecTypeOK'
  BY <1>2 DEF ExecTypeOK, Exit
<1>3. ASSUME NEW t \in Calls, ChanClose(t) PROVE ExecTypeOK'
  BY <1>3 DEF ExecTypeOK, ChanClose
<1>4. ASSUME LoseConnection PROVE ExecTypeOK'
  BY <1>4 DEF ExecTypeOK, LoseConnection
<1>5. ASSUME NEW t \in Calls, Start(t) PROVE ExecTypeOK'
  BY <1>5 DEF ExecTypeOK, Start
<1>6. ASSUME NEW t \in Calls, StartFails(t) PROVE ExecTypeOK'
  BY <1>6, LeaveType DEF ExecTypeOK, StartFails
<1>7. ASSUME NEW t \in Calls, RunReturns(t) PROVE ExecTypeOK'
  <2>1. CASE Leave(t, "ok") /\ seen' = [seen EXCEPT ![t] = sent[t]]
             /\ buf' = [buf EXCEPT ![t] = [s \in Streams |-> Lower(sent[t][s], Cap)]]
    <3>1. \A s \in Streams : Lower(sent[t][s], Cap) \in 0..Cap
      <4> TAKE s \in Streams
      <4>1. sent[t][s] \in Nat
        BY <1>0 DEF ExecTypeOK
      <4> QED BY <1>0, <4>1, LowerBound
    <3>2. sent[t] \in [Streams -> 0..MaxOut]
      BY DEF ExecTypeOK
    <3>3. [s \in Streams |-> Lower(sent[t][s], Cap)] \in [Streams -> 0..Cap]
      BY <3>1
    <3>4. /\ seen' \in [Calls -> [Streams -> 0..MaxOut]]
          /\ buf' \in [Calls -> [Streams -> 0..Cap]]
      BY <2>1, <3>2, <3>3 DEF ExecTypeOK
    <3> QED BY <1>7, <2>1, <3>4, LeaveType DEF ExecTypeOK, RunReturns
  <2>2. CASE Leave(t, "error") /\ UNCHANGED <<seen, buf>>
    BY <1>7, <2>2, LeaveType DEF ExecTypeOK, RunReturns
  <2> QED BY <1>7, <2>1, <2>2 DEF RunReturns
<1>8. ASSUME NEW t \in Calls, Timeout(t) PROVE ExecTypeOK'
  BY <1>8 DEF ExecTypeOK, Timeout
<1>9. ASSUME NEW t \in Calls, Pkill(t) PROVE ExecTypeOK'
  BY <1>9, LeaveType DEF ExecTypeOK, Pkill
<1>10. ASSUME NEW t \in Calls, PkillFails(t) PROVE ExecTypeOK'
  BY <1>10, LeaveType DEF ExecTypeOK, PkillFails
<1>11. ASSUME NEW t \in Calls, Cancel(t) PROVE ExecTypeOK'
  <2>1. pump' \in [Calls -> [Streams -> {"none", "reading", "calling", "ended", "failed"}]]
    <3>1. CASE pc[t] = "joinOut"
      BY <1>11, <3>1 DEF ExecTypeOK, Cancel, Streams
    <3>2. CASE pc[t] = "joinErr"
      BY <1>11, <3>2 DEF ExecTypeOK, Cancel, Streams
    <3>3. CASE pc[t] \notin {"joinOut", "joinErr"}
      BY <1>11, <3>3 DEF ExecTypeOK, Cancel
    <3> QED BY <3>1, <3>2, <3>3
  <2> QED BY <1>11, <2>1, LeaveType DEF ExecTypeOK, Cancel
<1>12. ASSUME NEW t \in Calls, NEW s \in Streams, ChunkShown(t, s) PROVE ExecTypeOK'
  BY <1>12 DEF ExecTypeOK, ChunkShown
<1>13. ASSUME NEW t \in Calls, NEW s \in Streams, PumpEnds(t, s) PROVE ExecTypeOK'
  <2>1. \/ pump' = [pump EXCEPT ![t][s] = "ended"]
        \/ pump' = [pump EXCEPT ![t][s] = "failed"]
    BY <1>13 DEF PumpEnds
  <2>2. pump' \in [Calls -> [Streams -> {"none", "reading", "calling", "ended", "failed"}]]
    <3>1. CASE pump' = [pump EXCEPT ![t][s] = "ended"]
      BY <3>1 DEF ExecTypeOK
    <3>2. CASE pump' = [pump EXCEPT ![t][s] = "failed"]
      BY <3>2 DEF ExecTypeOK
    <3> QED BY <2>1, <3>1, <3>2
  <2> QED BY <1>13, <2>2 DEF ExecTypeOK, PumpEnds
<1>14. ASSUME NEW t \in Calls, Closed(t) \/ JoinOut(t) PROVE ExecTypeOK'
  BY <1>14 DEF ExecTypeOK, Closed, JoinOut
<1>15. ASSUME NEW t \in Calls, JoinErr(t) PROVE ExecTypeOK'
  BY <1>15, LeaveType DEF ExecTypeOK, JoinErr
<1>16. ASSUME NEW t \in Calls, JoinFails(t) PROVE ExecTypeOK'
  <2>1. CASE Leave(t, "error") /\ UNCHANGED pump
    BY <1>16, <2>1, LeaveType DEF ExecTypeOK, JoinFails
  <2>2. CASE /\ pc' = [pc EXCEPT ![t] = "killing"]
             /\ pump' = [pump EXCEPT ![t] = [s \in Streams |-> "ended"]]
             /\ UNCHANGED <<chan, outcome>>
    BY <1>16, <2>2 DEF ExecTypeOK, JoinFails
  <2> QED BY <1>16, <2>1, <2>2 DEF JoinFails
<1>17. CASE UNCHANGED execVars
  BY <1>17 DEF ExecTypeOK, execVars
<1> QED
  BY <1>1, <1>2, <1>3, <1>4, <1>5, <1>6, <1>7, <1>8, <1>9, <1>10, <1>11, <1>12, <1>13,
     <1>14, <1>15, <1>16, <1>17, PumpReadType
  DEF ExecNext, Remote, PumpStep, Advance

\* Type correctness of running commands (ssh/exec.py): in particular no buffer
\* outgrows its cap.
THEOREM ExecTypeCorrect == ExecSpec => []ExecTypeOK
<1>1. ExecInit => ExecTypeOK
  <2> SUFFICES ASSUME ExecInit PROVE ExecTypeOK
    OBVIOUS
  <2>1. 0 \in 0..MaxOut /\ 0 \in 0..Cap
    BY ExecAssumption
  <2>2. /\ sent \in [Calls -> [Streams -> 0..MaxOut]] /\ seen \in [Calls -> [Streams -> 0..MaxOut]]
        /\ buf \in [Calls -> [Streams -> 0..Cap]] /\ shown \in [Calls -> [Streams -> 0..Cap]]
    BY <2>1 DEF ExecInit
  <2> QED BY <2>2 DEF ExecInit, ExecTypeOK
<1>2. ExecTypeOK /\ [ExecNext]_execVars => ExecTypeOK'
  BY ExecTypeStep
<1> QED BY <1>1, <1>2, PTL DEF ExecSpec
-----------------------------------------------------------------------------
(* The counters *)

\* What was counted and captured before a read is captured after it.
LEMMA LowerAdds ==
  ASSUME NEW m \in Nat, NEW n \in Nat, NEW c \in Nat
  PROVE  Lower(m, c) + Lower(n, c - Lower(m, c)) = Lower(m + n, c)
BY DEF Lower

\* Every step keeps the counters true.  Only three actions touch them: the end
\* of a buffered call, which sets both, a read, and the callback.
LEMMA CountsStep ==
  ASSUME ExecTypeOK, CountsMatch, [ExecNext]_execVars
  PROVE  CountsMatch'
<1>0. MaxOut \in Nat /\ Cap \in Nat
  BY ExecAssumption
<1>1. ASSUME UNCHANGED <<seen, buf, shown>> PROVE CountsMatch'
  BY <1>1 DEF CountsMatch
<1>2. ASSUME NEW t \in Calls, RunReturns(t) PROVE CountsMatch'
  <2>1. CASE Leave(t, "ok") /\ seen' = [seen EXCEPT ![t] = sent[t]]
             /\ buf' = [buf EXCEPT ![t] = [s \in Streams |-> Lower(sent[t][s], Cap)]]
    <3>1. t \notin Streaming /\ shown' = shown
      BY <1>2 DEF RunReturns
    <3> SUFFICES ASSUME NEW u \in Calls, NEW s \in Streams
                 PROVE  /\ buf'[u][s] = Lower(seen'[u][s], Cap)
                        /\ u \in Streaming => shown'[u][s] <= buf'[u][s]
      BY DEF CountsMatch
    <3>2. CASE u = t
      BY <2>1, <3>1, <3>2 DEF ExecTypeOK
    <3>3. CASE u # t
      <4>1. buf'[u] = buf[u] /\ seen'[u] = seen[u] /\ shown'[u] = shown[u]
        BY <2>1, <3>1, <3>3 DEF ExecTypeOK
      <4> QED BY <4>1 DEF CountsMatch
    <3> QED BY <3>2, <3>3
  <2>2. CASE UNCHANGED <<seen, buf>>
    BY <1>1, <1>2, <2>2 DEF RunReturns
  <2> QED BY <1>2, <2>1, <2>2 DEF RunReturns
<1>3. ASSUME NEW t \in Calls, NEW s \in Streams, PumpRead(t, s) PROVE CountsMatch'
  <2>1. PICK n \in 1..(sent[t][s] - seen[t][s]) :
          /\ seen' = [seen EXCEPT ![t][s] = @ + n]
          /\ buf' = [buf EXCEPT ![t][s] = @ + Lower(n, Cap - buf[t][s])]
    BY <1>3 DEF PumpRead
  <2>2. /\ n \in Nat /\ sent[t][s] \in Nat /\ seen[t][s] \in Nat /\ buf[t][s] \in 0..Cap
        /\ shown[t][s] \in Nat /\ shown' = shown
    BY <1>0, <1>3 DEF ExecTypeOK, PumpRead
  <2>3. buf[t][s] = Lower(seen[t][s], Cap)
    BY DEF CountsMatch
  <2>4. buf[t][s] + Lower(n, Cap - buf[t][s]) = Lower(seen[t][s] + n, Cap)
    BY <1>0, <2>2, <2>3, LowerAdds
  <2>5. Lower(n, Cap - buf[t][s]) \in Nat
    <3>1. Cap - buf[t][s] \in Nat
      BY <1>0, <2>2
    <3> QED BY <2>2, <3>1, LowerBound
  <2> SUFFICES ASSUME NEW u \in Calls, NEW r \in Streams
               PROVE  /\ buf'[u][r] = Lower(seen'[u][r], Cap)
                      /\ u \in Streaming => shown'[u][r] <= buf'[u][r]
    BY DEF CountsMatch
  <2>6. CASE u = t /\ r = s
    <3>1. /\ buf'[t][s] = buf[t][s] + Lower(n, Cap - buf[t][s])
          /\ seen'[t][s] = seen[t][s] + n
      BY <2>1 DEF ExecTypeOK
    <3>2. t \in Streaming => shown[t][s] <= buf[t][s]
      BY DEF CountsMatch
    <3>3. t \in Streaming => shown[t][s] <= buf[t][s] + Lower(n, Cap - buf[t][s])
      BY <1>0, <2>2, <2>5, <3>2
    <3> QED BY <2>2, <2>4, <2>6, <3>1, <3>3
  <2>7. CASE ~(u = t /\ r = s)
    <3>1. buf'[u][r] = buf[u][r] /\ seen'[u][r] = seen[u][r] /\ shown'[u][r] = shown[u][r]
      BY <2>1, <2>2, <2>7 DEF ExecTypeOK
    <3> QED BY <3>1 DEF CountsMatch
  <2> QED BY <2>6, <2>7
<1>4. ASSUME NEW t \in Calls, NEW s \in Streams, ChunkShown(t, s) PROVE CountsMatch'
  <2>1. /\ shown' = [shown EXCEPT ![t][s] = buf[t][s]] /\ UNCHANGED <<seen, buf>>
    BY <1>4 DEF ChunkShown
  <2> SUFFICES ASSUME NEW u \in Calls, NEW r \in Streams
               PROVE  /\ buf'[u][r] = Lower(seen'[u][r], Cap)
                      /\ u \in Streaming => shown'[u][r] <= buf'[u][r]
    BY DEF CountsMatch
  <2>2. buf[u][r] \in Nat
    BY <1>0 DEF ExecTypeOK
  <2>3. shown'[u][r] = shown[u][r] \/ shown'[u][r] = buf[u][r]
    BY <2>1 DEF ExecTypeOK
  <2>4. /\ buf[u][r] = Lower(seen[u][r], Cap)
        /\ u \in Streaming => shown[u][r] <= buf[u][r]
    BY DEF CountsMatch
  <2> QED BY <2>1, <2>2, <2>3, <2>4
<1> QED
  BY <1>1, <1>2, <1>3, <1>4
  DEF ExecNext, Remote, PumpStep, Advance, Emit, Exit, ChanClose, LoseConnection, Start,
      StartFails, Timeout, Pkill, PkillFails, Cancel, PumpEnds, Closed, JoinOut, JoinErr,
      JoinFails, execVars

\* ssh/exec.py, INC-005 and INC-011: at every moment of every call the buffers
\* hold exactly what was counted, cut at the cap, and the progress callback was
\* given no more than what was captured.
THEOREM CountsCorrect == ExecSpec => []CountsMatch
<1>1. ExecInit => CountsMatch
  <2> SUFFICES ASSUME ExecInit, NEW t \in Calls, NEW s \in Streams
               PROVE  /\ buf[t][s] = Lower(seen[t][s], Cap)
                      /\ t \in Streaming => shown[t][s] <= buf[t][s]
    BY DEF CountsMatch
  <2>1. buf[t][s] = 0 /\ seen[t][s] = 0 /\ shown[t][s] = 0
    BY DEF ExecInit
  <2>2. Lower(0, Cap) = 0
    BY ExecAssumption DEF Lower
  <2> QED BY <2>1, <2>2
<1>2. ExecTypeOK /\ CountsMatch /\ [ExecNext]_execVars => CountsMatch'
  BY CountsStep
<1> QED BY <1>1, <1>2, ExecTypeCorrect, PTL DEF ExecSpec

-----------------------------------------------------------------------------
(* The pumps *)

\* What holds of the pumps of a call at each point of its course.
PumpsIdle(t) ==
  /\ t \notin Streaming \/ pc[t] = "idle" => \A s \in Streams : pump[t][s] = "none"
  /\ pc[t] = "killing" \/ outcome[t] \in {"ok", "timeout"}
       => \A s \in Streams : pump[t][s] \in {"none", "ended"}
  /\ pc[t] \in {"joinOut", "joinErr"} => t \in Streaming
  /\ pc[t] = "joinErr" => pump[t]["stdout"] = "ended"
  /\ outcome[t] # "none" <=> pc[t] = "done"

PumpsInv == \A t \in Calls : PumpsIdle(t)

\* A step of another call, or one that leaves the course and the pumps of a
\* call alone, keeps the invariant for it.
LEMMA PumpsIdleKept ==
  ASSUME NEW t \in Calls, PumpsIdle(t),
         pc'[t] = pc[t], outcome'[t] = outcome[t], pump'[t] = pump[t]
  PROVE  PumpsIdle(t)'
BY DEF PumpsIdle

LEMMA PumpsStep ==
  ASSUME ExecTypeOK, PumpsInv, [ExecNext]_execVars
  PROVE  PumpsInv'
<1> SUFFICES ASSUME NEW u \in Calls PROVE PumpsIdle(u)'
  BY DEF PumpsInv
<1>0. PumpsIdle(u)
  BY DEF PumpsInv
<1>1. ASSUME UNCHANGED <<pc, outcome, pump>> PROVE PumpsIdle(u)'
  BY <1>0, <1>1, PumpsIdleKept
<1>2. ASSUME NEW t \in Calls, Start(t) PROVE PumpsIdle(u)'
  <2>1. CASE u = t
    BY <1>0, <1>2, <2>1 DEF PumpsIdle, Start, ExecTypeOK
  <2>2. CASE u # t
    BY <1>0, <1>2, <2>2, PumpsIdleKept DEF Start, ExecTypeOK
  <2> QED BY <2>1, <2>2
<1>3. ASSUME NEW t \in Calls, StartFails(t) \/ JoinErr(t) \/ Pkill(t) \/ PkillFails(t)
      PROVE PumpsIdle(u)'
  <2>1. CASE u = t
    <3>1. CASE StartFails(t)
      BY <1>0, <2>1, <3>1 DEF PumpsIdle, StartFails, Leave, ExecTypeOK
    <3>2. CASE JoinErr(t)
      BY <1>0, <2>1, <3>2 DEF PumpsIdle, JoinErr, Leave, ExecTypeOK, Streams
    <3>3. CASE Pkill(t) \/ PkillFails(t)
      BY <1>0, <2>1, <3>3 DEF PumpsIdle, Pkill, PkillFails, Leave, ExecTypeOK
    <3> QED BY <1>3, <3>1, <3>2, <3>3
  <2>2. CASE u # t
    BY <1>0, <1>3, <2>2, PumpsIdleKept
    DEF StartFails, JoinErr, Pkill, PkillFails, Leave, ExecTypeOK
  <2> QED BY <2>1, <2>2
<1>4. ASSUME NEW t \in Calls, RunReturns(t) PROVE PumpsIdle(u)'
  <2>1. /\ t \notin Streaming /\ pump' = pump
        /\ pc' = [pc EXCEPT ![t] = "done"]
        /\ \E how \in {"ok", "error"} : outcome' = [outcome EXCEPT ![t] = how]
    BY <1>4 DEF RunReturns, Leave
  <2>2. CASE u = t
    BY <1>0, <2>1, <2>2 DEF PumpsIdle, ExecTypeOK
  <2>3. CASE u # t
    BY <1>0, <2>1, <2>3, PumpsIdleKept DEF ExecTypeOK
  <2> QED BY <2>2, <2>3
<1>5. ASSUME NEW t \in Calls, Timeout(t) PROVE PumpsIdle(u)'
  <2>1. CASE u = t
    BY <1>0, <1>5, <2>1 DEF PumpsIdle, Timeout, ExecTypeOK
  <2>2. CASE u # t
    BY <1>0, <1>5, <2>2, PumpsIdleKept DEF Timeout, ExecTypeOK
  <2> QED BY <2>1, <2>2
<1>6. ASSUME NEW t \in Calls, Cancel(t) PROVE PumpsIdle(u)'
  <2>1. CASE u = t
    <3>1. pc'[t] = "done" /\ outcome'[t] = "cancelled"
      BY <1>6 DEF Cancel, Leave, ExecTypeOK
    <3>2. t \notin Streaming => pump' = pump
      BY <1>0, <1>6, <2>1 DEF PumpsIdle, Cancel
    <3> QED BY <1>0, <2>1, <3>1, <3>2 DEF PumpsIdle
  <2>2. CASE u # t
    <3>1. pc'[u] = pc[u] /\ outcome'[u] = outcome[u]
      BY <1>6, <2>2 DEF Cancel, Leave, ExecTypeOK
    <3>2. pump'[u] = pump[u]
      <4>1. CASE pump' = [pump EXCEPT ![t]["stdout"] = "ended"]
        BY <2>2, <4>1 DEF ExecTypeOK
      <4>2. CASE pump' = [pump EXCEPT ![t]["stderr"] = "ended"]
        BY <2>2, <4>2 DEF ExecTypeOK
      <4>3. CASE pump' = pump
        BY <4>3
      <4> QED BY <1>6, <4>1, <4>2, <4>3 DEF Cancel
    <3> QED BY <1>0, <3>1, <3>2, PumpsIdleKept
  <2> QED BY <2>1, <2>2
<1>7. ASSUME NEW t \in Calls, NEW s \in Streams,
             PumpRead(t, s) \/ ChunkShown(t, s) \/ PumpEnds(t, s)
      PROVE  PumpsIdle(u)'
  <2>1. /\ pump[t][s] \in {"reading", "calling"}
        /\ UNCHANGED <<pc, outcome>>
        /\ \A v \in Calls, r \in Streams : ~(v = t /\ r = s) => pump'[v][r] = pump[v][r]
    <3>1. CASE PumpRead(t, s)
      BY <3>1 DEF PumpRead, ExecTypeOK
    <3>2. CASE ChunkShown(t, s)
      BY <3>2 DEF ChunkShown, ExecTypeOK
    <3>3. CASE PumpEnds(t, s)
      <4>1. \E x \in {"ended", "failed"} : pump' = [pump EXCEPT ![t][s] = x]
        BY <3>3 DEF PumpEnds
      <4>2. \A v \in Calls, r \in Streams : ~(v = t /\ r = s) => pump'[v][r] = pump[v][r]
        BY <4>1 DEF ExecTypeOK
      <4> QED BY <3>3, <4>2 DEF PumpEnds
    <3> QED BY <1>7, <3>1, <3>2, <3>3
  <2>2. CASE u = t
    BY <1>0, <2>1, <2>2 DEF PumpsIdle, Streams
  <2>3. CASE u # t
    BY <1>0, <2>1, <2>3 DEF PumpsIdle, Streams
  <2> QED BY <2>2, <2>3
<1>8. ASSUME NEW t \in Calls, Closed(t) \/ JoinOut(t) PROVE PumpsIdle(u)'
  <2>1. CASE u = t
    <3>1. CASE Closed(t)
      BY <1>0, <2>1, <3>1 DEF PumpsIdle, Closed, ExecTypeOK
    <3>2. CASE JoinOut(t)
      BY <1>0, <2>1, <3>2 DEF PumpsIdle, JoinOut, ExecTypeOK
    <3> QED BY <1>8, <3>1, <3>2
  <2>2. CASE u # t
    BY <1>0, <1>8, <2>2, PumpsIdleKept DEF Closed, JoinOut, ExecTypeOK
  <2> QED BY <2>1, <2>2
<1>9. ASSUME NEW t \in Calls, JoinFails(t) PROVE PumpsIdle(u)'
  <2>1. CASE Leave(t, "error") /\ UNCHANGED pump
    <3>1. CASE u = t
      BY <1>0, <1>9, <2>1, <3>1 DEF PumpsIdle, JoinFails, Leave, ExecTypeOK
    <3>2. CASE u # t
      BY <1>0, <2>1, <3>2, PumpsIdleKept DEF Leave, ExecTypeOK
    <3> QED BY <3>1, <3>2
  <2>2. CASE /\ pc' = [pc EXCEPT ![t] = "killing"]
             /\ pump' = [pump EXCEPT ![t] = [s \in Streams |-> "ended"]]
             /\ UNCHANGED <<chan, outcome>>
    <3>1. CASE u = t
      BY <1>0, <1>9, <2>2, <3>1 DEF PumpsIdle, JoinFails, ExecTypeOK
    <3>2. CASE u # t
      BY <1>0, <2>2, <3>2, PumpsIdleKept DEF ExecTypeOK
    <3> QED BY <3>1, <3>2
  <2> QED BY <1>9, <2>1, <2>2 DEF JoinFails
<1> QED
  BY <1>1, <1>2, <1>3, <1>4, <1>5, <1>6, <1>7, <1>8, <1>9
  DEF ExecNext, Remote, PumpStep, Advance, Emit, Exit, ChanClose, LoseConnection, execVars

LEMMA PumpsAlways == ExecSpec => []PumpsInv
<1>1. ExecInit => PumpsInv
  BY DEF ExecInit, PumpsInv, PumpsIdle
<1>2. ExecTypeOK /\ PumpsInv /\ [ExecNext]_execVars => PumpsInv'
  BY PumpsStep
<1> QED BY <1>1, <1>2, ExecTypeCorrect, PTL DEF ExecSpec

\* ssh/exec.py:274-285: after a call has returned its result, after a timeout
\* too, no pump changes its buffers and the callback is not called again.
THEOREM ResultStays == ExecSpec => ResultIsFinal
<1>1. ASSUME ExecTypeOK, PumpsInv, [ExecNext]_execVars, NEW u \in Calls,
             outcome[u] \in {"ok", "timeout"}
      PROVE  UNCHANGED <<seen[u], buf[u], shown[u]>>
  <2>0. /\ pc[u] = "done"
        /\ \A s \in Streams : pump[u][s] \in {"none", "ended"}
    BY <1>1 DEF PumpsInv, PumpsIdle
  <2>1. ASSUME UNCHANGED <<seen, buf, shown>>
        PROVE  UNCHANGED <<seen[u], buf[u], shown[u]>>
    BY <2>1
  <2>2. ASSUME NEW t \in Calls, RunReturns(t)
        PROVE  UNCHANGED <<seen[u], buf[u], shown[u]>>
    <3>1. t # u /\ shown' = shown
      BY <2>0, <2>2 DEF RunReturns
    <3>2. seen'[u] = seen[u] /\ buf'[u] = buf[u]
      BY <1>1, <2>2, <3>1 DEF RunReturns, ExecTypeOK
    <3> QED BY <3>1, <3>2
  <2>3. ASSUME NEW t \in Calls, NEW s \in Streams, PumpRead(t, s) \/ ChunkShown(t, s)
        PROVE  UNCHANGED <<seen[u], buf[u], shown[u]>>
    <3>1. t # u
      BY <2>0, <2>3 DEF PumpRead, ChunkShown
    <3> QED BY <1>1, <2>3, <3>1 DEF PumpRead, ChunkShown, ExecTypeOK
  <2> QED
    BY <1>1, <2>1, <2>2, <2>3
    DEF ExecNext, Remote, PumpStep, Advance, Emit, Exit, ChanClose, LoseConnection, Start,
        StartFails, Timeout, Pkill, PkillFails, Cancel, PumpEnds, Closed, JoinOut, JoinErr,
        JoinFails, execVars
<1>2. ExecTypeOK /\ PumpsInv /\ [ExecNext]_execVars =>
        [\A t \in Calls : outcome[t] \in {"ok", "timeout"} =>
           UNCHANGED <<seen[t], buf[t], shown[t]>>]_execVars
  BY <1>1
<1> QED BY <1>2, ExecTypeCorrect, PumpsAlways, PTL DEF ExecSpec, ResultIsFinal

-----------------------------------------------------------------------------
(* Nothing is lost *)

\* A pump shows what it captured before it reads on, and ends of itself only
\* when it has read all that arrived on a channel that is no longer open.
Drained(t) ==
  /\ pc[t] = "idle" => \A s \in Streams : shown[t][s] = buf[t][s]
  /\ \A s \in Streams : pump[t][s] = "reading" => shown[t][s] = buf[t][s]
  /\ \A s \in Streams : pump[t][s] = "ended" /\ pc[t] \in {"waiting", "joinOut", "joinErr"} =>
       chan[t] # "open" /\ seen[t][s] = sent[t][s] /\ shown[t][s] = buf[t][s]
  /\ outcome[t] = "ok" =>
       /\ chan[t] # "open"
       /\ \A s \in Streams : /\ seen[t][s] = sent[t][s]
                             /\ t \in Streaming => shown[t][s] = buf[t][s]

DrainInv == \A t \in Calls : Drained(t)

LEMMA DrainedKept ==
  ASSUME NEW t \in Calls, Drained(t),
         pc'[t] = pc[t], outcome'[t] = outcome[t], pump'[t] = pump[t], seen'[t] = seen[t],
         buf'[t] = buf[t], shown'[t] = shown[t],
         chan[t] # "open" => chan'[t] # "open" /\ sent'[t] = sent[t]
  PROVE  Drained(t)'
BY DEF Drained

LEMMA DrainStep ==
  ASSUME ExecTypeOK, PumpsInv, DrainInv, [ExecNext]_execVars
  PROVE  DrainInv'
<1> SUFFICES ASSUME NEW u \in Calls PROVE Drained(u)'
  BY DEF DrainInv
<1>0. Drained(u) /\ PumpsIdle(u)
  BY DEF DrainInv, PumpsInv
<1>1. ASSUME NEW t \in Calls, NEW s \in Streams, Emit(t, s) PROVE Drained(u)'
  <2>1. /\ UNCHANGED <<pc, outcome, pump, seen, buf, shown, chan>>
        /\ chan[u] # "open" => sent'[u] = sent[u]
    BY <1>1 DEF Emit, ExecTypeOK
  <2> QED BY <1>0, <2>1, DrainedKept
<1>2. ASSUME \/ \E t \in Calls : Exit(t) \/ ChanClose(t)
             \/ LoseConnection \/ UNCHANGED execVars
      PROVE Drained(u)'
  <2>1. /\ UNCHANGED <<pc, outcome, pump, seen, buf, shown, sent>>
        /\ chan[u] # "open" => chan'[u] # "open"
    BY <1>2 DEF Exit, ChanClose, LoseConnection, execVars, ExecTypeOK
  <2> QED BY <1>0, <2>1, DrainedKept
<1>3. ASSUME NEW t \in Calls, Start(t) PROVE Drained(u)'
  <2>1. CASE u = t
    BY <1>0, <1>3, <2>1 DEF Drained, PumpsIdle, Start, ExecTypeOK
  <2>2. CASE u # t
    BY <1>0, <1>3, <2>2, DrainedKept DEF Start, ExecTypeOK
  <2> QED BY <2>1, <2>2
<1>4. ASSUME NEW t \in Calls, NEW how \in {"timeout", "error", "cancelled"}, Leave(t, how),
             UNCHANGED <<seen, buf, shown, sent>>,
             \A v \in Calls : v # t => pump'[v] = pump[v],
             \A s \in Streams : pump'[t][s] = "reading" => pump[t][s] = "reading"
      PROVE  Drained(u)'
  <2>1. /\ pc'[t] = "done" /\ outcome'[t] = how
        /\ \A v \in Calls : v # t => /\ pc'[v] = pc[v] /\ outcome'[v] = outcome[v]
                                     /\ chan'[v] = chan[v]
    BY <1>4 DEF Leave, ExecTypeOK
  <2>2. CASE u = t
    <3>1. \A s \in Streams : pump'[t][s] = "reading" => shown'[t][s] = buf'[t][s]
      BY <1>0, <1>4, <2>2 DEF Drained
    <3>2. how # "ok"
      OBVIOUS
    <3> QED BY <2>1, <2>2, <3>1, <3>2 DEF Drained
  <2>3. CASE u # t
    <3>1. /\ pc'[u] = pc[u] /\ outcome'[u] = outcome[u] /\ chan'[u] = chan[u] /\ pump'[u] = pump[u]
      BY <1>4, <2>1, <2>3
    <3> QED BY <1>0, <1>4, <3>1, DrainedKept
  <2> QED BY <2>2, <2>3
<1>5. ASSUME NEW t \in Calls, StartFails(t) \/ Pkill(t) \/ PkillFails(t) PROVE Drained(u)'
  BY <1>4, <1>5 DEF StartFails, Pkill, PkillFails
<1>6. ASSUME NEW t \in Calls, Cancel(t) PROVE Drained(u)'
  <2>1. /\ \A v \in Calls : v # t => pump'[v] = pump[v]
        /\ \A s \in Streams : pump'[t][s] = "reading" => pump[t][s] = "reading"
    <3>1. CASE pump' = pump
      BY <3>1
    <3>2. CASE pump' = [pump EXCEPT ![t]["stdout"] = "ended"]
      BY <3>2 DEF ExecTypeOK, Streams
    <3>3. CASE pump' = [pump EXCEPT ![t]["stderr"] = "ended"]
      BY <3>3 DEF ExecTypeOK, Streams
    <3> QED BY <1>6, <3>1, <3>2, <3>3 DEF Cancel
  <2> QED BY <1>4, <1>6, <2>1 DEF Cancel
<1>7. ASSUME NEW t \in Calls, RunReturns(t) PROVE Drained(u)'
  <2>1. CASE Leave(t, "ok") /\ seen' = [seen EXCEPT ![t] = sent[t]]
             /\ buf' = [buf EXCEPT ![t] = [s \in Streams |-> Lower(sent[t][s], Cap)]]
    <3>1. CASE u = t
      <4>1. /\ pc'[t] = "done" /\ outcome'[t] = "ok" /\ chan'[t] # "open"
            /\ seen'[t] = sent'[t] /\ pump' = pump /\ t \notin Streaming
        BY <1>7, <2>1 DEF RunReturns, Leave, ExecTypeOK
      <4> QED BY <1>0, <3>1, <4>1 DEF Drained, PumpsIdle
    <3>2. CASE u # t
      BY <1>0, <1>7, <2>1, <3>2, DrainedKept DEF RunReturns, Leave, ExecTypeOK
    <3> QED BY <3>1, <3>2
  <2>2. CASE Leave(t, "error") /\ UNCHANGED <<seen, buf>>
    BY <1>4, <1>7, <2>2 DEF RunReturns
  <2> QED BY <1>7, <2>1, <2>2 DEF RunReturns
<1>8. ASSUME NEW t \in Calls, pc[t] # "idle", pc' = [pc EXCEPT ![t] = "killing"],
             UNCHANGED <<chan, sent, seen, buf, shown, outcome>>,
             \A v \in Calls : v # t => pump'[v] = pump[v],
             \A s \in Streams : pump'[t][s] # "reading"
      PROVE  Drained(u)'
  <2>1. CASE u = t
    BY <1>0, <1>8, <2>1 DEF Drained, ExecTypeOK
  <2>2. CASE u # t
    BY <1>0, <1>8, <2>2, DrainedKept DEF ExecTypeOK
  <2> QED BY <2>1, <2>2
<1>9. ASSUME NEW t \in Calls, Timeout(t) \/ Closed(t) \/ JoinOut(t) PROVE Drained(u)'
  <2>1. CASE Timeout(t)
    <3>1. /\ \A v \in Calls : v # t => pump'[v] = pump[v]
          /\ \A s \in Streams : pump'[t][s] # "reading"
      BY <2>1 DEF Timeout, ExecTypeOK
    <3> QED BY <1>8, <2>1, <3>1 DEF Timeout
  <2>2. CASE Closed(t)
    <3>1. CASE u = t
      BY <1>0, <2>2, <3>1 DEF Drained, Closed, ExecTypeOK
    <3>2. CASE u # t
      BY <1>0, <2>2, <3>2, DrainedKept DEF Closed, ExecTypeOK
    <3> QED BY <3>1, <3>2
  <2>3. CASE JoinOut(t)
    <3>1. CASE u = t
      BY <1>0, <2>3, <3>1 DEF Drained, JoinOut, ExecTypeOK
    <3>2. CASE u # t
      BY <1>0, <2>3, <3>2, DrainedKept DEF JoinOut, ExecTypeOK
    <3> QED BY <3>1, <3>2
  <2> QED BY <1>9, <2>1, <2>2, <2>3
<1>10. ASSUME NEW t \in Calls, JoinFails(t) PROVE Drained(u)'
  <2>1. CASE Leave(t, "error") /\ UNCHANGED pump
    BY <1>4, <1>10, <2>1 DEF JoinFails
  <2>2. CASE /\ pc' = [pc EXCEPT ![t] = "killing"]
             /\ pump' = [pump EXCEPT ![t] = [s \in Streams |-> "ended"]]
             /\ UNCHANGED <<chan, outcome>>
    <3>1. /\ \A v \in Calls : v # t => pump'[v] = pump[v]
          /\ \A s \in Streams : pump'[t][s] # "reading"
      BY <2>2 DEF ExecTypeOK
    <3> QED BY <1>8, <1>10, <2>2, <3>1 DEF JoinFails
  <2> QED BY <1>10, <2>1, <2>2 DEF JoinFails
<1>11. ASSUME NEW t \in Calls, JoinErr(t) PROVE Drained(u)'
  <2>1. CASE u = t
    <3>1. /\ pc[t] = "joinErr" /\ UNCHANGED <<pump, seen, sent, buf, shown>>
          /\ pc'[t] = "done" /\ outcome'[t] = "ok"
          /\ \A s \in Streams : pump[t][s] = "ended"
          /\ chan[t] # "open" => chan'[t] # "open"
      BY <1>0, <1>11, <2>1 DEF JoinErr, Leave, PumpsIdle, Streams, ExecTypeOK
    <3>2. \A s \in Streams : /\ chan[t] # "open" /\ seen[t][s] = sent[t][s]
                             /\ shown[t][s] = buf[t][s]
      BY <1>0, <2>1, <3>1 DEF Drained
    <3>3. chan'[t] # "open"
      BY <3>1, <3>2 DEF Streams
    <3> QED BY <1>0, <2>1, <3>1, <3>2, <3>3 DEF Drained
  <2>2. CASE u # t
    BY <1>0, <1>11, <2>2, DrainedKept DEF JoinErr, Leave, ExecTypeOK
  <2> QED BY <2>1, <2>2
<1>12. ASSUME NEW t \in Calls, NEW s \in Streams,
              PumpRead(t, s) \/ ChunkShown(t, s) \/ PumpEnds(t, s)
       PROVE  Drained(u)'
  <2>1. CASE u # t
    <3>1. /\ UNCHANGED <<pc, outcome, chan, sent>>
          /\ pump'[u] = pump[u] /\ seen'[u] = seen[u] /\ buf'[u] = buf[u] /\ shown'[u] = shown[u]
      <4>1. CASE PumpRead(t, s)
        BY <2>1, <4>1 DEF PumpRead, ExecTypeOK
      <4>2. CASE ChunkShown(t, s)
        BY <2>1, <4>2 DEF ChunkShown, ExecTypeOK
      <4>3. CASE PumpEnds(t, s)
        <5>1. \E x \in {"ended", "failed"} : pump' = [pump EXCEPT ![t][s] = x]
          BY <4>3 DEF PumpEnds
        <5>2. pump'[u] = pump[u]
          BY <2>1, <5>1 DEF ExecTypeOK
        <5> QED BY <4>3, <5>2 DEF PumpEnds
      <4> QED BY <1>12, <4>1, <4>2, <4>3
    <3> QED BY <1>0, <3>1, DrainedKept
  <2>2. CASE u = t
    <3>0. /\ pump[t][s] \in {"reading", "calling"} /\ UNCHANGED <<pc, outcome, chan, sent>>
          /\ pc[t] # "idle" /\ outcome[t] # "ok"
          /\ s \in Streams
      BY <1>0, <1>12, <2>2 DEF PumpRead, ChunkShown, PumpEnds, PumpsIdle
    <3>1. \A r \in Streams : r # s => /\ pump'[t][r] = pump[t][r] /\ seen'[t][r] = seen[t][r]
                                      /\ buf'[t][r] = buf[t][r] /\ shown'[t][r] = shown[t][r]
      <4>1. CASE PumpRead(t, s)
        BY <4>1 DEF PumpRead, ExecTypeOK
      <4>2. CASE ChunkShown(t, s)
        BY <4>2 DEF ChunkShown, ExecTypeOK
      <4>3. CASE PumpEnds(t, s)
        <5>1. \E x \in {"ended", "failed"} : pump' = [pump EXCEPT ![t][s] = x]
          BY <4>3 DEF PumpEnds
        <5>2. \A r \in Streams : r # s => pump'[t][r] = pump[t][r]
          BY <5>1 DEF ExecTypeOK
        <5> QED BY <4>3, <5>2 DEF PumpEnds
      <4> QED BY <1>12, <4>1, <4>2, <4>3
    <3>2. /\ pump'[t][s] = "reading" => shown'[t][s] = buf'[t][s]
          /\ pump'[t][s] = "ended" => /\ chan[t] # "open" /\ seen'[t][s] = sent[t][s]
                                      /\ shown'[t][s] = buf'[t][s]
      <4>1. CASE PumpRead(t, s)
        <5>1. PICK n \in 1..(sent[t][s] - seen[t][s]) :
                /\ buf' = [buf EXCEPT ![t][s] = @ + Lower(n, Cap - buf[t][s])]
                /\ pump' = [pump EXCEPT ![t][s] =
                              IF Lower(n, Cap - buf[t][s]) > 0 THEN "calling" ELSE @]
          BY <4>1 DEF PumpRead
        <5>2. /\ Cap \in Nat /\ MaxOut \in Nat /\ sent[t][s] \in Nat /\ seen[t][s] \in Nat
              /\ buf[t][s] \in 0..Cap /\ n \in Nat
          BY ExecAssumption, <5>1 DEF ExecTypeOK
        <5>3. Lower(n, Cap - buf[t][s]) \in Nat
          <6>1. Cap - buf[t][s] \in Nat
            BY <5>2
          <6> QED BY <5>2, <6>1, LowerBound
        <5>4. pump[t][s] = "reading" /\ shown[t][s] = buf[t][s] /\ shown' = shown
          BY <1>0, <2>2, <4>1 DEF Drained, PumpRead
        <5>5. CASE Lower(n, Cap - buf[t][s]) > 0
          BY <5>1, <5>5 DEF ExecTypeOK
        <5>6. CASE Lower(n, Cap - buf[t][s]) = 0
          <6>1. buf'[t][s] = buf[t][s] /\ pump'[t][s] = "reading"
            BY <5>1, <5>2, <5>4, <5>6 DEF ExecTypeOK
          <6> QED BY <5>4, <6>1
        <5> QED BY <5>3, <5>5, <5>6
      <4>2. CASE ChunkShown(t, s)
        BY <4>2 DEF ChunkShown, ExecTypeOK
      <4>3. CASE PumpEnds(t, s)
        <5>1. CASE /\ pump[t][s] = "reading" /\ seen[t][s] = sent[t][s]
                   /\ chan[t] \in {"closed", "lost"}
          <6>1. shown[t][s] = buf[t][s] /\ UNCHANGED <<shown, buf, seen>>
            BY <1>0, <2>2, <4>3, <5>1 DEF Drained, PumpEnds
          <6>2. pump'[t][s] # "reading"
            BY <4>3, <5>1 DEF PumpEnds, ExecTypeOK
          <6> QED BY <5>1, <6>1, <6>2
        <5>2. CASE pump' = [pump EXCEPT ![t][s] = "failed"]
          BY <5>2 DEF ExecTypeOK
        <5> QED BY <4>3, <5>1, <5>2 DEF PumpEnds
      <4> QED BY <1>12, <4>1, <4>2, <4>3
    <3> QED BY <1>0, <2>2, <3>0, <3>1, <3>2 DEF Drained
  <2> QED BY <2>1, <2>2
<1> QED
  BY <1>1, <1>2, <1>3, <1>5, <1>6, <1>7, <1>9, <1>10, <1>11, <1>12
  DEF ExecNext, Remote, PumpStep, Advance

\* ssh/exec.py:266-268: a call that ends normally has counted all the output that
\* arrived and, when it streams, shown all that it kept.
THEOREM NothingIsLost == ExecSpec => []NothingLost
<1>1. ExecInit => DrainInv
  BY DEF ExecInit, DrainInv, Drained
<1>2. ExecTypeOK /\ PumpsInv /\ DrainInv /\ [ExecNext]_execVars => DrainInv'
  BY DrainStep
<1>3. ExecTypeOK /\ DrainInv => NothingLost
  <2> SUFFICES ASSUME ExecTypeOK, DrainInv, NEW t \in Calls, outcome[t] = "ok"
               PROVE  /\ seen[t] = sent[t]
                      /\ t \in Streaming => shown[t] = buf[t]
    BY DEF NothingLost
  <2>1. \A s \in Streams : /\ seen[t][s] = sent[t][s]
                           /\ t \in Streaming => shown[t][s] = buf[t][s]
    BY DEF DrainInv, Drained
  <2>2. /\ seen[t] \in [Streams -> 0..MaxOut] /\ sent[t] \in [Streams -> 0..MaxOut]
        /\ shown[t] \in [Streams -> 0..Cap] /\ buf[t] \in [Streams -> 0..Cap]
    BY DEF ExecTypeOK
  <2>4. seen[t] = sent[t]
    BY <2>1, <2>2, SMT
  <2>5. ASSUME t \in Streaming PROVE shown[t] = buf[t]
    BY <2>1, <2>2, <2>5, SMT
  <2> QED BY <2>4, <2>5
<1> QED BY <1>1, <1>2, <1>3, ExecTypeCorrect, PumpsAlways, PTL DEF ExecSpec
===============================================================================
