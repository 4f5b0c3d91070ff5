------------------------ MODULE ConnectionPoolProofs ------------------------
(***************************************************************************)
(* Theorems about ConnectionPool for every set of keys, calls, entries and *)
(* connections: first under every disturbance, then what the pool keeps    *)
(* while no entry is dropped behind a running call.                        *)
(***************************************************************************)
EXTENDS ConnectionPool, TLAPS, FiniteSetTheorems

-----------------------------------------------------------------------------
(* Type correctness.  The helpers first, then one step per action.           *)

LEMMA InitType == Init => TypeOK
  <1> SUFFICES ASSUME Init PROVE TypeOK
    OBVIOUS
  <1>1. (CHOOSE k \in Keys : TRUE) \in Keys
    BY KeysAssumption
  <1>2. PoolType /\ ConnType
    BY <1>1 DEF Init, PoolType, ConnType
  <1>3. TaskType
    BY <1>1 DEF Init, TaskType, TaskPC, LockPC, WaitPC, RunPC, SftpAttempts
  <1>4. ReapType /\ CloseType
    BY <1>1 DEF Init, ReapType, CloseType
  <1>5. QED
    BY <1>2, <1>3, <1>4 DEF Init, TypeOK, Types

\* Ending a call, and handing it a connection or a client.
LEMMA ReturnTypes ==
  ASSUME TaskType, NEW t \in Tasks
  PROVE  /\ Finish(t) => TaskType'
         /\ \A c \in Conns \cup {NoConn} : Return(t, c) => TaskType'
         /\ \A c \in Conns \cup {NoConn} : Yield(t, c) => TaskType'
  <1> USE DEF TaskType, TaskPC, LockPC, WaitPC, RunPC
  <1>1. Finish(t) => TaskType'
    BY DEF Finish, SftpAttempts
  <1>2. ASSUME NEW c \in Conns \cup {NoConn}, Return(t, c) PROVE TaskType'
    BY <1>2 DEF Return
  <1>3. ASSUME NEW c \in Conns \cup {NoConn}, Yield(t, c) PROVE TaskType'
    BY <1>3 DEF Yield
  <1>4. QED
    BY <1>1, <1>2, <1>3

\* Clearing a client slot, closing a connection, releasing a lock.
LEMMA CloseTypes ==
  ASSUME PoolType, ConnType
  PROVE  /\ \A e \in Entries : ExitSftp(e) =>
              /\ sftp' \in [Entries -> Conns \cup {NoConn}]
              /\ clients' \in SUBSET (Entries \X Conns)
         /\ \A c \in Conns \cup {NoConn} :
              Closing(c) \in [Conns -> {"open", "closing", "closed"}]
         /\ \A t \in Tasks : Unlock(t) => lock' \in [Entries -> Tasks \cup {Nobody}]
  <1>1. ASSUME NEW e \in Entries, ExitSftp(e)
        PROVE  /\ sftp' \in [Entries -> Conns \cup {NoConn}]
               /\ clients' \in SUBSET (Entries \X Conns)
    BY <1>1 DEF PoolType, ConnType, ExitSftp
  <1>2. ASSUME NEW c \in Conns \cup {NoConn}
        PROVE  Closing(c) \in [Conns -> {"open", "closing", "closed"}]
    BY DEF ConnType, Closing
  <1>3. ASSUME NEW t \in Tasks, Unlock(t)
        PROVE  lock' \in [Entries -> Tasks \cup {Nobody}]
    BY <1>3 DEF PoolType, Unlock
  <1>4. QED
    BY <1>1, <1>2, <1>3

\* Entering `async with entry.lock`.
LEMMA EnterLockType ==
  ASSUME PoolType, TaskType, NEW t \in Tasks, NEW e \in Entries,
         NEW inside \in TaskPC, NEW queued \in TaskPC,
         EnterLock(t, e, inside, queued)
  PROVE  /\ lock' \in [Entries -> Tasks \cup {Nobody}]
         /\ pc' \in [Tasks -> TaskPC]
         /\ entry' \in [Tasks -> Entries \cup {NoEntry}]
         /\ running' \in Tasks \cup {Nobody, Reaper, Closer}
  BY DEF PoolType, TaskType, EnterLock

LEMMA SetDefaultType ==
  ASSUME PoolType, TaskType, NEW t \in Tasks, NEW k \in Keys, SetDefault(t, k)
  PROVE  /\ PoolType'
         /\ pc' \in [Tasks -> TaskPC]
         /\ entry' \in [Tasks -> Entries \cup {NoEntry}]
         /\ running' \in Tasks \cup {Nobody, Reaper, Closer}
  <1>1. "check" \in TaskPC /\ "lockA" \in TaskPC
    BY DEF TaskPC, LockPC, WaitPC, RunPC
  <1>2. CASE entries[k] # NoEntry
    <2>1. entries[k] \in Entries
      BY <1>2 DEF PoolType
    <2>2. EnterLock(t, entries[k], "check", "lockA") /\ UNCHANGED <<entries, conn, sftp, idle>>
      BY <1>2 DEF SetDefault
    <2>3. QED
      BY <1>1, <2>1, <2>2, EnterLockType DEF PoolType
  <1>3. CASE entries[k] = NoEntry
    <2>1. PICK e \in Entries :
            /\ entries' = [entries EXCEPT ![k] = e]
            /\ conn' = [conn EXCEPT ![e] = NoConn]
            /\ sftp' = [sftp EXCEPT ![e] = NoConn]
            /\ idle' = [idle EXCEPT ![e] = FALSE]
            /\ EnterLock(t, e, "check", "lockA")
      BY <1>3 DEF SetDefault
    <2>2. QED
      BY <1>1, <2>1, EnterLockType DEF PoolType
  <1>4. QED
    BY <1>2, <1>3

LEMMA WeatherKept == [Next]_vars => weather' = weather
  <1> USE DEF closeVars, vars
  <1>1. ASSUME NEW t \in Tasks, Resume(t) \/ Segment(t) \/ EndUse(t) PROVE weather' = weather
    BY <1>1 DEF Resume, Segment, Granted, OpenOk, OpenFail, SubsysOk, SubsysFail, Drained,
                Retry, Reuse, StartOpen, Lookup, Recheck, EndUse
  <1>2. ASSUME NEW t \in Tasks, Invalidate(t) \/ Cancel(t) PROVE weather' = weather
    BY <1>2 DEF Invalidate, Cancel
  <1>3. ASSUME NEW t \in Tasks, NEW k \in Keys, NEW w \in {"conn", "sftp"}, Call(t, k, w)
        PROVE weather' = weather
    BY <1>3 DEF Call
  <1>4. ReapStep \/ CloseStep => weather' = weather
    BY DEF ReapStep, ReapWake, ReapNext, ReapPop, ReapSleep,
           CloseStep, CloseStart, CloseNext, ClosePop, CloseDone
  <1>5. ASSUME NEW c \in Conns, CloseCompletes(c) \/ Drop(c) PROVE weather' = weather
    BY <1>5 DEF CloseCompletes, Drop
  <1>6. ASSUME NEW k \in Keys, GrowIdle(k) PROVE weather' = weather
    BY <1>6 DEF GrowIdle
  <1>7. QED
    BY <1>1, <1>2, <1>3, <1>4, <1>5, <1>6 DEF Next

\* Types are not inductive alone: that a lock holder names a real entry comes
\* from LockInv.
LEMMA TypeStep == TypeOK /\ LockInv /\ [Next]_vars => TypeOK'
  <1> SUFFICES ASSUME PoolType, ConnType, TaskType, ReapType, CloseType, LockInv,
                      [Next]_vars
               PROVE  Types'
    BY WeatherKept DEF TypeOK, Types
  <1> USE DEF Types, poolVars, connVars, taskVars, reapVars, closeVars
  <1>1. ASSUME NEW t \in Tasks, NEW k \in Keys, NEW w \in {"conn", "sftp"}, Call(t, k, w) PROVE Types'
    <2>1. SetDefault(t, k) /\ UNCHANGED <<connVars, got, reapVars, closeVars>>
      BY <1>1 DEF Call
    <2>2. PoolType' /\ ConnType' /\ ReapType' /\ CloseType'
      BY <2>1, SetDefaultType DEF ConnType, ReapType, CloseType
    <2>3. TaskType'
      BY <1>1, <2>1, SetDefaultType DEF Call, TaskType, SftpAttempts
    <2>4. QED
      BY <2>2, <2>3
  <1>2. ASSUME NEW t \in Tasks, Retry(t) PROVE Types'
    <2>1. /\ UNCHANGED <<connVars, reapVars, closeVars>>
          /\ key[t] \in Keys /\ tries[t] \in 0..SftpAttempts
      BY <1>2 DEF Retry, TaskType
    <2>2. ConnType' /\ ReapType' /\ CloseType'
      BY <2>1 DEF ConnType, ReapType, CloseType
    <2>3. CASE tries[t] < SftpAttempts
      <3>1. /\ SetDefault(t, key[t]) /\ UNCHANGED <<want, key, got>>
            /\ tries' = [tries EXCEPT ![t] = @ + 1]
        BY <1>2, <2>3 DEF Retry, SftpAttempts
      <3>2. PoolType' /\ TaskType'
        BY <2>1, <2>3, <3>1, SetDefaultType DEF TaskType, SftpAttempts
      <3>3. QED
        BY <2>2, <3>2
    <2>4. CASE tries[t] = SftpAttempts
      <3>1. Finish(t) /\ UNCHANGED poolVars
        BY <1>2, <2>4 DEF Retry, SftpAttempts
      <3>2. QED
        BY <2>2, <3>1, ReturnTypes DEF PoolType
    <2>5. QED
      BY <2>1, <2>3, <2>4 DEF SftpAttempts
  <1>3. ASSUME NEW t \in Tasks, Granted(t) PROVE Types'
    <2>1. entry[t] \in Entries
      BY <1>3 DEF Granted, LockInv
    <2>2. PoolType' /\ ConnType' /\ ReapType' /\ CloseType'
      BY <1>3 DEF Granted, PoolType, ConnType, ReapType, CloseType
    <2>3. TaskType'
      BY <1>3 DEF Granted, TaskType, TaskPC, LockPC, WaitPC, RunPC
    <2>4. QED
      BY <2>1, <2>2, <2>3
  <1>4. ASSUME NEW t \in Tasks, Reuse(t) PROVE Types'
    <2>1. entry[t] \in Entries
      BY <1>4 DEF Reuse, LockInv, LockPC
    <2>2. conn[entry[t]] \in Conns
      BY <1>4, <2>1 DEF Reuse, Alive, PoolType
    <2>3. TaskType'
      BY <1>4, <2>2, ReturnTypes DEF Reuse
    <2>4. lock' \in [Entries -> Tasks \cup {Nobody}]
      BY <1>4, CloseTypes DEF Reuse
    <2>5. PoolType' /\ ConnType' /\ ReapType' /\ CloseType'
      BY <1>4, <2>4 DEF Reuse, PoolType, ConnType, ReapType, CloseType
    <2>6. QED
      BY <2>1, <2>2, <2>3, <2>4, <2>5
  <1>5. ASSUME NEW t \in Tasks, StartOpen(t) PROVE Types'
    <2>1. entry[t] \in Entries
      BY <1>5 DEF StartOpen, LockInv, LockPC
    <2>2. PoolType' /\ ConnType' /\ ReapType' /\ CloseType'
      BY <1>5, <2>1, CloseTypes DEF StartOpen, PoolType, ConnType, ReapType, CloseType
    <2>3. TaskType'
      BY <1>5 DEF StartOpen, TaskType, TaskPC, LockPC, WaitPC, RunPC
    <2>4. QED
      BY <2>1, <2>2, <2>3
  <1>6. ASSUME NEW t \in Tasks, OpenOk(t) PROVE Types'
    <2>1. entry[t] \in Entries /\ key[t] \in Keys
      BY <1>6 DEF OpenOk, LockInv, LockPC, TaskType
    <2>2. PICK c \in Conns :
            /\ status' = [status EXCEPT ![c] = "open"]
            /\ peer' = [peer EXCEPT ![c] = key[t]]
            /\ conn' = [conn EXCEPT ![entry[t]] = c]
            /\ idle' = [idle EXCEPT ![entry[t]] = FALSE]
            /\ Unlock(t)
            /\ Return(t, c)
            /\ UNCHANGED <<entries, sftp, clients, reapVars, closeVars>>
      BY <1>6 DEF OpenOk
    <2>3. TaskType'
      BY <2>2, ReturnTypes
    <2>4. lock' \in [Entries -> Tasks \cup {Nobody}]
      BY <2>2, CloseTypes
    <2>5. PoolType' /\ ConnType' /\ ReapType' /\ CloseType'
      BY <2>1, <2>2, <2>4 DEF PoolType, ConnType, ReapType, CloseType
    <2>6. QED
      BY <2>3, <2>5
  <1>7. ASSUME NEW t \in Tasks, OpenFail(t) PROVE Types'
    <2>1. TaskType'
      BY <1>7, ReturnTypes DEF OpenFail
    <2>2. lock' \in [Entries -> Tasks \cup {Nobody}]
      BY <1>7, CloseTypes DEF OpenFail
    <2>3. PoolType' /\ ConnType' /\ ReapType' /\ CloseType'
      BY <1>7, <2>2 DEF OpenFail, PoolType, ConnType, ReapType, CloseType
    <2>4. QED
      BY <2>1, <2>2, <2>3
  <1>8. ASSUME NEW t \in Tasks, SubsysFail(t) PROVE Types'
    <2>1. TaskType'
      BY <1>8, ReturnTypes DEF SubsysFail
    <2>2. lock' \in [Entries -> Tasks \cup {Nobody}]
      BY <1>8, CloseTypes DEF SubsysFail
    <2>3. PoolType' /\ ConnType' /\ ReapType' /\ CloseType'
      BY <1>8, <2>2 DEF SubsysFail, PoolType, ConnType, ReapType, CloseType
    <2>4. QED
      BY <2>1, <2>2, <2>3
  <1>9. ASSUME NEW t \in Tasks, Lookup(t) PROVE Types'
    <2> DEFINE e == entries[key[t]]
    <2>1. /\ UNCHANGED <<entries, conn, sftp, idle, connVars, reapVars, closeVars>>
          /\ key[t] \in Keys /\ e \in Entries \cup {NoEntry}
      BY <1>9 DEF Lookup, TaskType, PoolType
    <2>2. ConnType' /\ ReapType' /\ CloseType'
      BY <2>1 DEF ConnType, ReapType, CloseType
    <2>3. CASE e = NoEntry
      BY <1>9, <2>1, <2>2, <2>3 DEF Lookup, PoolType, TaskType, TaskPC, LockPC, WaitPC, RunPC
    <2>4. CASE e # NoEntry /\ sftp[e] # NoConn
      <3>1. Yield(t, sftp[e]) /\ UNCHANGED lock /\ sftp[e] \in Conns
        BY <1>9, <2>1, <2>4 DEF Lookup, PoolType
      <3>2. QED
        BY <2>1, <2>2, <3>1, ReturnTypes DEF PoolType
    <2>5. CASE e # NoEntry /\ sftp[e] = NoConn
      <3>1. EnterLock(t, e, "recheck", "lockS") /\ UNCHANGED <<got, want, key, tries>>
        BY <1>9, <2>5 DEF Lookup
      <3>2. "recheck" \in TaskPC /\ "lockS" \in TaskPC
        BY DEF TaskPC, LockPC, WaitPC, RunPC
      <3>3. TaskType' /\ lock' \in [Entries -> Tasks \cup {Nobody}]
        BY <2>1, <2>5, <3>1, <3>2, EnterLockType DEF TaskType
      <3>4. QED
        BY <2>1, <2>2, <3>3 DEF PoolType
    <2>6. QED
      BY <2>3, <2>4, <2>5
  <1>10. ASSUME NEW t \in Tasks, Recheck(t) PROVE Types'
    <2>1. /\ UNCHANGED <<entries, conn, sftp, idle, connVars, reapVars, closeVars>>
          /\ entry[t] \in Entries
      BY <1>10 DEF Recheck, LockInv, LockPC
    <2>2. ConnType' /\ ReapType' /\ CloseType'
      BY <2>1 DEF ConnType, ReapType, CloseType
    <2>3. CASE entries[key[t]] # entry[t]
      <3>1. lock' \in [Entries -> Tasks \cup {Nobody}]
        BY <1>10, <2>3, CloseTypes DEF Recheck
      <3>2. TaskType'
        BY <1>10, <2>3 DEF Recheck, TaskType, TaskPC, LockPC, WaitPC, RunPC
      <3>3. QED
        BY <2>1, <2>2, <3>1, <3>2 DEF PoolType
    <2>4. CASE entries[key[t]] = entry[t] /\ sftp[entry[t]] # NoConn
      <3>1. Yield(t, sftp[entry[t]]) /\ Unlock(t) /\ sftp[entry[t]] \in Conns
        BY <1>10, <2>1, <2>4 DEF Recheck, PoolType
      <3>2. QED
        BY <2>1, <2>2, <3>1, ReturnTypes, CloseTypes DEF PoolType
    <2>5. CASE entries[key[t]] = entry[t] /\ sftp[entry[t]] = NoConn
      BY <1>10, <2>1, <2>2, <2>5 DEF Recheck, PoolType, TaskType, TaskPC, LockPC, WaitPC, RunPC
    <2>6. QED
      BY <2>3, <2>4, <2>5
  <1>11. ASSUME NEW t \in Tasks, SubsysOk(t) PROVE Types'
    <2>1. entry[t] \in Entries /\ got[t] \in Conns
      BY <1>11 DEF SubsysOk, Alive, LockInv, LockPC, TaskType
    <2>2. TaskType'
      BY <1>11, <2>1, ReturnTypes DEF SubsysOk
    <2>3. lock' \in [Entries -> Tasks \cup {Nobody}]
      BY <1>11, CloseTypes DEF SubsysOk
    <2>4. PoolType' /\ ReapType' /\ CloseType'
      BY <1>11, <2>1, <2>3 DEF SubsysOk, PoolType, ReapType, CloseType
    <2>5. <<entry[t], got[t]>> \in Entries \X Conns
      BY <2>1
    <2>6. ConnType'
      <3>1. clients' \subseteq Entries \X Conns
        BY <1>11, <2>5, Zenon DEF SubsysOk, ConnType
      <3>2. QED
        BY <1>11, <3>1 DEF SubsysOk, ConnType
    <2>7. QED
      BY <2>2, <2>4, <2>6
  <1>12. ASSUME NEW t \in Tasks, EndUse(t) PROVE Types'
    <2>1. TaskType'
      BY <1>12, ReturnTypes DEF EndUse
    <2>2. PoolType' /\ ConnType' /\ ReapType' /\ CloseType'
      BY <1>12 DEF EndUse, PoolType, ConnType, ReapType, CloseType
    <2>3. QED
      BY <2>1, <2>2
  <1>13. ASSUME NEW t \in Tasks, Drained(t) PROVE Types'
    <2>1. TaskType'
      BY <1>13, ReturnTypes DEF Drained
    <2>2. PoolType' /\ ConnType' /\ ReapType' /\ CloseType'
      BY <1>13 DEF Drained, PoolType, ConnType, ReapType, CloseType
    <2>3. QED
      BY <2>1, <2>2
  <1>14. ASSUME NEW t \in Tasks, Invalidate(t) PROVE Types'
    <2> DEFINE e == entries[key[t]]
    <2>1. /\ UNCHANGED <<idle, lock, peer, reapVars, closeVars>>
          /\ entries' = [entries EXCEPT ![key[t]] = NoEntry]
          /\ e \in Entries \cup {NoEntry}
      BY <1>14 DEF Invalidate, TaskType, PoolType
    <2>2. ReapType' /\ CloseType' /\ entries' \in [Keys -> Entries \cup {NoEntry}]
      BY <2>1 DEF ReapType, CloseType, PoolType
    <2>3. CASE e = NoEntry
      <3>1. Finish(t) /\ UNCHANGED <<conn, sftp, status, clients>>
        BY <1>14, <2>3 DEF Invalidate
      <3>2. QED
        BY <2>1, <2>2, <3>1, ReturnTypes DEF PoolType, ConnType
    <2>4. CASE e # NoEntry
      <3>1. ExitSftp(e) /\ conn' = [conn EXCEPT ![e] = NoConn] /\ e \in Entries
        BY <1>14, <2>1, <2>4 DEF Invalidate
      <3>2. PoolType' /\ clients' \in SUBSET (Entries \X Conns)
        BY <2>1, <2>2, <3>1, CloseTypes DEF PoolType
      <3>3. conn[e] \in Conns \cup {NoConn}
        BY <3>1 DEF PoolType
      <3>4. CASE ~Alive(conn[e])
        <4>1. Finish(t) /\ UNCHANGED status
          BY <1>14, <2>4, <3>4 DEF Invalidate
        <4>2. QED
          BY <2>1, <2>2, <3>2, <4>1, ReturnTypes DEF ConnType
      <3>5. CASE Alive(conn[e])
        <4>1. /\ status' = Closing(conn[e])
              /\ pc' = [pc EXCEPT ![t] = "draining"]
              /\ got' = [got EXCEPT ![t] = conn[e]]
              /\ UNCHANGED <<running, want, key, entry, tries>>
          BY <1>14, <2>4, <3>5 DEF Invalidate
        <4>2. TaskType'
          BY <3>3, <4>1 DEF TaskType, TaskPC
        <4>3. ConnType'
          BY <2>1, <3>2, <3>3, <4>1, CloseTypes DEF ConnType
        <4>4. QED
          BY <2>2, <3>2, <4>2, <4>3
      <3>6. QED
        BY <3>4, <3>5
    <2>5. QED
      BY <2>3, <2>4
  <1>15. ASSUME NEW t \in Tasks, Cancel(t) PROVE Types'
    <2>1. TaskType'
      BY <1>15, ReturnTypes DEF Cancel
    <2>2. lock' \in [Entries -> Tasks \cup {Nobody}]
      BY <1>15, CloseTypes DEF Cancel, PoolType
    <2>3. PoolType' /\ ConnType' /\ ReapType' /\ CloseType'
      BY <1>15, <2>2 DEF Cancel, PoolType, ConnType, ReapType, CloseType
    <2>4. QED
      BY <2>1, <2>2, <2>3
  <1>16. ASSUME ReapWake PROVE Types'
    BY <1>16 DEF ReapWake, Stale, PoolType, ConnType, TaskType, ReapType, CloseType
  <1>17. ASSUME NEW k \in Keys, ReapNext(k) PROVE Types'
    <2>1. UNCHANGED <<conn, idle, lock, peer, taskVars, closeVars>> /\ todo' = todo \ {k}
      BY <1>17 DEF ReapNext
    <2>2. CASE ~HasConn(k)
      <3>1. UNCHANGED <<entries, sftp, clients, status, rpc, rkey, rconn, running>>
        BY <1>17, <2>2 DEF ReapNext
      <3>2. QED
        BY <2>1, <3>1 DEF PoolType, ConnType, TaskType, ReapType, CloseType
    <2>3. CASE HasConn(k)
      <3>1. /\ ExitSftp(entries[k])
            /\ entries[k] \in Entries /\ conn[entries[k]] \in Conns
        BY <1>17, <2>3 DEF ReapNext, HasConn, PoolType
      <3>2. /\ sftp' \in [Entries -> Conns \cup {NoConn}]
            /\ clients' \in SUBSET (Entries \X Conns)
        BY <3>1, CloseTypes
      <3>3. CASE ~Alive(conn[entries[k]])
        <4>1. /\ entries' = [entries EXCEPT ![k] = NoEntry]
              /\ UNCHANGED <<status, rpc, rkey, rconn, running>>
          BY <1>17, <2>3, <3>3 DEF ReapNext
        <4>2. QED
          BY <2>1, <3>2, <4>1 DEF PoolType, ConnType, TaskType, ReapType, CloseType
      <3>4. CASE Alive(conn[entries[k]])
        <4>1. /\ status' = Closing(conn[entries[k]]) /\ UNCHANGED entries
              /\ rpc' = "drain" /\ rkey' = k /\ rconn' = conn[entries[k]]
              /\ running' = Nobody
          BY <1>17, <2>3, <3>4 DEF ReapNext
        <4>2. ConnType'
          BY <2>1, <3>1, <3>2, <4>1, CloseTypes DEF ConnType
        <4>3. PoolType' /\ TaskType' /\ ReapType' /\ CloseType'
          BY <2>1, <3>1, <3>2, <4>1 DEF PoolType, TaskType, ReapType, CloseType
        <4>4. QED
          BY <4>2, <4>3
      <3>5. QED
        BY <3>3, <3>4
    <2>4. QED
      BY <2>2, <2>3
  <1>18. ASSUME ReapPop \/ ReapSleep PROVE Types'
    BY <1>18 DEF ReapPop, ReapSleep, PoolType, ConnType, TaskType, ReapType, CloseType
  <1>19. ASSUME CloseStart \/ ClosePop \/ CloseDone PROVE Types'
    BY <1>19 DEF CloseStart, ClosePop, CloseDone, PoolType, ConnType, TaskType, ReapType, CloseType
  <1>20. ASSUME NEW k \in Keys, CloseNext(k) PROVE Types'
    <2>1. /\ UNCHANGED <<conn, idle, lock, peer, taskVars, reapVars>>
          /\ ExitSftp(entries[k]) /\ entries[k] \in Entries
          /\ conn[entries[k]] \in Conns \cup {NoConn}
      BY <1>20 DEF CloseNext, PoolType
    <2>2. /\ sftp' \in [Entries -> Conns \cup {NoConn}]
          /\ clients' \in SUBSET (Entries \X Conns)
      BY <2>1, CloseTypes
    <2>3. CASE ~Alive(conn[entries[k]])
      <3>1. /\ entries' = [entries EXCEPT ![k] = NoEntry]
            /\ UNCHANGED <<status, cpc, ckey, cconn, running>>
        BY <1>20, <2>3 DEF CloseNext
      <3>2. QED
        BY <2>1, <2>2, <3>1 DEF PoolType, ConnType, TaskType, ReapType, CloseType
    <2>4. CASE Alive(conn[entries[k]])
      <3>1. /\ status' = Closing(conn[entries[k]]) /\ UNCHANGED entries
            /\ cpc' = "drain" /\ ckey' = k /\ cconn' = conn[entries[k]]
            /\ running' = Nobody
        BY <1>20, <2>4 DEF CloseNext
      <3>2. ConnType'
        BY <2>1, <2>2, <3>1, CloseTypes DEF ConnType
      <3>3. PoolType' /\ TaskType' /\ ReapType' /\ CloseType'
        BY <2>1, <2>2, <3>1 DEF PoolType, TaskType, ReapType, CloseType
      <3>4. QED
        BY <3>2, <3>3
    <2>5. QED
      BY <2>3, <2>4
  <1>21. ASSUME NEW c \in Conns, CloseCompletes(c) \/ Drop(c) PROVE Types'
    BY <1>21 DEF CloseCompletes, Drop, PoolType, ConnType, TaskType, ReapType, CloseType
  <1>22. ASSUME NEW k \in Keys, GrowIdle(k) PROVE Types'
    BY <1>22 DEF GrowIdle, PoolType, ConnType, TaskType, ReapType, CloseType
  <1>23. ASSUME UNCHANGED vars PROVE Types'
    BY <1>23 DEF vars, PoolType, ConnType, TaskType, ReapType, CloseType
  <1>24. QED
    BY <1>1, <1>2, <1>3, <1>4, <1>5, <1>6, <1>7, <1>8, <1>9, <1>10, <1>11, <1>12, <1>13, <1>14, <1>15, <1>16, <1>17, <1>18, <1>19, <1>20, <1>21, <1>22, <1>23
    DEF Next, Resume, Segment, ReapStep, CloseStep

-----------------------------------------------------------------------------
(* The per-key lock.  An action enters a lock, leaves one, or touches none.  *)

\* Entering: the lock was free, or the call queues without it.
LEMMA EnterKeepsLock ==
  ASSUME TypeOK, LockInv, NEW t \in Tasks, NEW e \in Entries,
         NEW inside, NEW queued \in WaitPC, EnterLock(t, e, inside, queued)
  PROVE  LockInv'
  <1> SUFFICES ASSUME NEW u \in Tasks
               PROVE  /\ pc'[u] \in (LockPC \cup WaitPC) => entry'[u] \in Entries
                      /\ pc'[u] \in LockPC => lock'[entry'[u]] = u
    BY DEF LockInv
  <1> USE SentinelAssumption DEF TypeOK, Types, PoolType, TaskType
  <1>1. entry' = [entry EXCEPT ![t] = e]
    BY DEF EnterLock
  <1>2. CASE LockFree(e)
    BY <1>1, <1>2 DEF EnterLock, LockFree, LockInv
  <1>3. CASE ~LockFree(e)
    <2>1. pc' = [pc EXCEPT ![t] = queued] /\ lock' = lock
      BY <1>3 DEF EnterLock
    <2>2. queued \notin LockPC
      BY DEF LockPC, WaitPC
    <2>3. QED
      BY <1>1, <2>1, <2>2 DEF LockInv
  <1>4. QED
    BY <1>2, <1>3

\* Leaving: nobody else is inside the same lock.
LEMMA LeaveKeepsLock ==
  ASSUME TypeOK, LockInv, NEW t \in Tasks, pc[t] \in LockPC, Unlock(t),
         NEW x \in TaskPC \ (LockPC \cup WaitPC), pc' = [pc EXCEPT ![t] = x],
         NEW y, entry' = [entry EXCEPT ![t] = y]
  PROVE  LockInv'
  <1> SUFFICES ASSUME NEW u \in Tasks
               PROVE  /\ pc'[u] \in (LockPC \cup WaitPC) => entry'[u] \in Entries
                      /\ pc'[u] \in LockPC => lock'[entry'[u]] = u
    BY DEF LockInv
  <1>1. CASE u = t
    BY <1>1 DEF TypeOK, Types, TaskType
  <1>2. CASE u # t
    BY <1>2 DEF TypeOK, Types, PoolType, TaskType, LockInv, Unlock
  <1>3. QED
    BY <1>1, <1>2

\* Neither: a call outside every lock stays outside.
LEMMA OutsideKeepsLock ==
  ASSUME TypeOK, LockInv, NEW t \in Tasks, lock' = lock,
         NEW x \in TaskPC \ (LockPC \cup WaitPC), pc' = [pc EXCEPT ![t] = x],
         entry' = entry \/ \E y : entry' = [entry EXCEPT ![t] = y]
  PROVE  LockInv'
  BY DEF TypeOK, Types, TaskType, LockInv

LEMMA SetDefaultKeepsLock ==
  ASSUME TypeOK, LockInv, NEW t \in Tasks, NEW k \in Keys, SetDefault(t, k)
  PROVE  LockInv'
  <1>1. PICK e \in Entries : EnterLock(t, e, "check", "lockA")
    BY DEF SetDefault, TypeOK, Types, PoolType
  <1>2. "lockA" \in WaitPC
    BY DEF WaitPC
  <1>3. QED
    BY <1>1, <1>2, EnterKeepsLock

LEMMA LockStep == TypeOK /\ LockInv /\ [Next]_vars => LockInv'
  <1> SUFFICES ASSUME TypeOK, LockInv, [Next]_vars PROVE LockInv'
    OBVIOUS
  <1> USE DEF poolVars, connVars, taskVars, reapVars, closeVars
  <1>0. /\ {"idle", "using", "draining", "lookup", "retry"} \subseteq TaskPC \ (LockPC \cup WaitPC)
        /\ {"check", "opening", "recheck", "subsys"} = LockPC
        /\ "lockS" \in WaitPC
    BY DEF TaskPC, LockPC, WaitPC, RunPC
  <1>1. ASSUME NEW t \in Tasks, NEW k \in Keys, NEW w \in {"conn", "sftp"}, Call(t, k, w) PROVE LockInv'
    BY <1>1, SetDefaultKeepsLock DEF Call
  <1>2. ASSUME NEW t \in Tasks, Retry(t) PROVE LockInv'
    <2>1. CASE SetDefault(t, key[t])
      BY <2>1, SetDefaultKeepsLock DEF TypeOK, Types, TaskType
    <2>2. CASE Finish(t) /\ UNCHANGED poolVars
      BY <1>0, <2>2, OutsideKeepsLock DEF Finish
    <2>3. QED
      BY <1>2, <2>1, <2>2 DEF Retry
  <1>3. ASSUME NEW t \in Tasks, Granted(t) PROVE LockInv'
    <2>1. lock[entry[t]] = Nobody /\ entry[t] \in Entries /\ Nobody \notin Tasks
      BY <1>3, SentinelAssumption DEF Granted, LockInv
    <2>2. QED
      BY <1>3, <2>1 DEF Granted, LockInv, TypeOK, Types, PoolType, TaskType
  <1>4. ASSUME NEW t \in Tasks, Reuse(t) PROVE LockInv'
    BY <1>0, <1>4, LeaveKeepsLock DEF Reuse, Return
  <1>5. ASSUME NEW t \in Tasks, StartOpen(t) PROVE LockInv'
    BY <1>0, <1>5 DEF StartOpen, LockInv, TypeOK, Types, TaskType
  <1>6. ASSUME NEW t \in Tasks, OpenOk(t) PROVE LockInv'
    <2>1. PICK c \in Conns : Unlock(t) /\ Return(t, c)
      BY <1>6 DEF OpenOk
    <2>2. pc[t] \in LockPC
      BY <1>0, <1>6 DEF OpenOk
    <2>3. QED
      BY <1>0, <2>1, <2>2, LeaveKeepsLock DEF Return
  <1>7. ASSUME NEW t \in Tasks, OpenFail(t) \/ SubsysFail(t) PROVE LockInv'
    BY <1>0, <1>7, LeaveKeepsLock DEF OpenFail, SubsysFail, Finish
  <1>8. ASSUME NEW t \in Tasks, SubsysOk(t) PROVE LockInv'
    BY <1>0, <1>8, LeaveKeepsLock DEF SubsysOk, Yield
  <1>9. ASSUME NEW t \in Tasks, Lookup(t) PROVE LockInv'
    <2> DEFINE e == entries[key[t]]
    <2>1. CASE e = NoEntry \/ (e # NoEntry /\ sftp[e] # NoConn)
      BY <1>0, <1>9, <2>1, OutsideKeepsLock DEF Lookup, Yield
    <2>2. CASE e # NoEntry /\ sftp[e] = NoConn
      <3>1. EnterLock(t, e, "recheck", "lockS") /\ e \in Entries
        BY <1>9, <2>2 DEF Lookup, TypeOK, Types, PoolType, TaskType
      <3>2. QED
        BY <1>0, <3>1, EnterKeepsLock
    <2>3. QED
      BY <2>1, <2>2
  <1>10. ASSUME NEW t \in Tasks, Recheck(t) PROVE LockInv'
    <2>1. pc[t] \in LockPC
      BY <1>0, <1>10 DEF Recheck
    <2>2. CASE entries[key[t]] # entry[t]
      BY <1>0, <1>10, <2>1, <2>2, LeaveKeepsLock DEF Recheck
    <2>3. CASE entries[key[t]] = entry[t] /\ sftp[entry[t]] # NoConn
      BY <1>0, <1>10, <2>1, <2>3, LeaveKeepsLock DEF Recheck, Yield
    <2>4. CASE entries[key[t]] = entry[t] /\ sftp[entry[t]] = NoConn
      BY <1>0, <1>10, <2>1, <2>4 DEF Recheck, LockInv, TypeOK, Types, TaskType
    <2>5. QED
      BY <2>2, <2>3, <2>4
  <1>11. ASSUME NEW t \in Tasks, EndUse(t) \/ Drained(t) PROVE LockInv'
    BY <1>0, <1>11, OutsideKeepsLock DEF EndUse, Drained, Finish
  <1>12. ASSUME NEW t \in Tasks, Invalidate(t) PROVE LockInv'
    <2>1. /\ lock' = lock
          /\ \/ Finish(t)
             \/ pc' = [pc EXCEPT ![t] = "draining"] /\ entry' = entry
      BY <1>12 DEF Invalidate
    <2>2. QED
      BY <1>0, <2>1, OutsideKeepsLock DEF Finish
  <1>13. ASSUME NEW t \in Tasks, Cancel(t) PROVE LockInv'
    <2>1. CASE pc[t] \in LockPC
      BY <1>0, <1>13, <2>1, LeaveKeepsLock DEF Cancel, Finish
    <2>2. CASE pc[t] \notin LockPC
      BY <1>0, <1>13, <2>2, OutsideKeepsLock DEF Cancel, Finish
    <2>3. QED
      BY <2>1, <2>2
  <1>14. ASSUME UNCHANGED <<pc, entry, lock>> PROVE LockInv'
    BY <1>14 DEF LockInv
  <1>15. ASSUME ReapStep PROVE UNCHANGED <<pc, entry, lock>>
    BY <1>15 DEF ReapStep, ReapWake, ReapNext, ReapPop, ReapSleep
  <1>16. ASSUME CloseStep PROVE UNCHANGED <<pc, entry, lock>>
    BY <1>16 DEF CloseStep, CloseStart, CloseNext, ClosePop, CloseDone
  <1>17. ASSUME NEW c \in Conns, CloseCompletes(c) \/ Drop(c) PROVE UNCHANGED <<pc, entry, lock>>
    BY <1>17 DEF CloseCompletes, Drop
  <1>18. ASSUME NEW k \in Keys, GrowIdle(k) PROVE UNCHANGED <<pc, entry, lock>>
    BY <1>18 DEF GrowIdle
  <1>19. ASSUME UNCHANGED vars PROVE UNCHANGED <<pc, entry, lock>>
    BY <1>19 DEF vars
  <1>20. QED
    BY <1>1, <1>2, <1>3, <1>4, <1>5, <1>6, <1>7, <1>8, <1>9, <1>10, <1>11, <1>12, <1>13,
       <1>14, <1>15, <1>16, <1>17, <1>18, <1>19
    DEF Next, Resume, Segment

\* The two are inductive together.
LEMMA LockInvariant == Spec => [](TypeOK /\ LockInv)
  <1>1. Init => TypeOK /\ LockInv
    <2>1. Init => LockInv
      BY DEF Init, LockInv, LockPC, WaitPC
    <2>2. QED
      BY <2>1, InitType
  <1>2. TypeOK /\ LockInv /\ [Next]_vars => (TypeOK /\ LockInv)'
    BY TypeStep, LockStep
  <1>3. QED
    BY <1>1, <1>2, PTL DEF Spec

\* Every variable keeps its type, for every set of keys, calls, entries and
\* connections: the pool never leaves the states the code's fields range over.
THEOREM PoolTypeOK == Spec => []TypeOK
  BY LockInvariant, PTL

\* The per-key lock of pool.py is exclusive for any number of calls, whatever
\* the reaper, invalidations, cancellations and drops do in between.
THEOREM PoolLockExcludes == Spec => []LockExcludes
  <1>1. LockInv => LockExcludes
    BY DEF LockInv, LockExcludes
  <1>2. QED
    BY <1>1, LockInvariant, PTL

-----------------------------------------------------------------------------
(* Host isolation.  Most steps only forget: they clear slots, drop entries   *)
(* or hand a call something its entry already held.                          *)

LEMMA ForgettingKeepsIsolation ==
  ASSUME TypeOK, IsolationInv, UNCHANGED <<peer, key>>,
         \A k \in Keys : entries'[k] \in {entries[k], NoEntry},
         \A t \in Tasks : entry'[t] \in {entry[t], NoEntry},
         \A e \in Entries : /\ conn'[e] \in {conn[e], NoConn}
                            /\ sftp'[e] \in {sftp[e], NoConn},
         CallPeers'
  PROVE  IsolationInv'
  <1>1. EntryKeys'
    BY DEF IsolationInv, EntryKeys
  <1>2. ASSUME NEW e \in Entries, NEW k \in Keys, OnHost(e, k) PROVE OnHost(e, k)'
    BY <1>2 DEF OnHost
  <1>3. EntryPeers'
    <2>1. ASSUME NEW k \in Keys, entries'[k] # NoEntry PROVE OnHost(entries[k], k)' /\ entries'[k] = entries[k]
      BY <1>2, <2>1 DEF IsolationInv, EntryPeers, TypeOK, Types, PoolType
    <2>2. ASSUME NEW t \in Tasks, entry'[t] # NoEntry PROVE OnHost(entry[t], key[t])' /\ entry'[t] = entry[t]
      BY <1>2, <2>2 DEF IsolationInv, EntryPeers, TypeOK, Types, TaskType
    <2>3. QED
      BY <2>1, <2>2 DEF EntryPeers, OnHost
  <1>4. QED
    BY <1>1, <1>3 DEF IsolationInv

\* What a call is given by an entry of its key leads to its host.
LEMMA GivenKeepsCallPeers ==
  ASSUME TypeOK, IsolationInv, NEW t \in Tasks, UNCHANGED <<peer, key>>,
         NEW c \in Conns \cup {NoConn}, c # NoConn => peer[c] = key[t],
         got' = [got EXCEPT ![t] = c],
         NEW x \in TaskPC, pc' = [pc EXCEPT ![t] = x],
         x = "idle" => c = NoConn, x = "using" => c # NoConn
  PROVE  CallPeers'
  BY DEF TypeOK, Types, TaskType, IsolationInv, CallPeers

\* The rest of the calls' view is unchanged when no call is given anything.
LEMMA QuietKeepsCallPeers ==
  ASSUME TypeOK, IsolationInv, UNCHANGED <<peer, key, got>>,
         pc' = pc \/ \E t \in Tasks, x \in TaskPC \ {"idle", "using"} : pc' = [pc EXCEPT ![t] = x]
  PROVE  CallPeers'
  BY DEF TypeOK, Types, TaskType, IsolationInv, CallPeers

\* Taking the entry of a key, or making one nobody held.
LEMMA SetDefaultKeepsIsolation ==
  ASSUME TypeOK, IsolationInv, NEW t \in Tasks, NEW k \in Keys, SetDefault(t, k),
         UNCHANGED <<peer, got>>, key' = [key EXCEPT ![t] = k], pc[t] = "idle" \/ key[t] = k
  PROVE  IsolationInv'
  <1> USE DEF TypeOK, Types, PoolType, TaskType
  <1>1. PICK e \in Entries : EnterLock(t, e, "check", "lockA") /\ entries' = [entries EXCEPT ![k] = e]
                             /\ \/ entries[k] = e /\ UNCHANGED <<conn, sftp>>
                                \/ /\ entries[k] = NoEntry /\ ~Held(e)
                                   /\ conn' = [conn EXCEPT ![e] = NoConn]
                                   /\ sftp' = [sftp EXCEPT ![e] = NoConn]
    BY DEF SetDefault
  <1>2. /\ entry' = [entry EXCEPT ![t] = e]
        /\ \E x \in {"check", "lockA"} : pc' = [pc EXCEPT ![t] = x]
    BY <1>1 DEF EnterLock
  <1>3. CallPeers'
    BY <1>2 DEF IsolationInv, CallPeers
  <1>4. e \in Entries /\ e # NoEntry
    BY SentinelAssumption
  <1>5. CASE entries[k] = e /\ UNCHANGED <<conn, sftp>>
    <2>1. entries' = entries
      BY <1>1, <1>5
    <2>2. EntryKeys'
      BY <1>2, <1>4, <1>5, <2>1 DEF IsolationInv, EntryKeys
    <2>3. EntryPeers'
      BY <1>2, <1>4, <1>5, <2>1 DEF IsolationInv, EntryPeers, OnHost
    <2>4. QED
      BY <1>3, <2>2, <2>3 DEF IsolationInv
  <1>6. CASE /\ entries[k] = NoEntry /\ ~Held(e)
             /\ conn' = [conn EXCEPT ![e] = NoConn]
             /\ sftp' = [sftp EXCEPT ![e] = NoConn]
    <2>1. (\A l \in Keys : entries[l] # e) /\ (\A u \in Tasks : entry[u] # e)
      BY <1>6 DEF Held
    <2>2. EntryKeys'
      BY <1>1, <1>2, <1>4, <2>1 DEF IsolationInv, EntryKeys
    <2>3. EntryPeers'
      BY <1>1, <1>2, <1>4, <1>6, <2>1 DEF IsolationInv, EntryPeers, OnHost
    <2>4. QED
      BY <1>3, <2>2, <2>3 DEF IsolationInv
  <1>7. QED
    BY <1>1, <1>5, <1>6

LEMMA IsolationStep == TypeOK /\ LockInv /\ IsolationInv /\ [Next]_vars => IsolationInv'
  <1> SUFFICES ASSUME TypeOK, LockInv, IsolationInv, [Next]_vars PROVE IsolationInv'
    OBVIOUS
  <1> USE DEF poolVars, connVars, taskVars, reapVars, closeVars
  <1>0. /\ {"idle", "using", "draining", "lookup", "retry"} \subseteq TaskPC
        /\ LockPC \cup WaitPC \subseteq TaskPC \ {"idle", "using"}
        /\ {"check", "opening", "recheck", "subsys"} = LockPC
    BY DEF TaskPC, LockPC, WaitPC, RunPC
  <1>t. /\ entries \in [Keys -> Entries \cup {NoEntry}]
        /\ conn \in [Entries -> Conns \cup {NoConn}]
        /\ sftp \in [Entries -> Conns \cup {NoConn}]
        /\ entry \in [Tasks -> Entries \cup {NoEntry}]
        /\ key \in [Tasks -> Keys]
        /\ got \in [Tasks -> Conns \cup {NoConn}]
    BY DEF TypeOK, Types, PoolType, TaskType
  <1>1. ASSUME NEW t \in Tasks, NEW k \in Keys, NEW w \in {"conn", "sftp"}, Call(t, k, w) PROVE IsolationInv'
    BY <1>1, SetDefaultKeepsIsolation DEF Call
  <1>2. ASSUME NEW t \in Tasks, Finish(t), UNCHANGED <<peer, conn, sftp>>,
               \A k \in Keys : entries'[k] \in {entries[k], NoEntry}
        PROVE  IsolationInv'
    <2>1. CallPeers'
      BY <1>0, <1>2, GivenKeepsCallPeers DEF Finish
    <2>2. QED
      BY <1>t, <1>2, <2>1, ForgettingKeepsIsolation DEF Finish
  <1>3. ASSUME NEW t \in Tasks, Retry(t) PROVE IsolationInv'
    <2>1. CASE SetDefault(t, key[t]) /\ UNCHANGED <<want, key, got>>
      <3>1. key' = [key EXCEPT ![t] = key[t]] /\ key[t] \in Keys
        BY <1>t, <2>1
      <3>2. QED
        BY <1>3, <2>1, <3>1, SetDefaultKeepsIsolation DEF Retry
    <2>2. CASE Finish(t) /\ UNCHANGED poolVars
      BY <1>2, <1>3, <2>2 DEF Retry
    <2>3. QED
      BY <1>3, <2>1, <2>2 DEF Retry
  <1>4. ASSUME NEW t \in Tasks, Granted(t) PROVE IsolationInv'
    <2>1. CallPeers'
      BY <1>0, <1>4, QuietKeepsCallPeers DEF Granted
    <2>2. QED
      BY <1>t, <1>4, <2>1, ForgettingKeepsIsolation DEF Granted
  <1>5. ASSUME NEW t \in Tasks, Reuse(t) PROVE IsolationInv'
    <2>1. entry[t] \in Entries /\ conn[entry[t]] \in Conns /\ NoConn \notin Conns
      BY <1>0, <1>t, <1>5, SentinelAssumption DEF Reuse, Alive, LockInv
    <2>2. peer[conn[entry[t]]] = key[t]
      BY <2>1, SentinelAssumption DEF IsolationInv, EntryPeers, OnHost
    <2>3. CallPeers'
      BY <1>0, <1>5, <2>1, <2>2, GivenKeepsCallPeers DEF Reuse, Return
    <2>4. QED
      BY <1>t, <1>5, <2>3, ForgettingKeepsIsolation DEF Reuse, Return
  <1>6. ASSUME NEW t \in Tasks, StartOpen(t) PROVE IsolationInv'
    <2>1. CallPeers'
      BY <1>0, <1>6, QuietKeepsCallPeers DEF StartOpen
    <2>2. QED
      BY <1>t, <1>6, <2>1, ForgettingKeepsIsolation DEF StartOpen, ExitSftp
  <1>7. ASSUME NEW t \in Tasks, OpenOk(t) PROVE IsolationInv'
    <2>1. PICK c \in Conns :
            /\ Forgotten(c)
            /\ peer' = [peer EXCEPT ![c] = key[t]]
            /\ conn' = [conn EXCEPT ![entry[t]] = c]
            /\ Return(t, c) /\ UNCHANGED <<entries, sftp>>
      BY <1>7 DEF OpenOk
    <2>2. /\ entry[t] \in Entries /\ NoConn \notin Conns /\ NoEntry \notin Entries
          /\ peer \in [Conns -> Keys]
      BY <1>0, <1>7, SentinelAssumption DEF OpenOk, LockInv, TypeOK, Types, ConnType
    <2>3. /\ entry' = [entry EXCEPT ![t] = NoEntry] /\ key' = key
          /\ got' = [got EXCEPT ![t] = c]
          /\ \E x \in {"lookup", "using"} : pc' = [pc EXCEPT ![t] = x]
      BY <2>1 DEF Return
    <2>4. EntryKeys'
      BY <1>t, <2>1, <2>3 DEF IsolationInv, EntryKeys
    <2>5. ASSUME NEW e \in Entries, NEW k \in Keys, Held(e), OnHost(e, k), e = entry[t] => k = key[t]
          PROVE  OnHost(e, k)'
      BY <1>t, <2>1, <2>2, <2>5 DEF OnHost, Forgotten
    <2>6. EntryPeers'
      <3>1. ASSUME NEW k \in Keys, entries'[k] # NoEntry PROVE OnHost(entries[k], k)'
        BY <1>t, <2>1, <2>2, <2>5, <3>1 DEF IsolationInv, EntryKeys, EntryPeers, Held
      <3>2. ASSUME NEW u \in Tasks, entry'[u] # NoEntry PROVE entry'[u] = entry[u] /\ OnHost(entry[u], key[u])'
        <4>1. u # t /\ entry'[u] = entry[u] /\ entry[u] \in Entries
          BY <1>t, <2>3, <3>2
        <4>2. Held(entry[u]) /\ (entry[u] = entry[t] => key[u] = key[t])
          BY <2>2, <4>1 DEF IsolationInv, EntryKeys, Held
        <4>3. OnHost(entry[u], key[u])
          BY <2>2, <4>1 DEF IsolationInv, EntryPeers
        <4>4. OnHost(entry[u], key[u])'
          BY <1>t, <2>1, <2>2, <2>3, <4>1, <4>2, <4>3 DEF OnHost, Forgotten
        <4>5. QED
          BY <4>1, <4>4
      <3>3. QED
        BY <3>1, <3>2 DEF EntryPeers, OnHost
    <2>7. CallPeers'
      BY <1>t, <2>1, <2>2, <2>3 DEF IsolationInv, CallPeers, Forgotten, TypeOK, Types, TaskType
    <2>8. QED
      BY <2>4, <2>6, <2>7 DEF IsolationInv
  <1>8. ASSUME NEW t \in Tasks, OpenFail(t) \/ SubsysFail(t) \/ EndUse(t) \/ Drained(t) \/ Cancel(t)
        PROVE  IsolationInv'
    BY <1>2, <1>8 DEF OpenFail, SubsysFail, EndUse, Drained, Cancel
  <1>9. ASSUME NEW t \in Tasks, NEW e \in Entries, NEW c \in Conns, e = entries[key[t]], c = sftp[e],
               Yield(t, c), UNCHANGED <<entries, conn, sftp, peer>>
        PROVE  IsolationInv'
    <2>1. peer[c] = key[t] /\ c # NoConn
      BY <1>t, <1>9, SentinelAssumption DEF IsolationInv, EntryPeers, OnHost
    <2>2. CallPeers'
      BY <1>0, <1>9, <2>1, GivenKeepsCallPeers DEF Yield
    <2>3. QED
      BY <1>t, <1>9, <2>2, ForgettingKeepsIsolation DEF Yield
  <1>10. ASSUME NEW t \in Tasks, Lookup(t) PROVE IsolationInv'
    <2> DEFINE e == entries[key[t]]
    <2>1. UNCHANGED <<entries, conn, sftp, peer>>
      BY <1>10 DEF Lookup
    <2>2. CASE e = NoEntry
      <3>1. UNCHANGED <<entry, got, key>> /\ pc' = [pc EXCEPT ![t] = "retry"]
        BY <1>10, <2>2 DEF Lookup
      <3>2. CallPeers'
        BY <1>0, <2>1, <3>1, QuietKeepsCallPeers
      <3>3. QED
        BY <1>t, <2>1, <3>1, <3>2, ForgettingKeepsIsolation
    <2>3. CASE e # NoEntry /\ sftp[e] # NoConn
      <3>1. e \in Entries /\ sftp[e] \in Conns
        BY <1>t, <2>3
      <3>2. Yield(t, sftp[e])
        BY <1>10, <2>3 DEF Lookup
      <3>3. QED
        BY <1>9, <2>1, <3>1, <3>2
    <2>4. CASE e # NoEntry /\ sftp[e] = NoConn
      <3>1. EnterLock(t, e, "recheck", "lockS") /\ UNCHANGED <<got, key>>
        BY <1>10, <2>4 DEF Lookup
      <3>2. entry' = [entry EXCEPT ![t] = e] /\ \E x \in {"recheck", "lockS"} : pc' = [pc EXCEPT ![t] = x]
        BY <3>1 DEF EnterLock
      <3>3. CallPeers'
        BY <2>1, <3>1, <3>2 DEF TypeOK, Types, TaskType, IsolationInv, CallPeers
      <3>4. EntryKeys'
        BY <1>t, <2>1, <2>4, <3>1, <3>2 DEF IsolationInv, EntryKeys
      <3>5. EntryPeers'
        BY <1>t, <2>1, <2>4, <3>1, <3>2 DEF IsolationInv, EntryPeers, OnHost
      <3>6. QED
        BY <3>3, <3>4, <3>5 DEF IsolationInv
    <2>5. QED
      BY <2>2, <2>3, <2>4
  <1>11. ASSUME NEW t \in Tasks, Recheck(t) PROVE IsolationInv'
    <2>1. UNCHANGED <<entries, conn, sftp, peer>> /\ entry[t] \in Entries
      BY <1>0, <1>11 DEF Recheck, LockInv
    <2>2. CASE entries[key[t]] = entry[t] /\ sftp[entry[t]] # NoConn
      <3>1. sftp[entry[t]] \in Conns
        BY <1>t, <2>1, <2>2
      <3>2. Yield(t, sftp[entry[t]])
        BY <1>11, <2>2 DEF Recheck
      <3>3. QED
        BY <1>9, <2>1, <2>2, <3>1, <3>2
    <2>3. CASE ~(entries[key[t]] = entry[t] /\ sftp[entry[t]] # NoConn)
      <3>1. /\ UNCHANGED <<got, key>>
            /\ entry' = entry \/ entry' = [entry EXCEPT ![t] = NoEntry]
            /\ \E x \in {"retry", "subsys"} : pc' = [pc EXCEPT ![t] = x]
        BY <1>11, <2>3 DEF Recheck
      <3>2. CallPeers'
        BY <1>0, <2>1, <3>1, QuietKeepsCallPeers
      <3>3. QED
        BY <1>t, <2>1, <3>1, <3>2, ForgettingKeepsIsolation
    <2>4. QED
      BY <2>2, <2>3
  <1>12. ASSUME NEW t \in Tasks, SubsysOk(t) PROVE IsolationInv'
    <2>1. /\ entry[t] \in Entries /\ got[t] \in Conns /\ got[t] # NoConn
          /\ peer[got[t]] = key[t]
          /\ UNCHANGED <<entries, conn, peer>>
          /\ sftp' = [sftp EXCEPT ![entry[t]] = got[t]]
          /\ Yield(t, got[t]) /\ NoEntry \notin Entries
      BY <1>0, <1>t, <1>12, SentinelAssumption DEF SubsysOk, LockInv, Alive, IsolationInv, CallPeers
    <2>2. CallPeers'
      BY <1>0, <2>1, GivenKeepsCallPeers DEF Yield
    <2>3. EntryKeys'
      BY <1>t, <2>1 DEF IsolationInv, EntryKeys, Yield
    <2>4. ASSUME NEW e \in Entries, NEW k \in Keys, OnHost(e, k), e = entry[t] => k = key[t]
          PROVE  OnHost(e, k)'
      BY <1>t, <2>1, <2>4 DEF OnHost
    <2>5. EntryPeers'
      <3>1. ASSUME NEW k \in Keys, entries[k] # NoEntry PROVE OnHost(entries[k], k)'
        BY <1>t, <2>1, <2>4, <3>1 DEF IsolationInv, EntryKeys, EntryPeers
      <3>2. ASSUME NEW u \in Tasks, entry'[u] # NoEntry PROVE entry'[u] = entry[u] /\ OnHost(entry[u], key[u])'
        <4>1. u # t /\ entry'[u] = entry[u] /\ entry[u] \in Entries /\ key' = key
          BY <1>t, <2>1, <3>2 DEF Yield
        <4>2. entry[u] = entry[t] => key[u] = key[t]
          BY <2>1, <4>1 DEF IsolationInv, EntryKeys
        <4>3. OnHost(entry[u], key[u])
          BY <2>1, <4>1 DEF IsolationInv, EntryPeers
        <4>4. OnHost(entry[u], key[u])'
          BY <1>t, <2>1, <4>1, <4>2, <4>3 DEF OnHost
        <4>5. QED
          BY <4>1, <4>4
      <3>3. QED
        BY <2>1, <3>1, <3>2 DEF EntryPeers, OnHost
    <2>6. QED
      BY <2>2, <2>3, <2>5 DEF IsolationInv
  <1>13. ASSUME NEW t \in Tasks, Invalidate(t) PROVE IsolationInv'
    <2> DEFINE e == entries[key[t]]
    <2>1. /\ entries' = [entries EXCEPT ![key[t]] = NoEntry] /\ peer' = peer
          /\ e \in Entries \cup {NoEntry}
      BY <1>t, <1>13 DEF Invalidate
    <2>2. CASE e = NoEntry
      BY <1>t, <1>2, <1>13, <2>1, <2>2 DEF Invalidate
    <2>3. CASE e # NoEntry
      <3>1. ExitSftp(e) /\ conn' = [conn EXCEPT ![e] = NoConn]
        BY <1>13, <2>3 DEF Invalidate
      <3>2. CallPeers' /\ key' = key /\ \A u \in Tasks : entry'[u] \in {entry[u], NoEntry}
        <4>1. CASE Finish(t)
          BY <1>0, <1>t, <2>1, <4>1, GivenKeepsCallPeers DEF Finish
        <4>2. CASE /\ Alive(conn[e])
                   /\ pc' = [pc EXCEPT ![t] = "draining"]
                   /\ got' = [got EXCEPT ![t] = conn[e]]
                   /\ UNCHANGED <<key, entry>>
          <5>1. conn[e] \in Conns \cup {NoConn} /\ (conn[e] # NoConn => peer[conn[e]] = key[t])
            BY <1>t, <2>1, <2>3 DEF IsolationInv, EntryPeers, OnHost
          <5>2. QED
            BY <1>0, <2>1, <4>2, <5>1, GivenKeepsCallPeers
        <4>3. QED
          BY <1>13, <2>3, <4>1, <4>2 DEF Invalidate
      <3>3. QED
        BY <1>t, <2>1, <3>1, <3>2, ForgettingKeepsIsolation DEF ExitSftp
    <2>4. QED
      BY <2>2, <2>3
  <1>14. ASSUME UNCHANGED <<peer, key, entry, got, pc, conn>>,
                \A k \in Keys : entries'[k] \in {entries[k], NoEntry},
                \A e \in Entries : sftp'[e] \in {sftp[e], NoConn}
         PROVE  IsolationInv'
    <2>1. CallPeers'
      BY <1>14, QuietKeepsCallPeers
    <2>2. QED
      BY <1>14, <2>1, ForgettingKeepsIsolation
  <1>15. ASSUME ReapStep PROVE IsolationInv'
    <2>1. CASE \E k \in Keys : ReapNext(k)
      BY <1>t, <1>14, <2>1 DEF ReapNext, ExitSftp
    <2>2. CASE ReapWake \/ ReapPop \/ ReapSleep
      BY <1>t, <1>14, <2>2 DEF ReapWake, ReapPop, ReapSleep
    <2>3. QED
      BY <1>15, <2>1, <2>2 DEF ReapStep
  <1>16. ASSUME CloseStep PROVE IsolationInv'
    <2>1. CASE \E k \in Keys : CloseNext(k)
      BY <1>t, <1>14, <2>1 DEF CloseNext, ExitSftp
    <2>2. CASE CloseStart \/ ClosePop \/ CloseDone
      BY <1>t, <1>14, <2>2 DEF CloseStart, ClosePop, CloseDone
    <2>3. QED
      BY <1>16, <2>1, <2>2 DEF CloseStep
  <1>17. ASSUME NEW c \in Conns, CloseCompletes(c) \/ Drop(c) PROVE IsolationInv'
    BY <1>14, <1>17 DEF CloseCompletes, Drop
  <1>18. ASSUME NEW k \in Keys, GrowIdle(k) PROVE IsolationInv'
    BY <1>14, <1>18 DEF GrowIdle
  <1>19. ASSUME UNCHANGED vars PROVE IsolationInv'
    BY <1>14, <1>19 DEF vars
  <1>20. QED
    BY <1>1, <1>3, <1>4, <1>5, <1>6, <1>7, <1>8, <1>10, <1>11, <1>12, <1>13, <1>15, <1>16,
       <1>17, <1>18, <1>19
    DEF Next, Resume, Segment

\* No call is ever given a connection, or an SFTP client on a connection, to a
\* host other than the one it asked for, for any number of hosts and calls and
\* whatever is reaped, invalidated, dropped and reopened while it waits.
THEOREM PoolHostIsolation == Spec => []HostIsolation
  <1>1. Init => IsolationInv
    BY SentinelAssumption DEF Init, IsolationInv, EntryKeys, EntryPeers, CallPeers
  <1>2. TypeOK /\ LockInv /\ IsolationInv /\ [Next]_vars => IsolationInv'
    BY IsolationStep
  <1>3. IsolationInv => HostIsolation
    BY DEF IsolationInv, CallPeers, HostIsolation
  <1>4. QED
    BY <1>1, <1>2, <1>3, LockInvariant, PTL DEF Spec

-----------------------------------------------------------------------------
(* The cached SFTP client of an entry.                                       *)

\* The ways a step changes the client slots: not at all, by the exit of a
\* cached client, by making a fresh entry, or by opening a client.
SlotStep ==
  \/ sftp' = sftp
  \/ \E e \in Entries : ExitSftp(e)
  \/ \E e \in Entries : ~Held(e) /\ sftp' = [sftp EXCEPT ![e] = NoConn]
  \/ \E t \in Tasks : SubsysOk(t)

LEMMA SlotSteps == TypeOK /\ LockInv /\ [Next]_vars => SlotStep
  <1> SUFFICES ASSUME TypeOK, LockInv, [Next]_vars PROVE SlotStep
    OBVIOUS
  <1> USE DEF poolVars, connVars, taskVars, reapVars, closeVars
  <1>1. \A t \in Tasks, k \in Keys : SetDefault(t, k) => SlotStep
    BY DEF SetDefault, SlotStep
  <1>2. ASSUME NEW t \in Tasks, \/ \E k \in Keys, w \in {"conn", "sftp"} : Call(t, k, w)
                                \/ Retry(t)
        PROVE SlotStep
    <2>1. key[t] \in Keys
      BY DEF TypeOK, Types, TaskType
    <2>2. QED
      BY <1>1, <1>2, <2>1 DEF Call, Retry, SlotStep
  <1>3. ASSUME NEW t \in Tasks, StartOpen(t) PROVE SlotStep
    BY <1>3 DEF StartOpen, SlotStep, LockInv, LockPC
  <1>4. ASSUME NEW t \in Tasks, \/ Granted(t) \/ Reuse(t) \/ OpenOk(t) \/ OpenFail(t) \/ Lookup(t)
                                \/ Recheck(t) \/ SubsysFail(t) \/ EndUse(t) \/ Drained(t) \/ Cancel(t)
        PROVE SlotStep
    BY <1>4 DEF Granted, Reuse, OpenOk, OpenFail, Lookup, Recheck, SubsysFail, EndUse, Drained, Cancel, SlotStep
  <1>5. ASSUME NEW t \in Tasks, Invalidate(t) PROVE SlotStep
    BY <1>5 DEF Invalidate, SlotStep, TypeOK, Types, PoolType, TaskType
  <1>6. ASSUME ReapStep PROVE SlotStep
    BY <1>6 DEF ReapStep, ReapWake, ReapNext, ReapPop, ReapSleep, HasConn, SlotStep, TypeOK, Types, PoolType
  <1>7. ASSUME CloseStep PROVE SlotStep
    BY <1>7 DEF CloseStep, CloseStart, CloseNext, ClosePop, CloseDone, SlotStep, TypeOK, Types, PoolType
  <1>8. ASSUME NEW c \in Conns, CloseCompletes(c) \/ Drop(c) PROVE SlotStep
    BY <1>8 DEF CloseCompletes, Drop, SlotStep
  <1>9. ASSUME NEW k \in Keys, GrowIdle(k) PROVE SlotStep
    BY <1>9 DEF GrowIdle, SlotStep
  <1>10. ASSUME UNCHANGED vars PROVE SlotStep
    BY <1>10 DEF vars, SlotStep
  <1>11. ASSUME NEW t \in Tasks, SubsysOk(t) PROVE SlotStep
    BY <1>11 DEF SlotStep
  <1>12. QED
    BY <1>2, <1>3, <1>4, <1>5, <1>6, <1>7, <1>8, <1>9, <1>10, <1>11 DEF Next, Resume, Segment

\* `_acquire_sftp` looked again under the lock: its entry is the pooled one and
\* has no client.
FoundEmpty(u) ==
  /\ entries[key[u]] = entry[u] /\ sftp[entry[u]] = NoConn
  /\ UNCHANGED <<entries, conn, sftp, key>>

\* Who is opening the subsystem after a step was doing so before, or has just
\* found the slot empty.
LEMMA SubsysSteps ==
  TypeOK /\ LockInv /\ [Next]_vars =>
    \A u \in Tasks : pc'[u] = "subsys" =>
      /\ entry'[u] = entry[u] /\ got'[u] = got[u]
      /\ pc[u] = "subsys" \/ FoundEmpty(u)
  <1> SUFFICES ASSUME TypeOK, LockInv, [Next]_vars, NEW u \in Tasks, pc'[u] = "subsys"
               PROVE  /\ entry'[u] = entry[u] /\ got'[u] = got[u]
                      /\ pc[u] = "subsys" \/ FoundEmpty(u)
    OBVIOUS
  <1> USE DEF poolVars, connVars, taskVars, reapVars, closeVars
  <1> DEFINE Goal == /\ entry'[u] = entry[u] /\ got'[u] = got[u]
                     /\ pc[u] = "subsys" \/ FoundEmpty(u)
  <1>t. /\ pc \in [Tasks -> TaskPC] /\ entry \in [Tasks -> Entries \cup {NoEntry}]
        /\ key \in [Tasks -> Keys] /\ got \in [Tasks -> Conns \cup {NoConn}]
    BY DEF TypeOK, Types, TaskType
  <1>1. ASSUME NEW t \in Tasks, NEW x, x # "subsys", pc' = [pc EXCEPT ![t] = x],
               entry' = entry \/ \E y : entry' = [entry EXCEPT ![t] = y],
               got' = got \/ \E y : got' = [got EXCEPT ![t] = y]
        PROVE  Goal
    BY <1>t, <1>1
  <1>2. ASSUME NEW t \in Tasks, NEW k \in Keys, SetDefault(t, k), got' = got PROVE Goal
    BY <1>1, <1>2 DEF SetDefault, EnterLock
  <1>3. ASSUME NEW t \in Tasks, \/ Finish(t)
                                \/ \E c \in Conns \cup {NoConn} : Return(t, c) \/ Yield(t, c)
        PROVE  Goal
    BY <1>1, <1>3 DEF Finish, Return, Yield
  <1>4. ASSUME NEW t \in Tasks, \/ \E k \in Keys, w \in {"conn", "sftp"} : Call(t, k, w)
                                \/ Retry(t)
        PROVE Goal
    <2>1. \A k \in Keys, w \in {"conn", "sftp"} : Call(t, k, w) => SetDefault(t, k) /\ got' = got
      BY DEF Call
    <2>2. Retry(t) => (SetDefault(t, key[t]) /\ got' = got) \/ Finish(t)
      BY DEF Retry
    <2>3. QED
      BY <1>t, <1>2, <1>3, <1>4, <2>1, <2>2
  <1>5. ASSUME NEW t \in Tasks, Granted(t) \/ StartOpen(t) PROVE Goal
    BY <1>1, <1>5 DEF Granted, StartOpen
  <1>6. ASSUME NEW t \in Tasks, Reuse(t) \/ OpenOk(t) \/ SubsysOk(t) PROVE Goal
    BY <1>1, <1>6 DEF Reuse, OpenOk, SubsysOk, Return, Yield
  <1>7. ASSUME NEW t \in Tasks, OpenFail(t) \/ SubsysFail(t) \/ EndUse(t) \/ Drained(t) \/ Cancel(t)
        PROVE Goal
    BY <1>3, <1>7 DEF OpenFail, SubsysFail, EndUse, Drained, Cancel
  <1>8. ASSUME NEW t \in Tasks, Lookup(t) PROVE Goal
    BY <1>1, <1>8 DEF Lookup, EnterLock, Yield
  <1>9. ASSUME NEW t \in Tasks, Recheck(t) PROVE Goal
    <2>1. CASE entries[key[t]] = entry[t] /\ sftp[entry[t]] = NoConn
      BY <1>t, <1>9, <2>1 DEF Recheck, FoundEmpty
    <2>2. CASE ~(entries[key[t]] = entry[t] /\ sftp[entry[t]] = NoConn)
      BY <1>1, <1>9, <2>2 DEF Recheck, Yield
    <2>3. QED
      BY <2>1, <2>2
  <1>10. ASSUME NEW t \in Tasks, Invalidate(t) PROVE Goal
    BY <1>1, <1>3, <1>10 DEF Invalidate
  <1>11. ASSUME UNCHANGED <<pc, entry, got>> PROVE Goal
    BY <1>11
  <1>12. ASSUME ReapStep \/ CloseStep PROVE Goal
    BY <1>11, <1>12 DEF ReapStep, ReapWake, ReapNext, ReapPop, ReapSleep,
                        CloseStep, CloseStart, CloseNext, ClosePop, CloseDone
  <1>13. ASSUME UNCHANGED vars \/ (\E c \in Conns : CloseCompletes(c) \/ Drop(c))
                               \/ (\E k \in Keys : GrowIdle(k))
         PROVE Goal
    BY <1>11, <1>13 DEF vars, CloseCompletes, Drop, GrowIdle
  <1>14. Goal
    BY <1>4, <1>5, <1>6, <1>7, <1>8, <1>9, <1>10, <1>12, <1>13 DEF Next, Resume, Segment
  <1>15. QED
    BY <1>14

LEMMA SlotKept == TypeOK /\ LockInv /\ SlotInv /\ [Next]_vars => SlotInv'
  <1> SUFFICES ASSUME TypeOK, LockInv, SlotInv, [Next]_vars, NEW u \in Tasks, pc'[u] = "subsys"
               PROVE  sftp'[entry'[u]] = NoConn
    BY DEF SlotInv
  <1>1. entry'[u] = entry[u] /\ sftp[entry[u]] = NoConn
    BY SubsysSteps DEF SlotInv, FoundEmpty
  <1>2. CASE pc[u] # "subsys"
    BY <1>1, <1>2, SubsysSteps DEF FoundEmpty
  <1>3. CASE pc[u] = "subsys"
    <2>1. entry[u] \in Entries /\ lock[entry[u]] = u
      BY <1>3 DEF LockInv, LockPC
    <2>2. ASSUME NEW t \in Tasks, SubsysOk(t) PROVE sftp'[entry[u]] = NoConn
      <3>1. t # u
        BY <1>3, <2>2 DEF SubsysOk, Yield, TypeOK, Types, TaskType
      <3>2. entry[t] # entry[u]
        BY <2>1, <2>2, <3>1 DEF SubsysOk, LockInv, LockPC
      <3>3. QED
        BY <1>1, <2>1, <2>2, <3>2 DEF SubsysOk, TypeOK, Types, PoolType
    <2>3. QED
      BY <1>1, <2>1, <2>2, SlotSteps DEF SlotStep, ExitSftp, TypeOK, Types, PoolType
  <1>4. QED
    BY <1>2, <1>3

\* A cached SFTP client is never replaced or cleared without being exited: of
\* any number of concurrent first SFTP calls only one opens a client.
THEOREM PoolNoClientOverwritten == Spec => NoClientOverwritten
  <1> DEFINE Kept == /\ \A e \in Entries : Held(e) /\ sftp[e] # NoConn /\ sftp'[e] # sftp[e] =>
                          <<e, sftp[e]>> \notin clients'
                     /\ \A t \in Tasks : pc[t] = "subsys" /\ pc'[t] = "using" =>
                          sftp[entry[t]] = NoConn
  <1>1. Init => SlotInv
    BY DEF Init, SlotInv
  <1>2. TypeOK /\ LockInv /\ SlotInv /\ [Next]_vars => SlotInv'
    BY SlotKept
  <1>3. TypeOK /\ LockInv /\ SlotInv /\ [Next]_vars => Kept
    <2> SUFFICES ASSUME TypeOK, LockInv, SlotInv, [Next]_vars PROVE Kept
      OBVIOUS
    <2>1. ASSUME NEW e \in Entries, Held(e), sftp[e] # NoConn, sftp'[e] # sftp[e]
          PROVE  <<e, sftp[e]>> \notin clients'
      <3>1. CASE \E t \in Tasks : SubsysOk(t)
        BY <2>1, <3>1 DEF SubsysOk, SlotInv, TypeOK, Types, PoolType
      <3>2. CASE \E d \in Entries : ExitSftp(d)
        BY <2>1, <3>2 DEF ExitSftp, TypeOK, Types, PoolType
      <3>3. CASE \E d \in Entries : ~Held(d) /\ sftp' = [sftp EXCEPT ![d] = NoConn]
        BY <2>1, <3>3 DEF TypeOK, Types, PoolType
      <3>4. QED
        BY <2>1, <3>1, <3>2, <3>3, SlotSteps DEF SlotStep
    <2>2. \A t \in Tasks : pc[t] = "subsys" /\ pc'[t] = "using" => sftp[entry[t]] = NoConn
      BY DEF SlotInv
    <2>3. QED
      BY <2>1, <2>2
  <1>4. Spec => [][Kept]_vars
    BY <1>1, <1>2, <1>3, LockInvariant, PTL DEF Spec
  <1>5. QED
    BY <1>4 DEF NoClientOverwritten

-----------------------------------------------------------------------------
(* Clients and connections, under every disturbance *)

\* The channels of a connection go with it.
ClientsLive == \A x \in clients : status[x[2]] # "closed"

\* A call that opens a client on the connection of a pooled entry opens it for
\* that entry.
SubsysOwn ==
  \A t \in Tasks, k \in Keys :
    pc[t] = "subsys" /\ got[t] # NoConn /\ entries[k] # NoEntry /\ conn[entries[k]] = got[t]
      => entry[t] = entries[k]

\* The only client on the connection of a pooled entry is the one it caches.
PooledClients ==
  \A k \in Keys : entries[k] # NoEntry /\ conn[entries[k]] # NoConn =>
    \A d \in Entries : <<d, conn[entries[k]]>> \in clients
                         => d = entries[k] /\ sftp[d] = conn[d]

ChannelInv == ClientsLive /\ SubsysOwn /\ PooledClients

\* PoolInv holds whatever is disturbed: a call and its lock name each other,
\* everything reachable from a key or a call belongs to one host, and whoever
\* opens a client found the slot empty.
THEOREM PoolInvAlways == Spec => []PoolInv
  <1>1. Init => PoolInv
    BY SentinelAssumption DEF Init, PoolInv, LockInv, LockPC, WaitPC,
       IsolationInv, EntryKeys, EntryPeers, CallPeers, SlotInv
  <1>2. TypeOK /\ PoolInv /\ [Next]_vars => PoolInv'
    BY LockStep, IsolationStep, SlotKept DEF PoolInv
  <1>3. QED
    BY <1>1, <1>2, PoolTypeOK, PTL DEF Spec

\* How a step changes the pool and its connections: entries and slots are
\* cleared and connections begin to close, ...
Forgets ==
  /\ \A k \in Keys : entries'[k] \in {entries[k], NoEntry}
  /\ \A e \in Entries : conn'[e] \in {conn[e], NoConn}
  /\ (UNCHANGED <<sftp, clients>>) \/ \E e \in Entries : ExitSftp(e)
  /\ \A c \in Conns : status[c] # "closed" => status'[c] # "closed"

\* ... an entry is made, ...
MakesEntry(k, e) ==
  /\ entries[k] = NoEntry /\ ~Held(e)
  /\ entries' = [entries EXCEPT ![k] = e]
  /\ conn' = [conn EXCEPT ![e] = NoConn]
  /\ sftp' = [sftp EXCEPT ![e] = NoConn]
  /\ UNCHANGED <<status, clients>>

\* ... a connection is gone with its channels, ...
Ends(c) ==
  /\ status' = [status EXCEPT ![c] = "closed"]
  /\ clients' = {x \in clients : x[2] # c}
  /\ UNCHANGED <<entries, conn, sftp>>

\* ... or a connection or a client is opened.
ChannelStep ==
  \/ Forgets
  \/ \E k \in Keys, e \in Entries : MakesEntry(k, e)
  \/ \E c \in Conns : Ends(c)
  \/ \E t \in Tasks : OpenOk(t) \/ SubsysOk(t)

LEMMA ChannelSteps == TypeOK /\ LockInv /\ [Next]_vars => ChannelStep
  <1> SUFFICES ASSUME TypeOK, LockInv, [Next]_vars PROVE ChannelStep
    OBVIOUS
  <1> USE DEF poolVars, connVars, taskVars, reapVars, closeVars
  <1>t. /\ entries \in [Keys -> Entries \cup {NoEntry}]
        /\ conn \in [Entries -> Conns \cup {NoConn}]
        /\ status \in [Conns -> {"open", "closing", "closed"}]
        /\ key \in [Tasks -> Keys]
    BY DEF TypeOK, Types, PoolType, ConnType, TaskType
  <1>0. ASSUME UNCHANGED <<entries, conn, sftp, clients, status>> PROVE ChannelStep
    BY <1>0 DEF ChannelStep, Forgets
  <1>1. ASSUME NEW t \in Tasks, NEW k \in Keys, SetDefault(t, k), UNCHANGED connVars PROVE ChannelStep
    <2>1. CASE entries[k] # NoEntry
      BY <1>0, <1>1, <2>1 DEF SetDefault
    <2>2. CASE entries[k] = NoEntry
      <3>1. \E e \in Entries : MakesEntry(k, e)
        BY <1>1, <2>2 DEF SetDefault, MakesEntry
      <3>2. QED
        BY <3>1 DEF ChannelStep
    <2>3. QED
      BY <2>1, <2>2
  <1>2. ASSUME NEW t \in Tasks, \/ \E k \in Keys, w \in {"conn", "sftp"} : Call(t, k, w)
                                \/ Retry(t)
        PROVE ChannelStep
    BY <1>t, <1>0, <1>1, <1>2 DEF Call, Retry
  <1>3. ASSUME NEW t \in Tasks, StartOpen(t) PROVE ChannelStep
    BY <1>3 DEF StartOpen, ChannelStep, Forgets, LockInv, LockPC
  <1>4. ASSUME NEW t \in Tasks, \/ Granted(t) \/ Reuse(t) \/ OpenFail(t) \/ Lookup(t)
                                \/ Recheck(t) \/ SubsysFail(t) \/ EndUse(t) \/ Drained(t) \/ Cancel(t)
        PROVE ChannelStep
    BY <1>0, <1>4 DEF Granted, Reuse, OpenFail, Lookup, Recheck, SubsysFail, EndUse, Drained, Cancel
  <1>5. ASSUME NEW c \in Conns \cup {NoConn}, status' = Closing(c) \/ status' = status
        PROVE  \A d \in Conns : status[d] # "closed" => status'[d] # "closed"
    BY <1>t, <1>5 DEF Closing
  <1>6. ASSUME NEW t \in Tasks, Invalidate(t) PROVE ChannelStep
    <2> DEFINE e == entries[key[t]]
    <2>1. entries' = [entries EXCEPT ![key[t]] = NoEntry] /\ e \in Entries \cup {NoEntry}
      BY <1>t, <1>6 DEF Invalidate
    <2>2. CASE e = NoEntry
      BY <1>0, <1>t, <1>6, <2>1, <2>2 DEF Invalidate
    <2>3. CASE e # NoEntry
      <3>1. /\ ExitSftp(e) /\ conn' = [conn EXCEPT ![e] = NoConn]
            /\ status' = Closing(conn[e]) \/ status' = status
            /\ conn[e] \in Conns \cup {NoConn}
        BY <1>t, <1>6, <2>1, <2>3 DEF Invalidate
      <3>2. QED
        BY <1>t, <1>5, <2>1, <2>3, <3>1 DEF ChannelStep, Forgets
    <2>4. QED
      BY <2>2, <2>3
  <1>7. ASSUME NEW k \in Keys, ExitSftp(entries[k]), entries[k] # NoEntry,
               entries' = entries \/ entries' = [entries EXCEPT ![k] = NoEntry], conn' = conn,
               status' = Closing(conn[entries[k]]) \/ status' = status
        PROVE ChannelStep
    <2>1. entries[k] \in Entries /\ conn[entries[k]] \in Conns \cup {NoConn}
      BY <1>t, <1>7
    <2>2. QED
      BY <1>t, <1>5, <1>7, <2>1 DEF ChannelStep, Forgets
  <1>8. ASSUME ReapStep PROVE ChannelStep
    <2>1. ASSUME NEW k \in Keys, ReapNext(k) PROVE ChannelStep
      BY <1>0, <1>7, <2>1 DEF ReapNext, HasConn
    <2>2. CASE ReapWake \/ ReapPop \/ ReapSleep
      BY <1>t, <2>2 DEF ReapWake, ReapPop, ReapSleep, ChannelStep, Forgets
    <2>3. QED
      BY <1>8, <2>1, <2>2 DEF ReapStep
  <1>9. ASSUME CloseStep PROVE ChannelStep
    <2>1. ASSUME NEW k \in Keys, CloseNext(k) PROVE ChannelStep
      BY <1>7, <2>1 DEF CloseNext
    <2>2. CASE CloseStart \/ ClosePop \/ CloseDone
      BY <1>t, <2>2 DEF CloseStart, ClosePop, CloseDone, ChannelStep, Forgets
    <2>3. QED
      BY <1>9, <2>1, <2>2 DEF CloseStep
  <1>10. ASSUME NEW c \in Conns, CloseCompletes(c) \/ Drop(c) PROVE ChannelStep
    BY <1>10 DEF CloseCompletes, Drop, ChannelStep, Ends
  <1>11. ASSUME NEW k \in Keys, GrowIdle(k) PROVE ChannelStep
    BY <1>0, <1>11 DEF GrowIdle
  <1>12. ASSUME UNCHANGED vars PROVE ChannelStep
    BY <1>0, <1>12 DEF vars
  <1>13. ASSUME NEW t \in Tasks, OpenOk(t) \/ SubsysOk(t) PROVE ChannelStep
    BY <1>13 DEF ChannelStep
  <1>14. QED
    BY <1>2, <1>3, <1>4, <1>6, <1>8, <1>9, <1>10, <1>11, <1>12, <1>13 DEF Next, Resume, Segment

LEMMA ClientsLiveStep == TypeOK /\ LockInv /\ ClientsLive /\ [Next]_vars => ClientsLive'
  <1> SUFFICES ASSUME TypeOK, LockInv, ClientsLive, [Next]_vars PROVE ClientsLive'
    OBVIOUS
  <1>t. /\ status \in [Conns -> {"open", "closing", "closed"}]
        /\ \A x \in clients : x[2] \in Conns
    BY DEF TypeOK, Types, ConnType
  <1>1. CASE Forgets
    BY <1>t, <1>1 DEF Forgets, ExitSftp, ClientsLive
  <1>2. CASE \E k \in Keys, e \in Entries : MakesEntry(k, e)
    BY <1>2 DEF MakesEntry, ClientsLive
  <1>3. ASSUME NEW c \in Conns, Ends(c) PROVE ClientsLive'
    BY <1>t, <1>3 DEF Ends, ClientsLive
  <1>4. ASSUME NEW t \in Tasks, OpenOk(t) PROVE ClientsLive'
    BY <1>t, <1>4 DEF OpenOk, ClientsLive
  <1>5. ASSUME NEW t \in Tasks, SubsysOk(t) PROVE ClientsLive'
    BY <1>t, <1>5 DEF SubsysOk, Alive, ClientsLive
  <1>6. QED
    BY <1>1, <1>2, <1>3, <1>4, <1>5, ChannelSteps DEF ChannelStep

\* The connection of a pooled entry that a call holds is that of its own key.
LEMMA OwnKey ==
  ASSUME TypeOK, IsolationInv, NEW t \in Tasks, NEW k \in Keys, got[t] # NoConn,
         entries[k] # NoEntry, conn[entries[k]] = got[t]
  PROVE  k = key[t]
  BY DEF IsolationInv, EntryPeers, CallPeers, OnHost

LEMMA SubsysOwnStep == TypeOK /\ PoolInv /\ SubsysOwn /\ [Next]_vars => SubsysOwn'
  <1> SUFFICES ASSUME TypeOK, LockInv, IsolationInv, SubsysOwn, [Next]_vars,
                      NEW t \in Tasks, NEW k \in Keys,
                      pc'[t] = "subsys", got'[t] # NoConn, entries'[k] # NoEntry,
                      conn'[entries'[k]] = got'[t]
               PROVE  entry'[t] = entries'[k]
    BY DEF PoolInv, SubsysOwn
  <1>t. /\ entries \in [Keys -> Entries \cup {NoEntry}]
        /\ conn \in [Entries -> Conns \cup {NoConn}]
        /\ pc \in [Tasks -> TaskPC]
    BY DEF TypeOK, Types, PoolType, TaskType
  <1>1. entry'[t] = entry[t] /\ got'[t] = got[t] /\ (pc[t] = "subsys" \/ FoundEmpty(t))
    BY SubsysSteps
  <1>2. CASE entries'[k] = entries[k] /\ conn'[entries[k]] = conn[entries[k]]
    BY <1>1, <1>2, OwnKey DEF FoundEmpty, SubsysOwn
  <1>3. CASE Forgets
    BY <1>t, <1>1, <1>2, <1>3 DEF Forgets
  <1>4. ASSUME NEW l \in Keys, NEW e \in Entries, MakesEntry(l, e) PROVE entry'[t] = entries'[k]
    BY <1>t, <1>1, <1>2, <1>4 DEF MakesEntry, Held
  <1>5. CASE \E c \in Conns : Ends(c)
    BY <1>1, <1>2, <1>5 DEF Ends
  <1>6. ASSUME NEW u \in Tasks, OpenOk(u) PROVE entry'[t] = entries'[k]
    <2>1. entries' = entries /\ entry[u] \in Entries
      BY <1>6 DEF OpenOk, LockInv, LockPC
    <2>2. PICK c \in Conns : conn' = [conn EXCEPT ![entry[u]] = c] /\ got[t] # c
      BY <1>6 DEF OpenOk, Forgotten
    <2>3. QED
      BY <1>t, <1>1, <1>2, <2>1, <2>2
  <1>7. CASE \E u \in Tasks : SubsysOk(u)
    BY <1>1, <1>2, <1>7 DEF SubsysOk
  <1>8. QED
    BY <1>3, <1>4, <1>5, <1>6, <1>7, ChannelSteps DEF ChannelStep

LEMMA PooledClientsStep ==
  TypeOK /\ PoolInv /\ ChannelInv /\ [Next]_vars => PooledClients'
  <1> SUFFICES ASSUME TypeOK, LockInv, SlotInv, ClientsLive, SubsysOwn, PooledClients, [Next]_vars,
                      NEW k \in Keys, NEW d \in Entries,
                      entries'[k] # NoEntry, conn'[entries'[k]] # NoConn,
                      <<d, conn'[entries'[k]]>> \in clients'
               PROVE  d = entries'[k] /\ sftp'[d] = conn'[d]
    BY DEF PoolInv, ChannelInv, PooledClients
  <1> DEFINE Goal == d = entries'[k] /\ sftp'[d] = conn'[d]
  <1>t. /\ entries \in [Keys -> Entries \cup {NoEntry}]
        /\ conn \in [Entries -> Conns \cup {NoConn}]
        /\ sftp \in [Entries -> Conns \cup {NoConn}]
    BY DEF TypeOK, Types, PoolType
  <1>1. ASSUME entries'[k] = entries[k], conn'[entries[k]] = conn[entries[k]],
               <<d, conn[entries[k]]>> \in clients,
               d = entries[k] /\ sftp[d] = conn[d] => sftp'[d] = sftp[d]
        PROVE  Goal
    BY <1>1 DEF PooledClients
  <1>2. CASE Forgets
    <2>1. entries'[k] = entries[k] /\ conn'[entries[k]] = conn[entries[k]]
      BY <1>t, <1>2 DEF Forgets
    <2>2. CASE UNCHANGED <<sftp, clients>>
      BY <1>1, <2>1, <2>2
    <2>3. ASSUME NEW e \in Entries, ExitSftp(e) PROVE Goal
      BY <1>t, <1>1, <2>1, <2>3 DEF ExitSftp
    <2>4. QED
      BY <1>2, <2>2, <2>3 DEF Forgets
  <1>3. ASSUME NEW l \in Keys, NEW e \in Entries, MakesEntry(l, e) PROVE Goal
    <2>1. k # l
      BY <1>t, <1>3 DEF MakesEntry
    <2>2. entries'[k] = entries[k] /\ entries[k] # e
      BY <1>t, <1>3, <2>1 DEF MakesEntry, Held
    <2>3. QED
      BY <1>t, <1>1, <1>3, <2>2 DEF MakesEntry
  <1>4. ASSUME NEW c \in Conns, Ends(c) PROVE Goal
    BY <1>1, <1>4 DEF Ends
  <1>5. ASSUME NEW t \in Tasks, OpenOk(t) PROVE Goal
    <2>1. UNCHANGED <<entries, sftp, clients>> /\ entry[t] \in Entries
      BY <1>5 DEF OpenOk, LockInv, LockPC
    <2>2. PICK c \in Conns : conn' = [conn EXCEPT ![entry[t]] = c] /\ status[c] = "closed"
      BY <1>5 DEF OpenOk, Forgotten
    <2>3. <<d, c>> \notin clients
      BY <2>2 DEF ClientsLive
    <2>4. QED
      BY <1>t, <1>1, <2>1, <2>2, <2>3
  <1>6. ASSUME NEW t \in Tasks, SubsysOk(t) PROVE Goal
    <2>1. /\ UNCHANGED <<entries, conn>> /\ entry[t] \in Entries /\ pc[t] = "subsys"
          /\ sftp' = [sftp EXCEPT ![entry[t]] = got[t]]
          /\ clients' = clients \cup {<<entry[t], got[t]>>}
          /\ sftp[entry[t]] = NoConn /\ got[t] # NoConn
      BY <1>6 DEF SubsysOk, LockInv, LockPC, SlotInv, Alive
    <2>2. CASE conn[entries[k]] = got[t]
      <3>1. entry[t] = entries[k]
        BY <2>1, <2>2 DEF SubsysOwn
      <3>2. d = entries[k]
        BY <2>1, <2>2, <3>1 DEF PooledClients
      <3>3. QED
        BY <1>t, <2>1, <2>2, <3>1, <3>2
    <2>3. CASE conn[entries[k]] # got[t]
      BY <1>t, <1>1, <2>1, <2>3
    <2>4. QED
      BY <2>2, <2>3
  <1>7. QED
    BY <1>2, <1>3, <1>4, <1>5, <1>6, ChannelSteps DEF ChannelStep

LEMMA ChannelInvariant == Spec => []ChannelInv
  <1>1. Init => ChannelInv
    BY DEF Init, ChannelInv, ClientsLive, SubsysOwn, PooledClients
  <1>2. TypeOK /\ PoolInv /\ ChannelInv /\ [Next]_vars => ChannelInv'
    BY ClientsLiveStep, SubsysOwnStep, PooledClientsStep DEF PoolInv, ChannelInv
  <1>3. QED
    BY <1>1, <1>2, PoolTypeOK, PoolInvAlways, PTL DEF Spec

\* Where the pool begins to close a connection, it is that of a pooled entry and
\* the entry's client exits in the same step.
LEMMA CloseSteps ==
  TypeOK /\ [Next]_vars =>
    \A c \in Conns : status[c] = "open" /\ status'[c] = "closing" =>
      \E k \in Keys : entries[k] # NoEntry /\ conn[entries[k]] = c /\ ExitSftp(entries[k])
  <1> SUFFICES ASSUME TypeOK, [Next]_vars, NEW c \in Conns,
                      status[c] = "open", status'[c] = "closing"
               PROVE  \E k \in Keys : entries[k] # NoEntry /\ conn[entries[k]] = c /\ ExitSftp(entries[k])
    OBVIOUS
  <1> USE DEF poolVars, connVars, taskVars, reapVars, closeVars
  <1> DEFINE Goal == \E k \in Keys : entries[k] # NoEntry /\ conn[entries[k]] = c /\ ExitSftp(entries[k])
  <1>t. /\ status \in [Conns -> {"open", "closing", "closed"}]
        /\ key \in [Tasks -> Keys]
    BY DEF TypeOK, Types, ConnType, TaskType
  <1>1. ASSUME NEW k \in Keys, entries[k] # NoEntry, ExitSftp(entries[k]),
               status' = Closing(conn[entries[k]])
        PROVE  Goal
    BY <1>t, <1>1 DEF Closing
  <1>2. status' # status
    OBVIOUS
  <1>3. ASSUME NEW t \in Tasks, Invalidate(t) PROVE Goal
    BY <1>t, <1>1, <1>2, <1>3 DEF Invalidate
  <1>4. ASSUME NEW k \in Keys, ReapNext(k) \/ CloseNext(k) PROVE Goal
    BY <1>1, <1>2, <1>4 DEF ReapNext, CloseNext, HasConn
  <1>5. ASSUME NEW t \in Tasks, NEW k \in Keys, NEW w \in {"conn", "sftp"}, Call(t, k, w) PROVE FALSE
    BY <1>2, <1>5 DEF Call
  <1>6. ASSUME NEW t \in Tasks, Resume(t) PROVE FALSE
    BY <1>t, <1>2, <1>6 DEF Resume, Granted, OpenOk, OpenFail, SubsysOk, SubsysFail, Drained
  <1>7. ASSUME NEW t \in Tasks, Segment(t) \/ EndUse(t) \/ Cancel(t) PROVE FALSE
    BY <1>2, <1>7 DEF Segment, Retry, Reuse, StartOpen, Lookup, Recheck, EndUse, Cancel
  <1>8. ASSUME ReapWake \/ ReapPop \/ ReapSleep \/ CloseStart \/ ClosePop \/ CloseDone PROVE FALSE
    BY <1>2, <1>8 DEF ReapWake, ReapPop, ReapSleep, CloseStart, ClosePop, CloseDone
  <1>9. ASSUME NEW d \in Conns, CloseCompletes(d) \/ Drop(d) PROVE FALSE
    BY <1>t, <1>9 DEF CloseCompletes, Drop
  <1>10. ASSUME NEW k \in Keys, GrowIdle(k) PROVE FALSE
    BY <1>2, <1>10 DEF GrowIdle
  <1>11. ~UNCHANGED vars
    BY <1>2 DEF vars
  <1>12. QED
    BY <1>3, <1>4, <1>5, <1>6, <1>7, <1>8, <1>9, <1>10, <1>11 DEF Next, ReapStep, CloseStep

\* "Close the cached SFTPClient FIRST": when the reaper, invalidate or close_all
\* closes a connection no SFTP client is left on it, also not one that a call
\* opens at the same time or that an earlier entry of the host had cached.
THEOREM PoolSftpExitsFirst == Spec => SftpExitsFirst
  <1> DEFINE First == \A c \in Conns : status[c] = "open" /\ status'[c] = "closing" =>
                        \A e \in Entries : <<e, c>> \notin clients'
  <1>1. TypeOK /\ ChannelInv /\ [Next]_vars => First
    <2> SUFFICES ASSUME TypeOK, PooledClients, [Next]_vars, NEW c \in Conns,
                        status[c] = "open", status'[c] = "closing",
                        NEW e \in Entries, <<e, c>> \in clients'
                 PROVE  FALSE
      BY DEF ChannelInv
    <2>1. PICK k \in Keys : entries[k] # NoEntry /\ conn[entries[k]] = c /\ ExitSftp(entries[k])
      BY CloseSteps
    <2>2. e = entries[k] /\ sftp[e] = c
      BY <2>1, SentinelAssumption DEF PooledClients, ExitSftp
    <2>3. QED
      BY <2>1, <2>2 DEF ExitSftp
  <1>2. Spec => [][First]_vars
    BY <1>1, PoolTypeOK, ChannelInvariant, PTL DEF Spec
  <1>3. QED
    BY <1>2 DEF SftpExitsFirst

-----------------------------------------------------------------------------
(* What holds while the reaper and invalidations keep still *)

\* The reaper never runs, and close_all runs alone.
NoReaper == rpc \in {"asleep", "stopped"} /\ running # Reaper /\ rconn = NoConn

ClosesAlone ==
  /\ \A t \in Tasks : pc[t] = "idle" => entry[t] = NoEntry
  /\ cpc # "serving" => \A t \in Tasks : pc[t] = "idle"
  /\ cpc = "serving" => \A c \in Conns : status[c] # "closing"
  /\ cpc = "drain" => entries[ckey] # NoEntry /\ conn[entries[ckey]] = cconn
  /\ cpc = "done" => \A k \in Keys : entries[k] = NoEntry

\* A call's entry is the pooled one.
EntryPooled == \A t \in Tasks : entry[t] # NoEntry => entries[key[t]] = entry[t]

\* An open connection is the one of the entry of its host, ...
OpenPooled ==
  \A c \in Conns : status[c] = "open" =>
    entries[peer[c]] # NoEntry /\ conn[entries[peer[c]]] = c

\* ... and while one is being opened the entry has neither connection nor client.
OpeningEmpty ==
  \A t \in Tasks : pc[t] = "opening" =>
    /\ conn[entry[t]] # NoConn => status[conn[entry[t]]] # "open"
    /\ sftp[entry[t]] = NoConn

\* The client cached in a pooled entry runs on the entry's own connection.
OwnConn ==
  \A k \in Keys : entries[k] # NoEntry /\ sftp[entries[k]] # NoConn =>
    sftp[entries[k]] = conn[entries[k]]

Calm == ClosesAlone /\ EntryPooled /\ OpenPooled /\ OpeningEmpty /\ OwnConn

QuietInv == NoReaper /\ Calm

LEMMA NoReaperStep == Quiet /\ TypeOK /\ NoReaper /\ [Next]_vars => NoReaper'
  <1> SUFFICES ASSUME Quiet, TypeOK, NoReaper, [Next]_vars PROVE NoReaper'
    OBVIOUS
  <1> USE SentinelAssumption DEF NoReaper, poolVars, connVars, taskVars, reapVars, closeVars
  <1>1. ASSUME UNCHANGED reapVars, running' \in Tasks \cup {running, Nobody, Closer} PROVE NoReaper'
    BY <1>1
  <1>2. ASSUME NEW t \in Tasks, NEW k \in Keys, SetDefault(t, k), UNCHANGED reapVars PROVE NoReaper'
    BY <1>1, <1>2 DEF SetDefault, EnterLock
  <1>3. ASSUME NEW t \in Tasks, NEW k \in Keys, NEW w \in {"conn", "sftp"}, Call(t, k, w) PROVE NoReaper'
    BY <1>2, <1>3 DEF Call
  <1>4. ASSUME NEW t \in Tasks, Retry(t) PROVE NoReaper'
    <2>1. key[t] \in Keys
      BY DEF TypeOK, Types, TaskType
    <2>2. QED
      BY <1>1, <1>2, <1>4, <2>1 DEF Retry, Finish
  <1>5. ASSUME NEW t \in Tasks, Resume(t) PROVE NoReaper'
    BY <1>1, <1>5 DEF Resume, Granted, OpenOk, OpenFail, SubsysOk, SubsysFail, Drained, Return, Yield, Finish
  <1>6. ASSUME NEW t \in Tasks, Reuse(t) \/ StartOpen(t) \/ EndUse(t) \/ Cancel(t) PROVE NoReaper'
    BY <1>1, <1>6 DEF Reuse, StartOpen, EndUse, Cancel, Return, Finish
  <1>7. ASSUME NEW t \in Tasks, Lookup(t) \/ Recheck(t) PROVE NoReaper'
    BY <1>1, <1>7 DEF Lookup, Recheck, EnterLock, Yield
  <1>8. ASSUME NEW t \in Tasks, Invalidate(t) PROVE FALSE
    BY <1>8 DEF Invalidate, Quiet
  <1>9. ASSUME ReapStep PROVE FALSE
    BY <1>9 DEF ReapStep, ReapWake, ReapNext, ReapPop, ReapSleep, Quiet
  <1>10. ASSUME CloseStep PROVE NoReaper'
    BY <1>10 DEF CloseStep, CloseStart, CloseNext, ClosePop, CloseDone
  <1>11. ASSUME NEW c \in Conns, CloseCompletes(c) \/ Drop(c) PROVE NoReaper'
    BY <1>1, <1>11 DEF CloseCompletes, Drop
  <1>12. ASSUME NEW k \in Keys, GrowIdle(k) PROVE FALSE
    BY <1>12 DEF GrowIdle, Quiet
  <1>13. ASSUME UNCHANGED vars PROVE NoReaper'
    BY <1>1, <1>13 DEF vars
  <1>14. QED
    BY <1>3, <1>4, <1>5, <1>6, <1>7, <1>8, <1>9, <1>10, <1>11, <1>12, <1>13 DEF Next, Segment

\* The steps of a quiet pool: a call goes on without changing the pool, ...
Moves(t) ==
  /\ UNCHANGED <<entries, conn, sftp, status, peer, key, cpc, ckey, cconn>>
  /\ pc[t] # "idle"
  /\ \E x \in TaskPC \ {"opening"}, e \in {entry[t], NoEntry, entries[key[t]]} :
       /\ pc' = [pc EXCEPT ![t] = x]
       /\ entry' = [entry EXCEPT ![t] = e]
       /\ x = "idle" => e = NoEntry

\* ... takes the entry of its key, ...
Enters(t, k) ==
  /\ SetDefault(t, k) /\ key' = [key EXCEPT ![t] = k]
  /\ pc[t] # "idle" \/ cpc = "serving"
  /\ UNCHANGED <<status, peer, cpc, ckey, cconn>>

\* ... or one of the others happens; no entry is dropped but by close_all.
QuietStep ==
  \/ \E t \in Tasks : Moves(t) \/ (\E k \in Keys : Enters(t, k))
                      \/ StartOpen(t) \/ OpenOk(t) \/ SubsysOk(t)
  \/ CloseStep
  \/ \E c \in Conns : CloseCompletes(c) \/ Drop(c)
  \/ UNCHANGED vars

LEMMA QuietSteps == Quiet /\ TypeOK /\ LockInv /\ NoReaper /\ [Next]_vars => QuietStep
  <1> SUFFICES ASSUME Quiet, TypeOK, LockInv, NoReaper, [Next]_vars PROVE QuietStep
    OBVIOUS
  <1> USE DEF poolVars, connVars, taskVars, reapVars, closeVars
  <1>0. /\ {"idle", "using", "draining", "lookup", "retry", "check", "recheck", "subsys", "lockS"} \subseteq TaskPC \ {"opening"}
        /\ pc \in [Tasks -> TaskPC] /\ key \in [Tasks -> Keys]
        /\ entry \in [Tasks -> Entries \cup {NoEntry}]
    BY DEF TypeOK, Types, TaskType, TaskPC, LockPC, WaitPC, RunPC
  <1>1. ASSUME NEW t \in Tasks, NEW k \in Keys, NEW w \in {"conn", "sftp"}, Call(t, k, w) PROVE QuietStep
    BY <1>1 DEF Call, Enters, QuietStep
  <1>2. ASSUME NEW t \in Tasks, Finish(t), pc[t] # "idle",
               UNCHANGED <<entries, conn, sftp, status, peer, cpc, ckey, cconn>>
        PROVE  Moves(t)
    BY <1>0, <1>2 DEF Moves, Finish
  <1>3. ASSUME NEW t \in Tasks, Retry(t) PROVE QuietStep
    <2>1. pc[t] # "idle" /\ UNCHANGED <<connVars, cpc, ckey, cconn>>
      BY <1>3 DEF Retry
    <2>2. CASE Finish(t) /\ UNCHANGED poolVars
      BY <1>2, <2>1, <2>2 DEF QuietStep
    <2>3. CASE SetDefault(t, key[t]) /\ UNCHANGED <<want, key, got>>
      <3>1. key' = [key EXCEPT ![t] = key[t]] /\ key[t] \in Keys
        BY <1>0, <2>3
      <3>2. Enters(t, key[t])
        BY <2>1, <2>3, <3>1 DEF Enters
      <3>3. QED
        BY <3>1, <3>2 DEF QuietStep
    <2>4. QED
      BY <1>3, <2>2, <2>3 DEF Retry
  <1>4. ASSUME NEW t \in Tasks, OpenFail(t) \/ SubsysFail(t) \/ Drained(t) \/ EndUse(t) \/ Cancel(t)
        PROVE QuietStep
    BY <1>2, <1>4 DEF OpenFail, SubsysFail, Drained, EndUse, Cancel, QuietStep
  <1>5. ASSUME NEW t \in Tasks, Granted(t) PROVE Moves(t)
    <2>1. PICK x \in {"check", "recheck"} : pc' = [pc EXCEPT ![t] = x]
      BY <1>5 DEF Granted
    <2>2. entry' = [entry EXCEPT ![t] = entry[t]]
      BY <1>0, <1>5 DEF Granted
    <2>3. QED
      BY <1>0, <1>5, <2>1, <2>2 DEF Granted, Moves, WaitPC
  <1>6. ASSUME NEW t \in Tasks, Reuse(t) PROVE Moves(t)
    BY <1>0, <1>6 DEF Reuse, Return, Moves
  <1>7. ASSUME NEW t \in Tasks, Lookup(t) PROVE Moves(t)
    <2>1. UNCHANGED <<entries, conn, sftp, status, peer, key, cpc, ckey, cconn>> /\ pc[t] # "idle"
      BY <1>7 DEF Lookup, Yield
    <2>2. entry = [entry EXCEPT ![t] = entry[t]]
      BY <1>0
    <2>3. QED
      BY <1>0, <1>7, <2>1, <2>2 DEF Lookup, Yield, EnterLock, Moves
  <1>8. ASSUME NEW t \in Tasks, Recheck(t) PROVE Moves(t)
    <2>1. UNCHANGED <<entries, conn, sftp, status, peer, key, cpc, ckey, cconn>> /\ pc[t] # "idle"
      BY <1>8 DEF Recheck, Yield
    <2>2. entry = [entry EXCEPT ![t] = entry[t]]
      BY <1>0
    <2>3. QED
      BY <1>0, <1>8, <2>1, <2>2 DEF Recheck, Yield, Moves
  <1>9. ASSUME NEW t \in Tasks, Invalidate(t) PROVE FALSE
    BY <1>9 DEF Invalidate, Quiet
  <1>10. ASSUME ReapStep PROVE FALSE
    BY <1>10 DEF ReapStep, ReapWake, ReapNext, ReapPop, ReapSleep, Quiet, NoReaper
  <1>11. ASSUME NEW k \in Keys, GrowIdle(k) PROVE FALSE
    BY <1>11 DEF GrowIdle, Quiet
  <1>12. QED
    BY <1>1, <1>3, <1>4, <1>5, <1>6, <1>7, <1>8, <1>9, <1>10, <1>11
    DEF Next, Resume, Segment, QuietStep

(* One lemma per kind of step. *)

\* The types the steps below are looked at with.
LEMMA QuietTypes ==
  ASSUME TypeOK
  PROVE  /\ entries \in [Keys -> Entries \cup {NoEntry}]
         /\ conn \in [Entries -> Conns \cup {NoConn}]
         /\ sftp \in [Entries -> Conns \cup {NoConn}]
         /\ status \in [Conns -> {"open", "closing", "closed"}]
         /\ peer \in [Conns -> Keys]
         /\ pc \in [Tasks -> TaskPC]
         /\ key \in [Tasks -> Keys]
         /\ entry \in [Tasks -> Entries \cup {NoEntry}]
         /\ got \in [Tasks -> Conns \cup {NoConn}]
         /\ ckey \in Keys /\ cpc \in {"serving", "sweep", "drain", "done"}
         /\ NoEntry \notin Entries /\ NoConn \notin Conns
  BY SentinelAssumption DEF TypeOK, Types, PoolType, ConnType, TaskType, CloseType

\* A call under way is one the server has not drained: nothing is closing.
LEMMA Serving ==
  ASSUME ClosesAlone, NEW t \in Tasks, pc[t] # "idle"
  PROVE  cpc = "serving" /\ \A c \in Conns : status[c] # "closing"
  BY DEF ClosesAlone

LEMMA MovesKeep == TypeOK /\ Calm /\ (\E t \in Tasks : Moves(t)) => Calm'
  <1> SUFFICES ASSUME TypeOK, Calm, NEW t \in Tasks, Moves(t) PROVE Calm'
    OBVIOUS
  <1> USE QuietTypes
  <1>1. /\ UNCHANGED <<entries, conn, sftp, status, peer, key, cpc, ckey, cconn>>
        /\ pc[t] # "idle" /\ cpc = "serving"
    BY Serving DEF Moves, Calm
  <1>2. PICK x \in TaskPC \ {"opening"} : \E e \in {entry[t], NoEntry, entries[key[t]]} :
          /\ pc' = [pc EXCEPT ![t] = x]
          /\ entry' = [entry EXCEPT ![t] = e]
          /\ x = "idle" => e = NoEntry
    BY DEF Moves
  <1>3. PICK e \in {entry[t], NoEntry, entries[key[t]]} :
          /\ pc' = [pc EXCEPT ![t] = x]
          /\ entry' = [entry EXCEPT ![t] = e]
          /\ x = "idle" => e = NoEntry
    BY <1>2
  <1>4. ClosesAlone'
    BY <1>1, <1>3 DEF Calm, ClosesAlone
  <1>5. EntryPooled'
    BY <1>1, <1>3 DEF Calm, EntryPooled
  <1>6. OpenPooled' /\ OwnConn'
    BY <1>1 DEF Calm, OpenPooled, OwnConn
  <1>7. OpeningEmpty'
    BY <1>1, <1>2, <1>3 DEF Calm, OpeningEmpty
  <1>8. QED
    BY <1>4, <1>5, <1>6, <1>7 DEF Calm

LEMMA EntersKeep == TypeOK /\ LockInv /\ Calm /\ (\E t \in Tasks, k \in Keys : Enters(t, k)) => Calm'
  <1> SUFFICES ASSUME TypeOK, LockInv, Calm, NEW t \in Tasks, NEW k \in Keys, Enters(t, k) PROVE Calm'
    OBVIOUS
  <1> USE QuietTypes
  <1>1. /\ key' = [key EXCEPT ![t] = k] /\ cpc = "serving"
        /\ UNCHANGED <<status, peer, cpc, ckey, cconn>>
    BY Serving DEF Enters, Calm
  <1>2. PICK e \in Entries : /\ EnterLock(t, e, "check", "lockA")
                             /\ entries' = [entries EXCEPT ![k] = e]
                             /\ \/ entries[k] = e /\ UNCHANGED <<conn, sftp>>
                                \/ /\ entries[k] = NoEntry /\ ~Held(e)
                                   /\ conn' = [conn EXCEPT ![e] = NoConn]
                                   /\ sftp' = [sftp EXCEPT ![e] = NoConn]
    BY DEF Enters, SetDefault
  <1>3. /\ entry' = [entry EXCEPT ![t] = e]
        /\ \E x \in {"check", "lockA"} : pc' = [pc EXCEPT ![t] = x]
    BY <1>2 DEF EnterLock
  <1>4. /\ \A l \in Keys : entries[l] # NoEntry => entries'[l] = entries[l]
        /\ \A d \in Entries : Held(d) => conn'[d] = conn[d] /\ sftp'[d] = sftp[d]
    BY <1>2
  <1>5. ClosesAlone'
    BY <1>1, <1>3 DEF Calm, ClosesAlone
  <1>6. EntryPooled'
    BY <1>1, <1>2, <1>3, <1>4 DEF Calm, EntryPooled
  <1>7. OpenPooled'
    <2>1. ASSUME NEW c \in Conns, status[c] = "open"
          PROVE  entries'[peer[c]] # NoEntry /\ conn'[entries'[peer[c]]] = c
      BY <1>4, <2>1 DEF Calm, OpenPooled, Held
    <2>2. QED
      BY <1>1, <2>1 DEF OpenPooled
  <1>8. OpeningEmpty'
    <2>1. ASSUME NEW u \in Tasks, pc'[u] = "opening"
          PROVE  /\ conn'[entry'[u]] # NoConn => status[conn'[entry'[u]]] # "open"
                 /\ sftp'[entry'[u]] = NoConn
      <3>1. u # t /\ pc[u] = "opening" /\ entry'[u] = entry[u]
        BY <1>3, <2>1
      <3>2. entry[u] \in Entries /\ Held(entry[u])
        BY <3>1 DEF LockInv, LockPC, Held
      <3>3. QED
        BY <1>4, <3>1, <3>2 DEF Calm, OpeningEmpty
    <2>2. QED
      BY <1>1, <2>1 DEF OpeningEmpty
  <1>9. OwnConn'
    <2>1. ASSUME NEW l \in Keys, entries'[l] # NoEntry, sftp'[entries'[l]] # NoConn
          PROVE  sftp'[entries'[l]] = conn'[entries'[l]]
      <3>1. entries'[l] = entries[l] /\ entries[l] # NoEntry
        BY <1>2, <2>1
      <3>2. Held(entries[l]) /\ entries[l] \in Entries
        BY <3>1 DEF Held
      <3>3. QED
        BY <1>4, <2>1, <3>1, <3>2 DEF Calm, OwnConn
    <2>2. QED
      BY <2>1 DEF OwnConn
  <1>10. QED
    BY <1>5, <1>6, <1>7, <1>8, <1>9 DEF Calm

\* The call that opens a connection is alone in its entry.
LEMMA OpeningAlone ==
  ASSUME TypeOK, LockInv, NEW t \in Tasks, NEW u \in Tasks, pc[t] = "opening",
         pc[u] \in LockPC, u # t
  PROVE  entry[u] \in Entries /\ entry[t] \in Entries /\ entry[u] # entry[t]
  BY DEF LockInv, LockPC

LEMMA StartOpenKeeps == TypeOK /\ LockInv /\ Calm /\ (\E t \in Tasks : StartOpen(t)) => Calm'
  <1> SUFFICES ASSUME TypeOK, LockInv, Calm, NEW t \in Tasks, StartOpen(t) PROVE Calm'
    OBVIOUS
  <1> USE QuietTypes
  <1>1. /\ pc[t] = "check" /\ ~Alive(conn[entry[t]]) /\ entry[t] \in Entries
        /\ sftp' = [sftp EXCEPT ![entry[t]] = NoConn]
        /\ pc' = [pc EXCEPT ![t] = "opening"]
        /\ UNCHANGED <<entries, conn, status, peer, key, entry, cpc, ckey, cconn>>
    BY DEF StartOpen, ExitSftp, LockInv, LockPC, closeVars
  <1>2. cpc = "serving"
    BY <1>1, Serving DEF Calm
  <1>3. ClosesAlone'
    BY <1>1, <1>2 DEF Calm, ClosesAlone
  <1>4. EntryPooled' /\ OpenPooled'
    BY <1>1 DEF Calm, EntryPooled, OpenPooled
  <1>5. OwnConn'
    BY <1>1 DEF Calm, OwnConn
  <1>6. OpeningEmpty'
    <2>1. ASSUME NEW u \in Tasks, pc'[u] = "opening"
          PROVE  /\ conn[entry[u]] # NoConn => status[conn[entry[u]]] # "open"
                 /\ sftp'[entry[u]] = NoConn
      <3>1. CASE u = t
        BY <1>1, <3>1 DEF Alive
      <3>2. CASE u # t
        BY <1>1, <2>1, <3>2 DEF Calm, OpeningEmpty, LockInv, LockPC
      <3>3. QED
        BY <3>1, <3>2
    <2>2. QED
      BY <1>1, <2>1 DEF OpeningEmpty
  <1>7. QED
    BY <1>3, <1>4, <1>5, <1>6 DEF Calm

LEMMA OpenOkKeeps ==
  TypeOK /\ LockInv /\ IsolationInv /\ Calm /\ (\E t \in Tasks : OpenOk(t)) => Calm'
  <1> SUFFICES ASSUME TypeOK, LockInv, IsolationInv, Calm, NEW t \in Tasks, OpenOk(t) PROVE Calm'
    OBVIOUS
  <1> USE QuietTypes
  <1>1. PICK c \in Conns :
          /\ Forgotten(c)
          /\ status' = [status EXCEPT ![c] = "open"]
          /\ peer' = [peer EXCEPT ![c] = key[t]]
          /\ conn' = [conn EXCEPT ![entry[t]] = c]
          /\ Return(t, c)
    BY DEF OpenOk
  <1>2. /\ pc[t] = "opening" /\ entry[t] \in Entries /\ cpc = "serving"
        /\ UNCHANGED <<entries, sftp, key, cpc, ckey, cconn>>
        /\ entry' = [entry EXCEPT ![t] = NoEntry]
        /\ \E x \in {"lookup", "using"} : pc' = [pc EXCEPT ![t] = x]
    BY <1>1, Serving DEF OpenOk, Return, LockInv, LockPC, Calm, closeVars
  <1>3. entries[key[t]] = entry[t]
    BY <1>2 DEF Calm, EntryPooled
  <1>4. /\ status[c] = "closed"
        /\ \A e \in Entries : Held(e) => conn[e] # c /\ sftp[e] # c
    BY <1>1 DEF Forgotten
  <1>5. ClosesAlone'
    BY <1>1, <1>2 DEF Calm, ClosesAlone
  <1>6. EntryPooled'
    BY <1>2 DEF Calm, EntryPooled
  <1>7. OpenPooled'
    <2>1. ASSUME NEW d \in Conns, status'[d] = "open", d # c
          PROVE  entries[peer'[d]] # NoEntry /\ conn'[entries[peer'[d]]] = d
      <3>1. status[d] = "open" /\ peer'[d] = peer[d]
        BY <1>1, <2>1
      <3>2. entries[peer[d]] # NoEntry /\ conn[entries[peer[d]]] = d
        BY <3>1 DEF Calm, OpenPooled
      <3>3. entries[peer[d]] # entry[t]
        BY <1>2, <3>1, <3>2 DEF Calm, OpeningEmpty
      <3>4. QED
        BY <1>1, <1>2, <3>1, <3>2, <3>3
    <2>2. peer'[c] = key[t] /\ conn'[entries[peer'[c]]] = c
      BY <1>1, <1>2, <1>3
    <2>3. QED
      BY <1>2, <1>3, <2>1, <2>2 DEF OpenPooled
  <1>8. OpeningEmpty'
    <2>1. ASSUME NEW u \in Tasks, pc'[u] = "opening"
          PROVE  /\ conn'[entry'[u]] # NoConn => status'[conn'[entry'[u]]] # "open"
                 /\ sftp[entry'[u]] = NoConn
      <3>1. u # t /\ pc[u] = "opening" /\ entry'[u] = entry[u]
        BY <1>2, <2>1
      <3>2. entry[u] \in Entries /\ entry[u] # entry[t] /\ Held(entry[u])
        BY <1>2, <3>1, OpeningAlone DEF LockPC, Held
      <3>3. conn'[entry[u]] = conn[entry[u]] /\ conn[entry[u]] # c
        BY <1>1, <1>4, <3>2
      <3>4. QED
        BY <1>1, <3>1, <3>2, <3>3 DEF Calm, OpeningEmpty
    <2>2. QED
      BY <1>2, <2>1 DEF OpeningEmpty
  <1>9. OwnConn'
    <2>1. sftp[entry[t]] = NoConn
      BY <1>2 DEF Calm, OpeningEmpty
    <2>2. QED
      BY <1>1, <1>2, <2>1 DEF Calm, OwnConn
  <1>10. QED
    BY <1>5, <1>6, <1>7, <1>8, <1>9 DEF Calm

\* A call that opens a client does so on the connection of its entry.
LEMMA OpensOnOwn ==
  ASSUME TypeOK, LockInv, IsolationInv, Calm, NEW t \in Tasks, pc[t] = "subsys", Alive(got[t])
  PROVE  entries[key[t]] = entry[t] /\ entry[t] \in Entries /\ conn[entry[t]] = got[t]
  <1> USE QuietTypes
  <1>1. entry[t] \in Entries /\ entries[key[t]] = entry[t]
    BY DEF LockInv, LockPC, Calm, EntryPooled
  <1>2. got[t] \in Conns /\ status[got[t]] = "open"
    BY Serving DEF Alive, Calm
  <1>3. peer[got[t]] = key[t]
    BY <1>2 DEF IsolationInv, CallPeers
  <1>4. QED
    BY <1>1, <1>2, <1>3 DEF Calm, OpenPooled

LEMMA SubsysOkKeeps ==
  TypeOK /\ LockInv /\ IsolationInv /\ Calm /\ (\E t \in Tasks : SubsysOk(t)) => Calm'
  <1> SUFFICES ASSUME TypeOK, LockInv, IsolationInv, Calm, NEW t \in Tasks, SubsysOk(t) PROVE Calm'
    OBVIOUS
  <1> USE QuietTypes
  <1>1. /\ pc[t] = "subsys" /\ Alive(got[t])
        /\ sftp' = [sftp EXCEPT ![entry[t]] = got[t]]
        /\ entry' = [entry EXCEPT ![t] = NoEntry]
        /\ pc' = [pc EXCEPT ![t] = "using"]
        /\ UNCHANGED <<entries, conn, status, peer, key, cpc, ckey, cconn>>
    BY DEF SubsysOk, Yield, closeVars
  <1>2. cpc = "serving"
    BY <1>1, Serving DEF Calm
  <1>3. entry[t] \in Entries /\ conn[entry[t]] = got[t]
    BY <1>1, OpensOnOwn
  <1>4. ClosesAlone'
    BY <1>1, <1>2 DEF Calm, ClosesAlone
  <1>5. EntryPooled' /\ OpenPooled'
    BY <1>1 DEF Calm, EntryPooled, OpenPooled
  <1>6. OpeningEmpty'
    <2>1. ASSUME NEW u \in Tasks, pc'[u] = "opening"
          PROVE  u # t /\ pc[u] = "opening" /\ entry'[u] = entry[u] /\ entry[u] # entry[t]
      BY <1>1, <2>1 DEF LockInv, LockPC
    <2>2. QED
      BY <1>1, <2>1 DEF Calm, OpeningEmpty
  <1>7. OwnConn'
    BY <1>1, <1>3 DEF Calm, OwnConn
  <1>8. QED
    BY <1>4, <1>5, <1>6, <1>7 DEF Calm

\* close_all finds every call over and drops an entry only with its connection gone.
LEMMA CloseKeeps == TypeOK /\ Calm /\ CloseStep => Calm'
  <1> SUFFICES ASSUME TypeOK, Calm, CloseStep PROVE Calm'
    OBVIOUS
  <1> USE QuietTypes DEF taskVars, poolVars, connVars, closeVars
  <1>1. /\ \A t \in Tasks : pc[t] = "idle"
        /\ UNCHANGED <<pc, entry, key, conn, peer>>
    BY DEF CloseStep, CloseStart, CloseNext, ClosePop, CloseDone, Calm, ClosesAlone
  <1>2. EntryPooled' /\ OpeningEmpty'
    BY <1>1 DEF EntryPooled, OpeningEmpty, Calm, ClosesAlone
  <1>3. CASE CloseStart \/ CloseDone
    <2>1. ClosesAlone'
      BY <1>1, <1>3 DEF Calm, ClosesAlone, CloseStart, CloseDone
    <2>2. OpenPooled' /\ OwnConn'
      BY <1>3 DEF Calm, OpenPooled, OwnConn, CloseStart, CloseDone
    <2>3. QED
      BY <1>2, <2>1, <2>2 DEF Calm
  <1>4. ASSUME NEW k \in Keys, CloseNext(k) PROVE Calm'
    <2>1. /\ cpc = "sweep" /\ entries[k] \in Entries
          /\ sftp' = [sftp EXCEPT ![entries[k]] = NoConn]
      BY <1>4 DEF CloseNext, ExitSftp
    <2>2. CASE ~Alive(conn[entries[k]])
      <3>1. /\ entries' = [entries EXCEPT ![k] = NoEntry]
            /\ UNCHANGED <<status, cpc, ckey, cconn>>
        BY <1>4, <2>2 DEF CloseNext
      <3>2. ClosesAlone'
        BY <1>1, <2>1, <3>1 DEF Calm, ClosesAlone
      <3>3. OpenPooled'
        BY <1>1, <2>1, <2>2, <3>1 DEF Calm, OpenPooled, Alive
      <3>4. OwnConn'
        BY <1>1, <2>1, <3>1 DEF Calm, OwnConn
      <3>5. QED
        BY <1>2, <3>2, <3>3, <3>4 DEF Calm
    <2>3. CASE Alive(conn[entries[k]])
      <3>1. /\ status' = Closing(conn[entries[k]])
            /\ cpc' = "drain" /\ ckey' = k /\ cconn' = conn[entries[k]]
            /\ entries' = entries
        BY <1>4, <2>3 DEF CloseNext
      <3>2. ClosesAlone'
        BY <1>1, <2>1, <3>1 DEF Calm, ClosesAlone
      <3>3. OpenPooled'
        BY <1>1, <3>1 DEF Calm, OpenPooled, Closing
      <3>4. OwnConn'
        BY <1>1, <2>1, <3>1 DEF Calm, OwnConn
      <3>5. QED
        BY <1>2, <3>2, <3>3, <3>4 DEF Calm
    <2>4. QED
      BY <2>2, <2>3
  <1>5. CASE ClosePop
    <2>1. /\ cpc = "drain" /\ ~Alive(cconn) /\ cpc' = "sweep"
          /\ entries' = [entries EXCEPT ![ckey] = NoEntry]
          /\ UNCHANGED <<sftp, status, ckey>>
      BY <1>5 DEF ClosePop
    <2>2. ClosesAlone'
      BY <1>1, <2>1 DEF Calm, ClosesAlone
    <2>3. OpenPooled'
      BY <1>1, <2>1 DEF Calm, OpenPooled, ClosesAlone, Alive
    <2>4. OwnConn'
      BY <1>1, <2>1 DEF Calm, OwnConn
    <2>5. QED
      BY <1>2, <2>2, <2>3, <2>4 DEF Calm
  <1>6. QED
    BY <1>3, <1>4, <1>5 DEF CloseStep

LEMMA EndsKeep == TypeOK /\ Calm /\ (\E c \in Conns : CloseCompletes(c) \/ Drop(c)) => Calm'
  <1> SUFFICES ASSUME TypeOK, Calm, NEW c \in Conns, CloseCompletes(c) \/ Drop(c) PROVE Calm'
    OBVIOUS
  <1> USE QuietTypes
  <1>1. /\ status' = [status EXCEPT ![c] = "closed"]
        /\ UNCHANGED <<entries, conn, sftp, peer, pc, key, entry, cpc, ckey, cconn>>
    BY DEF CloseCompletes, Drop, poolVars, taskVars, closeVars
  <1>2. ClosesAlone' /\ EntryPooled' /\ OwnConn'
    BY <1>1 DEF Calm, ClosesAlone, EntryPooled, OwnConn
  <1>3. OpenPooled'
    BY <1>1 DEF Calm, OpenPooled
  <1>4. ASSUME NEW d \in Conns \cup {NoConn}, d # NoConn => status[d] # "open"
        PROVE  d # NoConn => status'[d] # "open"
    BY <1>1, <1>4
  <1>5. OpeningEmpty'
    <2>1. ASSUME NEW t \in Tasks, pc[t] = "opening", conn[entry[t]] # NoConn
          PROVE  status'[conn[entry[t]]] # "open"
      <3>1. status[conn[entry[t]]] # "open"
        BY <2>1 DEF Calm, OpeningEmpty
      <3>2. CASE conn[entry[t]] \in Conns
        BY <1>4, <2>1, <3>1, <3>2
      <3>3. CASE conn[entry[t]] \notin Conns
        BY <1>1, <3>1, <3>3
      <3>4. QED
        BY <3>2, <3>3
    <2>2. QED
      BY <1>1, <2>1 DEF Calm, OpeningEmpty
  <1>6. QED
    BY <1>2, <1>3, <1>5 DEF Calm

LEMMA CalmStep == TypeOK /\ PoolInv /\ Calm /\ QuietStep => Calm'
  <1>1. ASSUME Calm, UNCHANGED vars PROVE Calm'
    BY <1>1 DEF vars, poolVars, connVars, taskVars, closeVars,
                Calm, ClosesAlone, EntryPooled, OpenPooled, OpeningEmpty, OwnConn
  <1>2. QED
    BY <1>1, MovesKeep, EntersKeep, StartOpenKeeps, OpenOkKeeps, SubsysOkKeeps, CloseKeeps, EndsKeep
    DEF PoolInv, QuietStep

LEMMA QuietInvariant == Spec => [](Quiet => QuietInv)
  <1>1. Init => QuietInv
    BY SentinelAssumption DEF Init, QuietInv, NoReaper, Calm, ClosesAlone, EntryPooled,
                              OpenPooled, OpeningEmpty, OwnConn
  <1>2. TypeOK /\ PoolInv /\ (Quiet => QuietInv) /\ [Next]_vars => (Quiet => QuietInv)'
    <2> SUFFICES ASSUME TypeOK, PoolInv, Quiet => QuietInv, [Next]_vars, Quiet'
                 PROVE  NoReaper' /\ Calm'
      BY DEF QuietInv
    <2>1. Quiet
      BY WeatherKept DEF Quiet
    <2>2. NoReaper'
      BY <2>1, NoReaperStep DEF QuietInv
    <2>3. Calm'
      BY <2>1, QuietSteps, CalmStep DEF QuietInv, PoolInv
    <2>4. QED
      BY <2>2, <2>3
  <1>3. QED
    BY <1>1, <1>2, PoolTypeOK, PoolInvAlways, PTL DEF Spec

\* Concurrent acquires for one host share one open connection: however calls
\* interleave, are cancelled in the middle of an open or lose their connection,
\* no host has two open while no entry is dropped behind a running call.
THEOREM PoolQuietOneConnection == Spec => []QuietOneConnection
  <1>1. TypeOK /\ (Quiet => QuietInv) => QuietOneConnection
    <2> SUFFICES ASSUME TypeOK, OpenPooled, NEW k \in Keys PROVE Cardinality(OpenTo(k)) <= 1
      BY DEF QuietInv, Calm, QuietOneConnection, OneConnectionPerKey
    <2>1. ASSUME NEW c \in OpenTo(k) PROVE c = conn[entries[k]]
      BY DEF OpenTo, OpenPooled
    <2>2. CASE OpenTo(k) = {}
      BY <2>2, FS_EmptySet
    <2>3. CASE OpenTo(k) # {}
      <3>1. OpenTo(k) = {conn[entries[k]]}
        BY <2>1, <2>3
      <3>2. Cardinality({conn[entries[k]]}) = 1
        BY FS_Singleton
      <3>3. QED
        BY <3>1, <3>2
    <2>4. QED
      BY <2>2, <2>3
  <1>2. QED
    BY <1>1, PoolTypeOK, QuietInvariant, PTL

\* The cached SFTP client of a pooled entry runs on the connection of that entry
\* and goes with it, while no entry is dropped behind a running call.
THEOREM PoolQuietSftpOnOwnConn == Spec => []QuietSftpOnOwnConn
  <1>1. (Quiet => QuietInv) => QuietSftpOnOwnConn
    BY DEF QuietInv, Calm, OwnConn, QuietSftpOnOwnConn
  <1>2. QED
    BY <1>1, QuietInvariant, PTL

\* When close_all has run no connection is open, for any number of hosts.
THEOREM PoolQuietCloseAllClean == Spec => []QuietCloseAllClean
  <1>1. TypeOK /\ (Quiet => QuietInv) => QuietCloseAllClean
    BY QuietTypes DEF QuietInv, Calm, ClosesAlone, OpenPooled, QuietCloseAllClean
  <1>2. QED
    BY <1>1, PoolTypeOK, QuietInvariant, PTL

\* From opening the subsystem to using the client there is one way.
LEMMA SubsysEnds ==
  TypeOK /\ [Next]_vars =>
    \A t \in Tasks : pc[t] = "subsys" /\ pc'[t] = "using" => SubsysOk(t)
  <1> SUFFICES ASSUME TypeOK, [Next]_vars, NEW t \in Tasks, pc[t] = "subsys", pc'[t] = "using"
               PROVE  SubsysOk(t)
    OBVIOUS
  <1> USE QuietTypes DEF taskVars
  <1>1. ASSUME NEW u \in Tasks, NEW x, pc' = [pc EXCEPT ![u] = x] PROVE u = t /\ x = "using"
    BY <1>1
  <1>2. ASSUME NEW u \in Tasks, NEW k \in Keys, SetDefault(u, k) PROVE FALSE
    BY <1>1, <1>2 DEF SetDefault, EnterLock
  <1>3. ASSUME NEW u \in Tasks, Finish(u) PROVE FALSE
    BY <1>1, <1>3 DEF Finish
  <1>4. ASSUME NEW u \in Tasks, \/ \E k \in Keys, w \in {"conn", "sftp"} : Call(u, k, w)
                                \/ Retry(u) \/ OpenFail(u) \/ SubsysFail(u) \/ Drained(u)
                                \/ EndUse(u) \/ Cancel(u)
        PROVE FALSE
    BY <1>2, <1>3, <1>4 DEF Call, Retry, OpenFail, SubsysFail, Drained, EndUse, Cancel
  <1>5. ASSUME NEW u \in Tasks, Reuse(u) \/ OpenOk(u) \/ Granted(u) \/ StartOpen(u)
        PROVE FALSE
    BY <1>1, <1>5 DEF Reuse, OpenOk, Granted, StartOpen, Return, WaitPC
  <1>6. ASSUME NEW u \in Tasks, Lookup(u) \/ Recheck(u) PROVE FALSE
    <2>1. pc[u] \in {"lookup", "recheck"} /\ \E x : pc' = [pc EXCEPT ![u] = x]
      BY <1>6 DEF Lookup, Recheck, Yield, EnterLock
    <2>2. QED
      BY <1>1, <2>1
  <1>7. ASSUME NEW u \in Tasks, Invalidate(u) PROVE FALSE
    BY <1>1, <1>3, <1>7 DEF Invalidate
  <1>8. ASSUME NEW u \in Tasks, SubsysOk(u) PROVE SubsysOk(t)
    BY <1>1, <1>8 DEF SubsysOk, Yield
  <1>9. ASSUME ReapStep \/ CloseStep PROVE FALSE
    BY <1>9 DEF ReapStep, ReapWake, ReapNext, ReapPop, ReapSleep,
                CloseStep, CloseStart, CloseNext, ClosePop, CloseDone
  <1>10. ASSUME \/ UNCHANGED vars
                \/ \E c \in Conns : CloseCompletes(c) \/ Drop(c)
                \/ \E k \in Keys : GrowIdle(k)
         PROVE FALSE
    BY <1>10 DEF vars, CloseCompletes, Drop, GrowIdle
  <1>11. QED
    BY <1>4, <1>5, <1>6, <1>7, <1>8, <1>9, <1>10 DEF Next, Resume, Segment

\* A connection carries one SFTP channel of the pool: a call opens one only
\* where there is none, while no entry is dropped behind a running call.
THEOREM PoolQuietOneChannel == Spec => QuietOneChannel
  <1> DEFINE First == Quiet => \A t \in Tasks : pc[t] = "subsys" /\ pc'[t] = "using" =>
                                 \A e \in Entries : <<e, got[t]>> \notin clients
  <1>1. TypeOK /\ PoolInv /\ ChannelInv /\ (Quiet => QuietInv) /\ [Next]_vars => First
    <2> SUFFICES ASSUME TypeOK, LockInv, IsolationInv, SlotInv, PooledClients, Calm, [Next]_vars,
                        NEW t \in Tasks, pc[t] = "subsys", pc'[t] = "using",
                        NEW e \in Entries, <<e, got[t]>> \in clients
                 PROVE  FALSE
      BY DEF PoolInv, ChannelInv, QuietInv
    <2>1. Alive(got[t])
      BY SubsysEnds DEF SubsysOk
    <2>2. entries[key[t]] = entry[t] /\ entry[t] \in Entries /\ conn[entry[t]] = got[t]
      BY <2>1, OpensOnOwn
    <2>3. sftp[entry[t]] = got[t] /\ key[t] \in Keys
      BY <2>1, <2>2, QuietTypes DEF PooledClients, Alive
    <2>4. QED
      BY <2>1, <2>3 DEF SlotInv, Alive
  <1>2. Spec => [][First]_vars
    BY <1>1, PoolTypeOK, PoolInvAlways, ChannelInvariant, QuietInvariant, PTL DEF Spec
  <1>3. QED
    BY <1>2 DEF QuietOneChannel

=============================================================================
