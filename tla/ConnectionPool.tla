--------------------------- MODULE ConnectionPool ---------------------------
(***************************************************************************)
(* The SSH connection pool: ssh/pool.py, class ConnectionPool.             *)
(*                                                                         *)
(* A tool call asks the pool for a connection (`acquire`) or for the       *)
(* cached SFTP client of a host (`sftp`).  A reaper task closes idle       *)
(* connections, a failed SFTP body invalidates the entry of its host, and  *)
(* the lifespan closes everything at shutdown.                             *)
(*                                                                         *)
(* All of it runs on one asyncio event loop, so control moves between      *)
(* tasks only where the code really suspends.  `running` names the task    *)
(* that is inside a synchronous segment; while it is set nobody else       *)
(* moves.  Every action is one such segment or a part of one.              *)
(*                                                                         *)
(* Time is abstracted to one flag per entry: idle[e] is                    *)
(* `now - entry.last_used > SSH_IDLE_TIMEOUT`.  An SFTP client is named    *)
(* by the connection that carries it.                                      *)
(***************************************************************************)
EXTENDS Naturals, FiniteSets

CONSTANTS
  Keys,          \* pool keys, (user, hostname, port)
  Tasks,         \* tool calls that may be in flight together
  Entries,       \* identities of _Entry objects (recycled when unreferenced)
  Conns,         \* identities of SSH connections (recycled likewise)
  NoEntry, NoConn,
  Nobody,        \* nobody holds the lock / the event loop is between tasks
  Reaper, Closer,
  Weathers       \* sets of disturbances; each behaviour knows those of one

AllDisturbances == {"reap", "invalidate", "drop", "cancel"}

ASSUME SentinelAssumption ==
  /\ NoEntry \notin Entries
  /\ NoConn \notin Conns
  /\ Nobody \notin Tasks /\ Reaper \notin Tasks /\ Closer \notin Tasks
  /\ Nobody # Reaper /\ Nobody # Closer /\ Reaper # Closer

ASSUME KeysAssumption == Keys # {}

ASSUME WeatherAssumption == Weathers \subseteq SUBSET AllDisturbances

\* `for _ in range(3)` in _acquire_sftp.
SftpAttempts == 3

VARIABLES
  entries,   \* self._entries: entries[k] is the entry pooled for k
  conn,      \* _Entry.conn
  sftp,      \* _Entry.sftp, named by the connection it was opened on
  idle,      \* _Entry.last_used, see above
  lock,      \* _Entry.lock: the task that holds it
  status,    \* life of a connection: "open", "closing" after close(), "closed"
  peer,      \* the host a connection was opened to
  clients,   \* SFTP clients opened and not exited: <<entry, carrier>>
  running,
  pc, want, key, entry, got, tries,    \* locals of a tool call
  rpc, todo, rkey, rconn,              \* locals of the reaper
  cpc, ckey, cconn,                    \* locals of close_all
  weather    \* which disturbances occur (never changes)

poolVars  == <<entries, conn, sftp, idle, lock>>
connVars  == <<status, peer, clients>>
taskVars  == <<pc, want, key, entry, got, tries>>
reapVars  == <<rpc, todo, rkey, rconn>>
closeVars == <<cpc, ckey, cconn, weather>>   \* and what never changes
vars == <<poolVars, connVars, running, taskVars, reapVars, closeVars>>

LockPC == {"check", "opening", "recheck", "subsys"}   \* inside `async with entry.lock`
WaitPC == {"lockA", "lockS"}                          \* queued on entry.lock
RunPC  == {"check", "lookup", "recheck", "retry"}     \* inside a synchronous segment
TaskPC == LockPC \cup WaitPC \cup RunPC \cup {"idle", "using", "draining"}

PoolType ==
  /\ entries \in [Keys -> Entries \cup {NoEntry}]
  /\ conn \in [Entries -> Conns \cup {NoConn}]
  /\ sftp \in [Entries -> Conns \cup {NoConn}]
  /\ idle \in [Entries -> BOOLEAN]
  /\ lock \in [Entries -> Tasks \cup {Nobody}]

ConnType ==
  /\ status \in [Conns -> {"open", "closing", "closed"}]
  /\ peer \in [Conns -> Keys]
  /\ clients \in SUBSET (Entries \X Conns)

TaskType ==
  /\ running \in Tasks \cup {Nobody, Reaper, Closer}
  /\ pc \in [Tasks -> TaskPC]
  /\ want \in [Tasks -> {"conn", "sftp"}]
  /\ key \in [Tasks -> Keys]
  /\ entry \in [Tasks -> Entries \cup {NoEntry}]
  /\ got \in [Tasks -> Conns \cup {NoConn}]
  /\ tries \in [Tasks -> 0..SftpAttempts]

ReapType ==
  /\ rpc \in {"asleep", "sweep", "drain", "stopped"}
  /\ todo \in SUBSET Keys
  /\ rkey \in Keys
  /\ rconn \in Conns \cup {NoConn}

CloseType ==
  /\ cpc \in {"serving", "sweep", "drain", "done"}
  /\ ckey \in Keys
  /\ cconn \in Conns \cup {NoConn}

Types == PoolType /\ ConnType /\ TaskType /\ ReapType /\ CloseType

TypeOK == Types /\ weather \in Weathers

Init ==
  /\ weather \in Weathers
  /\ entries = [k \in Keys |-> NoEntry]
  /\ conn = [e \in Entries |-> NoConn]
  /\ sftp = [e \in Entries |-> NoConn]
  /\ idle = [e \in Entries |-> FALSE]
  /\ lock = [e \in Entries |-> Nobody]
  /\ status = [c \in Conns |-> "closed"]
  /\ peer = [c \in Conns |-> CHOOSE k \in Keys : TRUE]
  /\ clients = {}
  /\ running = Nobody
  /\ pc = [t \in Tasks |-> "idle"]
  /\ want = [t \in Tasks |-> "conn"]
  /\ key = [t \in Tasks |-> CHOOSE k \in Keys : TRUE]
  /\ entry = [t \in Tasks |-> NoEntry]
  /\ got = [t \in Tasks |-> NoConn]
  /\ tries = [t \in Tasks |-> 0]
  /\ rpc = "asleep" /\ todo = {} /\ rconn = NoConn
  /\ rkey = CHOOSE k \in Keys : TRUE
  /\ cpc = "serving" /\ cconn = NoConn
  /\ ckey = CHOOSE k \in Keys : TRUE

-----------------------------------------------------------------------------
(* References, closing, returning. *)

\* An entry somebody can still reach: Python keeps the object alive.
Held(e) == \/ \E k \in Keys : entries[k] = e
           \/ \E t \in Tasks : entry[t] = e

\* A connection that is gone and that nobody names any more.
Forgotten(c) ==
  /\ status[c] = "closed"
  /\ \A e \in Entries : Held(e) => conn[e] # c /\ sftp[e] # c
  /\ \A t \in Tasks : got[t] # c
  /\ rconn # c /\ cconn # c

\* asyncssh: is_closed() turns true when the close has completed, not at close().
Alive(c) == c # NoConn /\ status[c] # "closed"

\* conn.close(): starts the close of an open connection, else does nothing.
Closing(c) == [status EXCEPT ![c] = IF @ = "open" THEN "closing" ELSE @]

\* Mutant: the slot is cleared and the client forgotten instead of exited.
ExitSftpForgets(e) ==
  /\ sftp' = [sftp EXCEPT ![e] = NoConn]
  /\ UNCHANGED clients

\* _close_sftp_in_place: the cached client, if any, exits and the slot is cleared.
ExitSftp(e) ==
  /\ sftp' = [sftp EXCEPT ![e] = NoConn]
  /\ clients' = clients \ {<<e, sftp[e]>>}

\* Mutant: no lock at all.
LockFreeAlways(e) == e \in Entries

\* An asyncio.Lock is taken at once only when it is free and nobody queues on it.
LockFree(e) == /\ lock[e] = Nobody
               /\ \A t \in Tasks : pc[t] \in WaitPC => entry[t] # e

\* The call is over, with a result or an exception.
Finish(t) ==
  /\ pc' = [pc EXCEPT ![t] = "idle"]
  /\ entry' = [entry EXCEPT ![t] = NoEntry]
  /\ got' = [got EXCEPT ![t] = NoConn]
  /\ tries' = [tries EXCEPT ![t] = 0]
  /\ running' = Nobody
  /\ UNCHANGED <<want, key>>

\* acquire_policy returns c: the tool body starts, or _acquire_sftp goes on
\* without a suspension in between.
Return(t, c) ==
  /\ got' = [got EXCEPT ![t] = c]
  /\ entry' = [entry EXCEPT ![t] = NoEntry]
  /\ pc' = [pc EXCEPT ![t] = IF want[t] = "sftp" THEN "lookup" ELSE "using"]
  /\ running' = IF want[t] = "sftp" THEN t ELSE Nobody
  /\ UNCHANGED <<want, key, tries>>

\* The body gets the SFTP client carried by c.
Yield(t, c) ==
  /\ got' = [got EXCEPT ![t] = c]
  /\ entry' = [entry EXCEPT ![t] = NoEntry]
  /\ pc' = [pc EXCEPT ![t] = "using"]
  /\ running' = Nobody
  /\ UNCHANGED <<want, key, tries>>

\* `async with entry.lock`: enter the block as `inside`, or queue as `queued`.
EnterLock(t, e, inside, queued) ==
  /\ entry' = [entry EXCEPT ![t] = e]
  /\ \/ /\ LockFree(e)
        /\ lock' = [lock EXCEPT ![e] = t]
        /\ pc' = [pc EXCEPT ![t] = inside]
        /\ running' = t
     \/ /\ ~LockFree(e)
        /\ pc' = [pc EXCEPT ![t] = queued]
        /\ running' = Nobody
        /\ UNCHANGED lock

Unlock(t) == lock' = [lock EXCEPT ![entry[t]] = Nobody]

-----------------------------------------------------------------------------
(* acquire_policy *)

\* Mutant: the key leaves out a part (the port, the user), so that two hosts
\* find one entry.
SetDefaultSharedKey(t, k) ==
  \/ \E l \in Keys : /\ entries[l] # NoEntry
                     /\ EnterLock(t, entries[l], "check", "lockA")
                     /\ UNCHANGED <<entries, conn, sftp, idle>>
  \/ /\ \A l \in Keys : entries[l] = NoEntry
     /\ \E e \in Entries :
          /\ ~Held(e)
          /\ entries' = [entries EXCEPT ![k] = e]
          /\ conn' = [conn EXCEPT ![e] = NoConn]
          /\ sftp' = [sftp EXCEPT ![e] = NoConn]
          /\ idle' = [idle EXCEPT ![e] = FALSE]
          /\ EnterLock(t, e, "check", "lockA")

\* The entry of k, created when the pool has none (setdefault), then its lock.
SetDefault(t, k) ==
  \/ /\ entries[k] # NoEntry
     /\ EnterLock(t, entries[k], "check", "lockA")
     /\ UNCHANGED <<entries, conn, sftp, idle>>
  \/ /\ entries[k] = NoEntry
     /\ \E e \in Entries :
          /\ ~Held(e)
          /\ \A c \in Conns : <<e, c>> \notin clients
          /\ entries' = [entries EXCEPT ![k] = e]
          /\ conn' = [conn EXCEPT ![e] = NoConn]
          /\ sftp' = [sftp EXCEPT ![e] = NoConn]
          /\ idle' = [idle EXCEPT ![e] = FALSE]
          /\ EnterLock(t, e, "check", "lockA")

\* A tool call asks for host k.  The server stops dispatching calls before the
\* lifespan's finally block runs, hence the guard on cpc (external).
Call(t, k, w) ==
  /\ running = Nobody /\ pc[t] = "idle" /\ cpc = "serving"
  /\ want' = [want EXCEPT ![t] = w]
  /\ key' = [key EXCEPT ![t] = k]
  /\ tries' = [tries EXCEPT ![t] = IF w = "sftp" THEN 1 ELSE 0]
  /\ SetDefault(t, k)
  /\ UNCHANGED <<connVars, got, reapVars, closeVars>>

\* Mutant: one round too many.
RetryOnceMore(t) ==
  /\ running = t /\ pc[t] = "retry"
  /\ tries' = [tries EXCEPT ![t] = @ + 1]
  /\ SetDefault(t, key[t])
  /\ UNCHANGED <<connVars, want, key, got, reapVars, closeVars>>

\* The next round of _acquire_sftp's loop, or RuntimeError after the last one.
Retry(t) ==
  /\ running = t /\ pc[t] = "retry"
  /\ \/ /\ tries[t] < SftpAttempts
        /\ tries' = [tries EXCEPT ![t] = @ + 1]
        /\ SetDefault(t, key[t])
        /\ UNCHANGED <<want, key, got>>
     \/ /\ tries[t] = SftpAttempts
        /\ Finish(t)
        /\ UNCHANGED poolVars
  /\ UNCHANGED <<connVars, reapVars, closeVars>>

\* A queued task is woken with the lock (in either `async with`).
Granted(t) ==
  /\ running = Nobody /\ pc[t] \in WaitPC /\ lock[entry[t]] = Nobody
  /\ lock' = [lock EXCEPT ![entry[t]] = t]
  /\ pc' = [pc EXCEPT ![t] = IF @ = "lockA" THEN "check" ELSE "recheck"]
  /\ running' = t
  /\ UNCHANGED <<entries, conn, sftp, idle, connVars, want, key, entry, got,
                 tries, reapVars, closeVars>>

\* The entry has a live connection: touch it and return it.
Reuse(t) ==
  /\ running = t /\ pc[t] = "check" /\ Alive(conn[entry[t]])
  /\ idle' = [idle EXCEPT ![entry[t]] = FALSE]
  /\ Unlock(t)
  /\ Return(t, conn[entry[t]])
  /\ UNCHANGED <<entries, conn, sftp, connVars, reapVars, closeVars>>

\* Mutant: the cached client survives the reopening of its connection.
StartOpenKeepsSftp(t) ==
  /\ running = t /\ pc[t] = "check" /\ ~Alive(conn[entry[t]])
  /\ pc' = [pc EXCEPT ![t] = "opening"]
  /\ running' = Nobody
  /\ UNCHANGED <<poolVars, connVars, want, key, entry, got, tries, reapVars, closeVars>>

\* It has none: drop a cached SFTP client and await open_connection, lock held.
StartOpen(t) ==
  /\ running = t /\ pc[t] = "check" /\ ~Alive(conn[entry[t]])
  /\ ExitSftp(entry[t])
  /\ pc' = [pc EXCEPT ![t] = "opening"]
  /\ running' = Nobody
  /\ UNCHANGED <<entries, conn, idle, lock, status, peer, want, key, entry, got,
                 tries, reapVars, closeVars>>

OpenOk(t) ==
  /\ running = Nobody /\ pc[t] = "opening"
  /\ \E c \in Conns :
       /\ Forgotten(c)
       /\ status' = [status EXCEPT ![c] = "open"]
       /\ peer' = [peer EXCEPT ![c] = key[t]]
       /\ conn' = [conn EXCEPT ![entry[t]] = c]
       /\ idle' = [idle EXCEPT ![entry[t]] = FALSE]
       /\ Unlock(t)
       /\ Return(t, c)
  /\ UNCHANGED <<entries, sftp, clients, reapVars, closeVars>>

\* Mutant: the lock is not released on the error path.
OpenFailKeepsLock(t) ==
  /\ running = Nobody /\ pc[t] = "opening"
  /\ Finish(t)
  /\ UNCHANGED <<poolVars, connVars, reapVars, closeVars>>

\* open_connection raises: entry.conn keeps what it held.
OpenFail(t) ==
  /\ running = Nobody /\ pc[t] = "opening"
  /\ Unlock(t)
  /\ Finish(t)
  /\ UNCHANGED <<entries, conn, sftp, idle, connVars, reapVars, closeVars>>

-----------------------------------------------------------------------------
(* _acquire_sftp after acquire_policy returned *)

Lookup(t) ==
  /\ running = t /\ pc[t] = "lookup"
  /\ \/ /\ entries[key[t]] = NoEntry
        /\ pc' = [pc EXCEPT ![t] = "retry"]
        /\ UNCHANGED <<lock, running, entry, got, want, key, tries>>
     \/ /\ entries[key[t]] # NoEntry /\ sftp[entries[key[t]]] # NoConn
        /\ Yield(t, sftp[entries[key[t]]])
        /\ UNCHANGED lock
     \/ /\ entries[key[t]] # NoEntry /\ sftp[entries[key[t]]] = NoConn
        /\ EnterLock(t, entries[key[t]], "recheck", "lockS")
        /\ UNCHANGED <<got, want, key, tries>>
  /\ UNCHANGED <<entries, conn, sftp, idle, connVars, reapVars, closeVars>>

\* Mutant: the slot is not looked at again under the lock.
RecheckNothing(t) ==
  /\ running = t /\ pc[t] = "recheck"
  /\ pc' = [pc EXCEPT ![t] = "subsys"]
  /\ running' = Nobody
  /\ UNCHANGED <<poolVars, connVars, entry, got, want, key, tries, reapVars, closeVars>>

\* Under the lock: retry if the entry was replaced, take a client opened
\* meanwhile, or open one on the connection acquired before the lock.
Recheck(t) ==
  /\ running = t /\ pc[t] = "recheck"
  /\ \/ /\ entries[key[t]] # entry[t]
        /\ Unlock(t)
        /\ pc' = [pc EXCEPT ![t] = "retry"]
        /\ entry' = [entry EXCEPT ![t] = NoEntry]
        /\ UNCHANGED <<running, got, want, key, tries>>
     \/ /\ entries[key[t]] = entry[t] /\ sftp[entry[t]] # NoConn
        /\ Unlock(t)
        /\ Yield(t, sftp[entry[t]])
     \/ /\ entries[key[t]] = entry[t] /\ sftp[entry[t]] = NoConn
        /\ pc' = [pc EXCEPT ![t] = "subsys"]
        /\ running' = Nobody
        /\ UNCHANGED <<lock, entry, got, want, key, tries>>
  /\ UNCHANGED <<entries, conn, sftp, idle, connVars, reapVars, closeVars>>

SubsysOk(t) ==
  /\ running = Nobody /\ pc[t] = "subsys" /\ Alive(got[t])
  /\ sftp' = [sftp EXCEPT ![entry[t]] = got[t]]
  /\ clients' = clients \cup {<<entry[t], got[t]>>}
  /\ idle' = [idle EXCEPT ![entry[t]] = FALSE]
  /\ Unlock(t)
  /\ Yield(t, got[t])
  /\ UNCHANGED <<entries, conn, status, peer, reapVars, closeVars>>

\* The subsystem is refused or the carrier is gone: no invalidation here.
SubsysFail(t) ==
  /\ running = Nobody /\ pc[t] = "subsys"
  /\ Unlock(t)
  /\ Finish(t)
  /\ UNCHANGED <<entries, conn, sftp, idle, connVars, reapVars, closeVars>>

-----------------------------------------------------------------------------
(* The tool body and invalidate *)

\* The body ends, normally or with an error the pool does not look at.
EndUse(t) ==
  /\ running = Nobody /\ pc[t] = "using"
  /\ Finish(t)
  /\ UNCHANGED <<poolVars, connVars, reapVars, closeVars>>

\* ChannelOpenError or ConnectionLost leaves the `async with pool.sftp` body:
\* invalidate(key) pops whatever entry the pool has for the key now.
Invalidate(t) ==
  /\ "invalidate" \in weather
  /\ running = Nobody /\ pc[t] = "using" /\ want[t] = "sftp"
  /\ entries' = [entries EXCEPT ![key[t]] = NoEntry]
  /\ \/ /\ entries[key[t]] = NoEntry
        /\ Finish(t)
        /\ UNCHANGED <<conn, sftp, status, clients>>
     \/ LET e == entries[key[t]] IN
        /\ e # NoEntry
        /\ ExitSftp(e)
        /\ conn' = [conn EXCEPT ![e] = NoConn]
        /\ \/ /\ ~Alive(conn[e])
              /\ Finish(t)
              /\ UNCHANGED status
           \/ /\ Alive(conn[e])
              /\ status' = Closing(conn[e])
              /\ pc' = [pc EXCEPT ![t] = "draining"]
              /\ got' = [got EXCEPT ![t] = conn[e]]
              /\ UNCHANGED <<running, want, key, entry, tries>>
  /\ UNCHANGED <<idle, lock, peer, reapVars, closeVars>>

\* wait_closed() returns in invalidate and the error is re-raised.
Drained(t) ==
  /\ running = Nobody /\ pc[t] = "draining" /\ ~Alive(got[t])
  /\ Finish(t)
  /\ UNCHANGED <<poolVars, connVars, reapVars, closeVars>>

\* The client cancels the request: CancelledError at the await the call is in.
Cancel(t) ==
  /\ "cancel" \in weather
  /\ running = Nobody /\ pc[t] # "idle"
  /\ IF pc[t] \in LockPC THEN Unlock(t) ELSE UNCHANGED lock
  /\ Finish(t)
  /\ UNCHANGED <<entries, conn, sftp, idle, connVars, reapVars, closeVars>>

-----------------------------------------------------------------------------
(* The reaper *)

HasConn(k) == entries[k] # NoEntry /\ conn[entries[k]] # NoConn

\* Mutant: the reaper spares entries with a cached SFTP client.
StaleWithoutSftp == {k \in Keys : /\ HasConn(k) /\ idle[entries[k]]
                                 /\ sftp[entries[k]] = NoConn}

Stale == {k \in Keys : HasConn(k) /\ idle[entries[k]]}

\* 60 s are over: snapshot the stale keys.
ReapWake ==
  /\ "reap" \in weather
  /\ running = Nobody /\ rpc = "asleep" /\ Stale # {}
  /\ rpc' = "sweep" /\ todo' = Stale /\ running' = Reaper
  /\ UNCHANGED <<poolVars, connVars, taskVars, rkey, rconn, closeVars>>

\* The next key of the snapshot: skip it, or close its client and connection
\* and await the end of the close (wait_closed() of a closed connection does
\* not suspend, so then the pop follows at once).  Idleness is not looked at
\* again.
ReapNext(k) ==
  /\ running = Reaper /\ rpc = "sweep" /\ k \in todo
  /\ todo' = todo \ {k}
  /\ \/ /\ ~HasConn(k)
        /\ UNCHANGED <<entries, sftp, clients, status, rpc, rkey, rconn, running>>
     \/ /\ HasConn(k)
        /\ ExitSftp(entries[k])
        /\ \/ /\ ~Alive(conn[entries[k]])
              /\ entries' = [entries EXCEPT ![k] = NoEntry]
              /\ UNCHANGED <<status, rpc, rkey, rconn, running>>
           \/ /\ Alive(conn[entries[k]])
              /\ status' = Closing(conn[entries[k]])
              /\ rpc' = "drain" /\ rkey' = k /\ rconn' = conn[entries[k]]
              /\ running' = Nobody
              /\ UNCHANGED entries
  /\ UNCHANGED <<conn, idle, lock, peer, taskVars, closeVars>>

\* wait_closed() returned: pop the key, whatever entry it names by now.
ReapPop ==
  /\ running = Nobody /\ rpc = "drain" /\ ~Alive(rconn)
  /\ entries' = [entries EXCEPT ![rkey] = NoEntry]
  /\ rpc' = "sweep" /\ rconn' = NoConn /\ running' = Reaper
  /\ UNCHANGED <<conn, sftp, idle, lock, connVars, taskVars, todo, rkey, closeVars>>

ReapSleep ==
  /\ running = Reaper /\ rpc = "sweep" /\ todo = {}
  /\ rpc' = "asleep" /\ running' = Nobody
  /\ UNCHANGED <<poolVars, connVars, taskVars, todo, rkey, rconn, closeVars>>

-----------------------------------------------------------------------------
(* close_all.  The server has drained its calls, so only the reaper can be   *)
(* in the way; it is cancelled and awaited first.                            *)

CloseStart ==
  /\ running = Nobody /\ cpc = "serving" /\ \A t \in Tasks : pc[t] = "idle"
  /\ rpc' = "stopped" /\ todo' = {} /\ rconn' = NoConn
  /\ cpc' = "sweep" /\ running' = Closer
  /\ UNCHANGED <<poolVars, connVars, taskVars, rkey, ckey, cconn, weather>>

\* Mutant: the entries are dropped, their connections not closed.
CloseNextDrops(k) ==
  /\ running = Closer /\ cpc = "sweep" /\ entries[k] # NoEntry
  /\ ExitSftp(entries[k])
  /\ entries' = [entries EXCEPT ![k] = NoEntry]
  /\ UNCHANGED <<conn, idle, lock, status, peer, running, taskVars, reapVars, closeVars>>

CloseNext(k) ==
  /\ running = Closer /\ cpc = "sweep" /\ entries[k] # NoEntry
  /\ ExitSftp(entries[k])
  /\ \/ /\ ~Alive(conn[entries[k]])
        /\ entries' = [entries EXCEPT ![k] = NoEntry]
        /\ UNCHANGED <<status, cpc, ckey, cconn, running>>
     \/ /\ Alive(conn[entries[k]])
        /\ status' = Closing(conn[entries[k]])
        /\ cpc' = "drain" /\ ckey' = k /\ cconn' = conn[entries[k]]
        /\ running' = Nobody
        /\ UNCHANGED entries
  /\ UNCHANGED <<conn, idle, lock, peer, taskVars, reapVars, weather>>

ClosePop ==
  /\ running = Nobody /\ cpc = "drain" /\ ~Alive(cconn)
  /\ entries' = [entries EXCEPT ![ckey] = NoEntry]
  /\ cpc' = "sweep" /\ cconn' = NoConn /\ running' = Closer
  /\ UNCHANGED <<conn, sftp, idle, lock, connVars, taskVars, reapVars, ckey, weather>>

CloseDone ==
  /\ running = Closer /\ cpc = "sweep" /\ \A k \in Keys : entries[k] = NoEntry
  /\ cpc' = "done" /\ running' = Nobody
  /\ UNCHANGED <<poolVars, connVars, taskVars, reapVars, ckey, cconn, weather>>

-----------------------------------------------------------------------------
(* The network and the clock (external) *)

\* The close of c completes; its channels go with it.
CloseCompletes(c) ==
  /\ running = Nobody /\ status[c] = "closing"
  /\ status' = [status EXCEPT ![c] = "closed"]
  /\ clients' = {x \in clients : x[2] # c}
  /\ UNCHANGED <<poolVars, peer, running, taskVars, reapVars, closeVars>>

\* The server or the network drops an open connection.
Drop(c) ==
  /\ "drop" \in weather
  /\ running = Nobody /\ status[c] = "open"
  /\ status' = [status EXCEPT ![c] = "closed"]
  /\ clients' = {x \in clients : x[2] # c}
  /\ UNCHANGED <<poolVars, peer, running, taskVars, reapVars, closeVars>>

\* More than SSH_IDLE_TIMEOUT has passed since the entry was last acquired.
GrowIdle(k) ==
  /\ running = Nobody /\ entries[k] # NoEntry /\ ~idle[entries[k]]
  /\ "reap" \in weather
  /\ idle' = [idle EXCEPT ![entries[k]] = TRUE]
  /\ UNCHANGED <<entries, conn, sftp, lock, connVars, running, taskVars,
                 reapVars, closeVars>>

-----------------------------------------------------------------------------
\* What the event loop does for a task once its await can return.
Resume(t) ==
  \/ Granted(t) \/ OpenOk(t) \/ OpenFail(t) \/ SubsysOk(t) \/ SubsysFail(t)
  \/ Drained(t)

\* The rest of a synchronous segment.
Segment(t) == Retry(t) \/ Reuse(t) \/ StartOpen(t) \/ Lookup(t) \/ Recheck(t)

ReapStep == ReapWake \/ (\E k \in Keys : ReapNext(k)) \/ ReapPop \/ ReapSleep

CloseStep == CloseStart \/ (\E k \in Keys : CloseNext(k)) \/ ClosePop \/ CloseDone

Next ==
  \/ \E t \in Tasks, k \in Keys, w \in {"conn", "sftp"} : Call(t, k, w)
  \/ \E t \in Tasks : \/ Resume(t) \/ Segment(t)
                      \/ EndUse(t) \/ Invalidate(t) \/ Cancel(t)
  \/ ReapStep
  \/ CloseStep
  \/ \E c \in Conns : CloseCompletes(c) \/ Drop(c)
  \/ \E k \in Keys : GrowIdle(k)

Spec == Init /\ [][Next]_vars

(***************************************************************************)
(* Fairness.  asyncio runs its ready queue first in, first out, an         *)
(* asyncio.Lock wakes its waiters first in, first out, and every awaited   *)
(* operation ends: connects have SSH_CONNECT_TIMEOUT, an established        *)
(* connection has keepalives, and tool bodies have command timeouts.  A    *)
(* task that can be resumed again and again is resumed (strong fairness,   *)
(* because `running` disables it while others run).                        *)
(***************************************************************************)
Fairness ==
  /\ \A t \in Tasks : SF_vars(Resume(t) \/ Segment(t) \/ EndUse(t))
  /\ \A c \in Conns : SF_vars(CloseCompletes(c))
  /\ SF_vars(ReapStep)

FairSpec == Spec /\ Fairness

-----------------------------------------------------------------------------
(* Safety under every disturbance *)

\* The per-key lock is exclusive: of all the calls between `async with
\* entry.lock` and its end, across the awaits of open_connection and
\* start_sftp_client, at most one is in a given entry, and it owns the lock.
LockExcludes ==
  \A t \in Tasks : pc[t] \in LockPC =>
    /\ lock[entry[t]] = t
    /\ \A u \in Tasks \ {t} : pc[u] \in LockPC => entry[u] # entry[t]

\* A call never runs on a connection, or on an SFTP client carried by a
\* connection, to another host than the one it asked for, however often the
\* entries were dropped, replaced and reopened in between.
HostIsolation ==
  \A t \in Tasks : pc[t] = "using" => got[t] # NoConn /\ peer[got[t]] = key[t]

\* The inductive form of the two: a call that waits for or holds a lock names
\* the entry, and the entry names the holder back ...
LockInv ==
  \A t \in Tasks :
    /\ pc[t] \in (LockPC \cup WaitPC) => entry[t] \in Entries
    /\ pc[t] \in LockPC => lock[entry[t]] = t

\* ... and everything a key or a call can reach belongs to one host: an entry
\* serves one key, ...
EntryKeys ==
  /\ \A k, l \in Keys : entries[k] = entries[l] /\ entries[k] # NoEntry => k = l
  /\ \A t \in Tasks, k \in Keys : entry[t] # NoEntry /\ entries[k] = entry[t] => k = key[t]
  /\ \A t, u \in Tasks : entry[t] = entry[u] /\ entry[t] # NoEntry => key[t] = key[u]

OnHost(e, k) == /\ conn[e] # NoConn => peer[conn[e]] = k
                /\ sftp[e] # NoConn => peer[sftp[e]] = k

\* ... what a reachable entry holds leads to the host of that key, ...
EntryPeers ==
  /\ \A k \in Keys : entries[k] # NoEntry => OnHost(entries[k], k)
  /\ \A t \in Tasks : entry[t] # NoEntry => OnHost(entry[t], key[t])

\* ... and so does what a call was given.
CallPeers ==
  \A t \in Tasks : /\ got[t] # NoConn => peer[got[t]] = key[t]
                   /\ pc[t] = "idle" => got[t] = NoConn
                   /\ pc[t] = "using" => got[t] # NoConn

IsolationInv == EntryKeys /\ EntryPeers /\ CallPeers

\* A call that opens the SFTP subsystem found the client slot empty, and the
\* lock keeps it empty across the await.
SlotInv == \A t \in Tasks : pc[t] = "subsys" => sftp[entry[t]] = NoConn

\* The inductive invariant behind the theorems, with TypeOK.
PoolInv == LockInv /\ IsolationInv /\ SlotInv

\* Whenever the pool itself closes a connection (reaper, invalidate, close_all),
\* the SFTP clients opened on it have exited before ("Close the cached
\* SFTPClient FIRST"), under every interleaving with a call that opens one.
SftpExitsFirst ==
  [][\A c \in Conns : status[c] = "open" /\ status'[c] = "closing" =>
        \A e \in Entries : <<e, c>> \notin clients']_vars

\* The cached client of an entry is never replaced or cleared without being
\* exited, and a call that opens one stores it in an empty slot: of concurrent
\* first calls on an entry only one opens an SFTP channel.
NoClientOverwritten ==
  [][/\ \A e \in Entries : Held(e) /\ sftp[e] # NoConn /\ sftp'[e] # sftp[e] =>
          <<e, sftp[e]>> \notin clients'
     /\ \A t \in Tasks : pc[t] = "subsys" /\ pc'[t] = "using" =>
          sftp[entry[t]] = NoConn]_vars

-----------------------------------------------------------------------------
(* What the pool keeps while no entry is dropped behind a running call       *)
(* (no reaper, no invalidation); the reaper and late invalidations break     *)
(* each of these.                                                            *)

Quiet == weather \subseteq {"drop", "cancel"}

OpenTo(k) == {c \in Conns : status[c] = "open" /\ peer[c] = k}

\* Concurrent acquires for one key share a single open connection.
OneConnectionPerKey == \A k \in Keys : Cardinality(OpenTo(k)) <= 1

\* They do while no entry is dropped behind a running call, also when
\* connections are lost and calls are cancelled in the middle of an open.
QuietOneConnection == Quiet => OneConnectionPerKey

\* A call opens an SFTP channel only on a connection that carries none.
QuietOneChannel ==
  [][Quiet => \A t \in Tasks : pc[t] = "subsys" /\ pc'[t] = "using" =>
                \A e \in Entries : <<e, got[t]>> \notin clients]_vars

\* The SFTP client cached in a pooled entry runs on that entry's connection, so
\* that it goes when the connection goes.
QuietSftpOnOwnConn ==
  Quiet => \A k \in Keys : entries[k] # NoEntry /\ sftp[entries[k]] # NoConn =>
             sftp[entries[k]] = conn[entries[k]]

\* close_all leaves no connection open.
QuietCloseAllClean == Quiet /\ cpc = "done" => \A c \in Conns : status[c] # "open"

-----------------------------------------------------------------------------
(* Liveness *)

\* Every call gets out of the pool: it obtains its connection or client, or
\* fails, whatever happens to the entry it waits on.  (An instance may run out
\* of identities for entries; the program cannot.)
OutOfEntries ==
  \A e \in Entries : Held(e) \/ \E c \in Conns : <<e, c>> \in clients

CallsReturn ==
  \A t \in Tasks :
    pc[t] \notin {"idle", "using"} ~> pc[t] \in {"idle", "using"} \/ OutOfEntries

\* A pooled connection that stays idle is closed by the reaper.
IdleReaped ==
  \A k \in Keys : HasConn(k) /\ idle[entries[k]]
                   ~> ~(HasConn(k) /\ idle[entries[k]]) \/ cpc # "serving"
=============================================================================
