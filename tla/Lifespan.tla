------------------------------- MODULE Lifespan -------------------------------
(***************************************************************************)
(* The life of the server (lifespan.py) and the hooks it waits for         *)
(* (services/hooks.py): the registry of hosts is loaded, the pool bound    *)
(* and its reaper started, the STARTUP hooks run one after the other, the  *)
(* server serves, the SHUTDOWN hooks run, the pool is closed.              *)
(*                                                                         *)
(* Abstracted: logging, skills, tool groups and transforms; close_all is   *)
(* one step (module ConnectionPool has its own steps).  The hooks of       *)
(* PRE_TOOL_CALL and POST_TOOL_CALL are tasks nobody waits for: Server     *)
(* records that they were started.                                         *)
(***************************************************************************)
EXTENDS Sequences, Naturals

CONSTANTS Registries   \* what load_hosts may return

VARIABLES
  phase,    \* where the lifespan is
  hosts,    \* the dict of the registry, shared with the pool
  hooks,    \* the kinds of the hooks of STARTUP and of SHUTDOWN, in order
  turn,     \* the hook a blocking emit waits for
  reaper,   \* the reaper task of the pool runs
  open      \* hostnames with a pooled connection

lifeVars == <<phase, hosts, hooks, turn, reaper, open>>

\* What a hook does: it returns or raises an Exception ("plain"), waits for
\* ever ("slow"), ignores the cancellation of its timeout too ("stubborn"), or
\* raises something else, as SystemExit ("exits").
HookKinds == {"plain", "slow", "stubborn", "exits"}
Event == IF phase = "starting" THEN "startup" ELSE "shutdown"
Emitting == phase \in {"starting", "stopping"}
InHook == Emitting /\ turn <= Len(hooks[Event])

LifespanStart ==
  /\ phase = "start" /\ hosts = <<>> /\ turn = 1 /\ reaper = FALSE /\ open = {}

\* load_hosts, the checks of the sudo settings; then bind and start_reaper.
Load ==
  /\ phase = "start"
  /\ \/ hosts' \in Registries /\ phase' = "bound" /\ reaper' = TRUE
     \/ phase' = "failed" /\ UNCHANGED <<hosts, reaper>>
  /\ UNCHANGED <<hooks, turn, open>>

\* From there to the try: hooks are loaded, transforms added, two awaits.  An
\* error there, or a cancellation, is not followed by any clean-up.
Prepare ==
  /\ phase = "bound" /\ phase' \in {"starting", "leaked"}
  /\ UNCHANGED <<hosts, hooks, turn, reaper, open>>

-----------------------------------------------------------------------------
(* HookRegistry.emit(blocking=True) *)

NextHook == turn' = turn + 1 /\ UNCHANGED <<phase, hosts, hooks, reaper, open>>

\* Mutant: only the timeout is caught.
HookEndsUncaught ==
  \/ InHook /\ hooks[Event][turn] = "plain" /\ NextHook
  \/ /\ InHook /\ hooks[Event][turn] = "plain"
     /\ phase' = (IF phase = "starting" THEN "stopping" ELSE "crashed") /\ turn' = 1
     /\ UNCHANGED <<hosts, hooks, reaper, open>>
\* It returns, or raises an Exception, which is logged.
HookEnds == InHook /\ hooks[Event][turn] = "plain" /\ NextHook
\* wait_for cancels the hook, and then waits for it.
HookTimesOut == InHook /\ hooks[Event][turn] # "stubborn" /\ NextHook

\* What leaves emit: a BaseException of a hook, or a cancellation of the task.
\* In the finally it also leaves the lifespan, before close_all.
HookEscapes ==
  /\ InHook
  /\ phase' = (IF phase = "starting" THEN "stopping" ELSE "abandoned") /\ turn' = 1
  /\ UNCHANGED <<hosts, hooks, reaper, open>>

EmitEnds ==
  /\ Emitting /\ ~InHook /\ turn' = 1
  /\ phase' = (IF phase = "starting" THEN "serving" ELSE "closing")
  /\ UNCHANGED <<hosts, hooks, reaper, open>>

-----------------------------------------------------------------------------

Stop == phase = "serving" /\ phase' = "stopping"
        /\ UNCHANGED <<hosts, hooks, turn, reaper, open>>

CloseAll ==
  /\ phase = "closing" /\ phase' = "gone" /\ reaper' = FALSE /\ open' = {}
  /\ UNCHANGED <<hosts, hooks, turn>>
CloseAllCancelled ==
  /\ phase = "closing" /\ phase' = "abandoned"
  /\ UNCHANGED <<hosts, hooks, turn, reaper, open>>

LifespanNext ==
  \/ Load \/ Prepare \/ HookEnds \/ HookTimesOut \/ HookEscapes
  \/ EmitEnds \/ Stop \/ CloseAll \/ CloseAllCancelled

\* A timeout fires, a hook that is done goes on, close_all ends.
LifespanFairness ==
  WF_lifeVars(HookEnds \/ HookTimesOut)
  /\ WF_lifeVars(EmitEnds) /\ WF_lifeVars(CloseAll)
===============================================================================
