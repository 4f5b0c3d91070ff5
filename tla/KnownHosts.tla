------------------------------ MODULE KnownHosts ------------------------------
(***************************************************************************)
(* ssh/known_hosts.py: the pins of host keys, read from a file that an     *)
(* operator edits while the server runs.  A look at the file is a stat and *)
(* then, if the modification time is new, a read; both are synchronous, so *)
(* only another process can come between them.  Modification times have a  *)
(* limited resolution: two edits may have the same one.                    *)
(***************************************************************************)
EXTENDS Naturals

CONSTANTS Contents,    \* what the file may contain
          Missing,     \* there is no file
          MaxTicks

ASSUME ContentsAssumption == Missing \notin Contents /\ MaxTicks \in Nat

NoTime == 0         \* None; times start at 1

VARIABLES
  file,       \* the content, or Missing
  mtime,      \* when it was last edited
  held,       \* _hostkeys
  heldTime,   \* _mtime
  looking,    \* the modification time seen by a look that is going to read
  retouched,  \* for the properties: it was edited more than once at `mtime`
  ticks

pinVars == <<file, mtime, held, heldTime, looking, retouched, ticks>>

\* __init__, before its own look at the file: no pins.
KnownHostsInit ==
  /\ file \in Contents \cup {Missing} /\ mtime = 1 /\ ticks = 1
  /\ held = Missing /\ heldTime = NoTime /\ looking = NoTime /\ retouched = FALSE

\* The operator (or ssh-keyscan) edits, removes or recreates the file.
EditPins(c) ==
  /\ c # file
  /\ file' = c /\ mtime' = ticks /\ retouched' = (mtime = ticks)
  /\ UNCHANGED <<held, heldTime, looking, ticks>>

PinTick == ticks < MaxTicks /\ ticks' = ticks + 1
           /\ UNCHANGED <<file, mtime, held, heldTime, looking, retouched>>

\* A look: as_asyncssh_param or fingerprint_for.  It reads only a file that is
\* there, has another time than the one read last, and can be stat'ed.
StatPins ==
  /\ looking = NoTime /\ file # Missing /\ mtime # heldTime
  /\ looking' = mtime
  /\ UNCHANGED <<file, mtime, held, heldTime, retouched, ticks>>

ReadPins ==
  /\ looking # NoTime /\ file # Missing
  /\ held' = file /\ heldTime' = looking /\ looking' = NoTime
  /\ UNCHANGED <<file, mtime, retouched, ticks>>

\* Mutant: the time is remembered before the file is read.
ReadPinsFailsStamped ==
  /\ looking # NoTime /\ heldTime' = looking /\ looking' = NoTime
  /\ UNCHANGED <<file, mtime, held, retouched, ticks>>

\* The file is gone, or cannot be read or parsed: the previous pins stay.
ReadPinsFails ==
  /\ looking # NoTime /\ looking' = NoTime
  /\ UNCHANGED <<file, mtime, held, heldTime, retouched, ticks>>

KnownHostsNext ==
  \/ \E c \in Contents \cup {Missing} : EditPins(c)
  \/ PinTick \/ StatPins \/ ReadPins \/ ReadPinsFails

KnownHostsSpec == KnownHostsInit /\ [][KnownHostsNext]_pinVars

-----------------------------------------------------------------------------
\* A look that does not read the file leaves pins that are the file's: unless
\* the file was edited twice within the resolution of its modification time, an
\* edit, also one that comes between the stat and the read of an earlier look,
\* is seen by the next look (_reload_if_stale).
PinsFresh ==
  (heldTime = mtime /\ ~retouched) => held = file
===============================================================================
