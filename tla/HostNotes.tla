------------------------------ MODULE HostNotes -------------------------------
(***************************************************************************)
(* The notes sidecar of a host, written by several server processes:       *)
(* services/host_notes.py and ssh_host_notes_append / ssh_host_notes_set   *)
(* in tools/host_notes_tools.py.  The handlers have no suspension point,   *)
(* so calls of one process follow each other; a call here is the only one  *)
(* of its process, and processes interleave at every system call.          *)
(*                                                                         *)
(* The content is the set of entries it holds, an entry named by the call  *)
(* that wrote it; its size is their number.                                *)
(***************************************************************************)
EXTENDS Naturals, FiniteSets

CONSTANTS
  Calls,
  Cap,          \* SSH_HOST_NOTES_MAX_BYTES
  MaxRetries,   \* _NOTES_APPEND_MAX_RETRIES
  MaxClock,     \* bound on the clock
  Absent        \* no file, or its (None, None) version tag

ASSUME NotesAssumption ==
  /\ Cap \in Nat \ {0} /\ MaxRetries \in Nat \ {0} /\ MaxClock \in Nat
  /\ IsFiniteSet(Calls)

VARIABLES
  file,    \* the sidecar
  clock,   \* file system time: writes within one tick share it
  pc, op,
  text,    \* content read, then content to be written
  tag,     \* (mtime_ns, size) of the snapshot
  tmp,     \* the temporary file of the call
  tries,   \* failed attempts of the retry loop
  version, \* history: number of replacements of the file
  statted, \* history: version at the stat of the snapshot
  begun,   \* history: version when the call began
  blind,   \* history: attempts that failed on an unreadable file
  raced    \* history: the file was replaced after the call's last check, or
           \* its tag was taken again by a later version

noteVars == <<file, clock, pc, op, text, tag, tmp, tries, version, statted, begun, blind, raced>>
history == <<version, statted, begun, blind, raced>>

Contents == SUBSET Calls
Tags == [mtime : 0..MaxClock, size : 0..Cardinality(Calls)]
Tag(f) == IF f = Absent THEN Absent ELSE [mtime |-> f.mtime, size |-> Cardinality(f.content)]

\* The size limit holds for the file at any time, so it is part of the type.
Sidecars == [content : {c \in Contents : Cardinality(c) <= Cap}, mtime : 0..MaxClock]

ASSUME AbsentAssumption == Absent \notin Sidecars \cup Tags

NotesTypeOK ==
  /\ file \in Sidecars \cup {Absent}
  /\ clock \in 0..MaxClock
  /\ pc \in [Calls -> {"idle", "stat", "read", "check", "write", "replace",
                       "done", "raised", "failed", "crashed"}]
  /\ op \in [Calls -> {"append", "set"}]
  /\ text \in [Calls -> Contents]
  /\ tag \in [Calls -> Tags \union {Absent}]
  /\ tmp \in [Calls -> 0..MaxClock]
  /\ tries \in [Calls -> 0..MaxRetries]
  /\ version \in 0..Cardinality(Calls)
  /\ statted \in [Calls -> 0..Cardinality(Calls)] /\ begun \in [Calls -> 0..Cardinality(Calls)]
  /\ blind \in [Calls -> 0..MaxRetries] /\ raced \in [Calls -> BOOLEAN]

NotesInit ==
  LET all(x) == [t \in Calls |-> x] IN
  /\ file = Absent /\ clock = 0
  /\ pc = all("idle") /\ op \in [Calls -> {"append", "set"}]
  /\ text = all({}) /\ tag = all(Absent) /\ tmp = all(0) /\ tries = all(0)
  /\ version = 0 /\ statted = all(0) /\ begun = all(0)
  /\ blind = all(0) /\ raced = all(FALSE)

Go(t, where) == pc' = [pc EXCEPT ![t] = where]

Tick == /\ clock < MaxClock /\ clock' = clock + 1
        /\ UNCHANGED <<file, pc, op, text, tag, tmp, tries, history>>

-----------------------------------------------------------------------------
\* Mutant: the limit is tested on what is there, not on what will be.
LimitOfOld(t, c, where) ==
  IF Cardinality(c \ {t}) > Cap THEN Go(t, "failed") ELSE Go(t, where)

\* The content to be written is built; beyond the cap the call raises.
Limit(t, c, where) ==
  IF Cardinality(c) > Cap THEN Go(t, "failed") ELSE Go(t, where)

\* ssh_host_notes_set: any content, none included, of the caller's own.
Begin(t) ==
  /\ pc[t] = "idle"
  /\ begun' = [begun EXCEPT ![t] = version]
  /\ IF op[t] = "append" THEN Go(t, "stat") /\ UNCHANGED text
     ELSE \E c \in {{}, {t}} : text' = [text EXCEPT ![t] = c] /\ Limit(t, c, "write")
  /\ UNCHANGED <<file, clock, op, tag, tmp, tries, version, statted, blind, raced>>

\* The snapshot takes the version tag before the text.  A missing file is
\* captured as (None, None, None).
Stat(t) ==
  /\ pc[t] = "stat"
  /\ tag' = [tag EXCEPT ![t] = Tag(file)]
  /\ statted' = [statted EXCEPT ![t] = version]
  /\ IF file = Absent THEN text' = [text EXCEPT ![t] = {t}] /\ Limit(t, {t}, "check")
                      ELSE Go(t, "read") /\ UNCHANGED text
  /\ UNCHANGED <<file, clock, op, tmp, tries, version, begun, blind, raced>>

ReadText(t) ==
  /\ pc[t] = "read"
  /\ LET c == file.content \union {t} IN
     text' = [text EXCEPT ![t] = c] /\ Limit(t, c, "check")
  /\ UNCHANGED <<file, clock, op, tag, tmp, tries, history>>

Blind(t) == blind' = [blind EXCEPT ![t] = @ + 1]

\* An unreadable file is captured like a missing one.
ReadError(t) ==
  /\ pc[t] = "read" /\ blind[t] = tries[t]
  /\ tag' = [tag EXCEPT ![t] = Absent]
  /\ text' = [text EXCEPT ![t] = {t}] /\ Limit(t, {t}, "check")
  /\ Blind(t)
  /\ UNCHANGED <<file, clock, op, tmp, tries, version, statted, begun, raced>>

\* Mutant: one attempt less.
RetryOnceLess(t) ==
  /\ tries' = [tries EXCEPT ![t] = @ + 1]
  /\ Go(t, IF tries[t] + 2 >= MaxRetries THEN "raised" ELSE "stat")

Retry(t) ==
  /\ tries' = [tries EXCEPT ![t] = @ + 1]
  /\ Go(t, IF tries[t] + 1 = MaxRetries THEN "raised" ELSE "stat")

\* Mutant: only the size is compared.
SameSize(t) ==
  IF file = Absent \/ tag[t] = Absent THEN Tag(file) = tag[t]
                                     ELSE Tag(file).size = tag[t].size

\* atomic_write_sidecar_if_unchanged compares mtime and size.
Unchanged(t) == Tag(file) = tag[t]

Check(t) ==
  /\ pc[t] = "check"
  /\ IF Unchanged(t)
     THEN /\ Go(t, "write")
          /\ raced' = [raced EXCEPT ![t] = version # statted[t] /\ Tag(file) = tag[t]]
          /\ UNCHANGED tries
     ELSE Retry(t) /\ UNCHANGED raced
  /\ UNCHANGED <<file, clock, op, text, tag, tmp, version, statted, begun, blind>>

\* The file cannot even be statted: refused as if it had changed.
CheckError(t) ==
  /\ pc[t] = "check" /\ file # Absent /\ blind[t] = tries[t]
  /\ Retry(t) /\ Blind(t)
  /\ UNCHANGED <<file, clock, op, text, tag, tmp, version, statted, begun, raced>>

-----------------------------------------------------------------------------
(* atomic_write_sidecar *)

WriteTmp(t) ==
  /\ pc[t] = "write"
  /\ tmp' = [tmp EXCEPT ![t] = clock]
  /\ Go(t, "replace")
  /\ UNCHANGED <<file, clock, op, text, tag, tries, history>>

\* os.replace: the file gets the mtime of the temporary file.
Replace(t) ==
  /\ pc[t] = "replace"
  /\ file' = [content |-> text[t], mtime |-> tmp[t]]
  /\ Go(t, "done")
  /\ version' = version + 1
  /\ raced' = [u \in Calls |-> raced[u] \/ (u # t /\ pc[u] \in {"write", "replace"})]
  /\ UNCHANGED <<clock, op, text, tag, tmp, tries, statted, begun, blind>>

\* An OSError of either: the temporary file is removed and the call raises.
WriteError(t) ==
  /\ pc[t] \in {"write", "replace"}
  /\ Go(t, "failed")
  /\ UNCHANGED <<file, clock, op, text, tag, tmp, tries, history>>

\* The process dies; a temporary file may stay behind.
Crash(t) ==
  /\ pc[t] \in {"stat", "read", "check", "write", "replace"}
  /\ Go(t, "crashed")
  /\ UNCHANGED <<file, clock, op, text, tag, tmp, tries, history>>

-----------------------------------------------------------------------------
NotesNext ==
  \/ Tick
  \/ \E t \in Calls :
       \/ Begin(t) \/ Stat(t) \/ ReadText(t) \/ ReadError(t) \/ Check(t) \/ CheckError(t)
       \/ WriteTmp(t) \/ Replace(t) \/ WriteError(t) \/ Crash(t)

NotesSpec == NotesInit /\ [][NotesNext]_noteVars

-----------------------------------------------------------------------------
(* Properties *)

\* INC-065: an append does not lose what is in the file.  It may only when the
\* file was replaced between its last check and its os.replace, or when a later
\* version of the file had the mtime and size of its snapshot.
AppendLosesNothing ==
  [][\A t \in Calls :
       op[t] = "append" /\ pc[t] = "replace" /\ pc'[t] = "done"
         /\ file # Absent /\ ~raced[t]
       => file.content \subseteq file'.content]_noteVars

\* The error "changed by a concurrent writer 5 times in a row" is raised only
\* when other calls replaced the file once per attempt since the call began;
\* attempts on an unreadable file excepted, which take the same way out.
RaiseMeansContention ==
  \A t \in Calls : pc[t] = "raised" =>
    version + blind[t] >= begun[t] + MaxRetries
===============================================================================
