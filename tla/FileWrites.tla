------------------------------ MODULE FileWrites ------------------------------
(***************************************************************************)
(* The tools that write a file: ssh_upload and ssh_deploy                  *)
(* (tools/low_access/upload_tools.py), ssh_edit and ssh_patch              *)
(* (edit_tools.py), ssh_transfer (tools/multi_host_tools.py), ssh_sudo_write*)
(* and ssh_sudo_edit (tools/sudo_tools.py, services/sudo_file_ops.py).     *)
(*                                                                         *)
(* All but the sudo tools share _atomic_write: a temporary sibling is      *)
(* created, filled, given its mode and renamed; the sudo tools do the same *)
(* in a script on the remote host, which goes on when its client is gone.  *)
(***************************************************************************)
EXTENDS ToolCalls

\* The file a call writes, and its host.
Home(t) == IF Tool(t) = "ssh_transfer" THEN req[t].peer ELSE On(t)
Final(t) == IF Tool(t) = "ssh_transfer" THEN loc[t].to ELSE loc[t].path
\* Mutant: the temporary file has the name of a backup.
TmpAsBackup(t) == Append(Front(Final(t)), BakName(NameOf(Final(t)), clock))
\* Mutant: the file is written in place.
TmpInPlace(t) == Final(t)

Tmp(t) == TmpOf(t, Final(t))

Text(t) == CHOOSE text \in loc[t].plan : TRUE
Plans(t, text) == [loc[t] EXCEPT !.plan = {text}]

-----------------------------------------------------------------------------
(* _resolve_upload_payload: before any connection (the cap on an inline      *)
(* payload is looked at just after; nothing has been touched by then)       *)

LocalSource(t) ==
  {p \in ResolveLocal(fs[Mcp], req[t].to, "read") : Len(fs[Mcp][p].text) <= Cap}
PayloadOk(t) == IF Opt(t, "local") THEN LocalSource(t) # {} ELSE Len(req[t].text) <= Cap

\* A local file is opened only when it is streamed, except by ssh_sudo_write.
FirstWrite(t) ==
  IF Tool(t) = "ssh_sudo_write" THEN "owner"
  ELSE IF at[t] = "start" /\ Tool(t) = "ssh_deploy" /\ Opt(t, "backup") THEN "oldStat"
  ELSE IF Opt(t, "local") THEN "openSource" ELSE "open"
StartUpload(t) ==
  /\ Tool(t) \in Uploads \cup {"ssh_sudo_write"}
  /\ at[t] = "start" /\ t \notin cut /\ ~(Tool(t) \in Sudo /\ On(t) \in Windows)
  /\ PayloadOk(t)
  /\ \E p \in Resolved(t), s \in IF Opt(t, "local") THEN LocalSource(t) ELSE {<<>>} :
       Keep(t, [loc[t] EXCEPT !.path = p, !.to = s, !.mode = req[t].mode,
                  !.plan = IF ~Opt(t, "local") THEN {req[t].text}
                           ELSE IF Tool(t) = "ssh_sudo_write" THEN {fs[Mcp][s].text} ELSE {}])
  /\ Go(t, FirstWrite(t)) /\ Quiet /\ UNCHANGED out

PayloadRefused(t) ==
  /\ Tool(t) \in Uploads \cup {"ssh_sudo_write"} /\ at[t] = "start" /\ ~PayloadOk(t)
  /\ Raise(t) /\ Quiet /\ UNCHANGED loc

-----------------------------------------------------------------------------
(* ssh_deploy: the file that is there is renamed to its backup *)

\* Mutant: what is there is not looked for.
OldStatSkipped(t) ==
  at[t] = "oldStat" /\ t \notin cut /\ Go(t, FirstWrite(t)) /\ Quiet /\ UNCHANGED <<loc, out>>

OldStat(t) ==
  /\ at[t] = "oldStat" /\ t \notin cut
  /\ Go(t, IF LstatOk(fs[On(t)], loc[t].path) /\ Lstat(fs[On(t)], loc[t].path).kind # "dir"
           THEN "backup" ELSE FirstWrite(t))
  /\ Quiet /\ UNCHANGED <<loc, out>>
\* Any SFTP error, not only a missing file, counts as "nothing there".
OldStatFails(t) == IgnoreAt(t, "oldStat", FirstWrite(t), TRUE)

\* The name it gets stays in `list`, for the properties what it was in `text`.
Backup(t) == Append(Front(loc[t].path), BakName(NameOf(loc[t].path), clock))
MoveToBackup(t) ==
  /\ at[t] = "backup" /\ t \notin cut
  /\ CanRename(fs[On(t)], loc[t].path, Backup(t))
  /\ Affect(t, On(t), RenameTree(fs[On(t)], loc[t].path, Backup(t)))
  /\ Keep(t, [loc[t] EXCEPT !.list = Backup(t), !.text = Lstat(fs[On(t)], loc[t].path).text])
  /\ Go(t, FirstWrite(t)) /\ Rest /\ UNCHANGED <<out, made>>
MoveToBackupFails(t) == RaiseAt(t, "backup", CanRename(fs[On(t)], loc[t].path, Backup(t)))

-----------------------------------------------------------------------------
(* ssh_edit, ssh_patch, ssh_sudo_edit: read, transform, write back *)

Edited(t, text) ==
  IF Tool(t) = "ssh_patch" THEN ApplyDiff(text, req[t].diff)
  ELSE ApplyEdit(text, req[t].old, req[t].new, Opt(t, "all"))

\* Mutant: the mode is not remembered.
LookBeforeEditModeless(t) ==
  /\ at[t] = "editStat" /\ t \notin cut /\ StatOk(fs[On(t)], loc[t].path)
  /\ Go(t, "editRead") /\ Quiet /\ UNCHANGED <<loc, out>>

\* stat: the size is checked, the mode remembered.
LookBeforeEdit(t) ==
  /\ at[t] = "editStat" /\ t \notin cut /\ StatOk(fs[On(t)], loc[t].path)
  /\ LET node == Stat(fs[On(t)], loc[t].path) IN
     IF node.kind = "file" /\ Len(node.text) > Cap THEN Raise(t) /\ UNCHANGED loc
     ELSE /\ Go(t, "editRead") /\ UNCHANGED out
          /\ Keep(t, [loc[t] EXCEPT !.mode = IF node.kind = "file" THEN node.mode ELSE "0755"])
  /\ Quiet
LookBeforeEditFails(t) == RaiseAt(t, "editStat", StatOk(fs[On(t)], loc[t].path))

\* The sudo tools read through the shell.
ReadFrom(t) == IF Tool(t) \in Sudo THEN ShellSees(t) ELSE fs[On(t)]
Readable(t) == StatOk(ReadFrom(t), loc[t].path) /\ Stat(ReadFrom(t), loc[t].path).kind = "file"

ReadAndEdit(t) ==
  /\ at[t] \in {"editRead", "sudoEditRead"} /\ t \notin cut /\ Readable(t)
  /\ LET text == Stat(ReadFrom(t), loc[t].path).text
         new == Edited(t, text)
         tooBig == at[t] = "sudoEditRead" /\ Len(text) > Cap
     IN IF ~new.ok \/ tooBig THEN Raise(t) /\ UNCHANGED loc
        ELSE Keep(t, Plans(t, new.text)) /\ Go(t, IF at[t] = "editRead" THEN "open" ELSE "owner") /\ UNCHANGED out
  /\ Quiet
ReadAndEditFails(t) == \E here \in {"editRead", "sudoEditRead"} : RaiseAt(t, here, Readable(t))

-----------------------------------------------------------------------------
(* ssh_transfer: sizes and existence are checked once, then it streams *)

TransferSize(t) ==
  /\ at[t] = "sourceStat" /\ t \notin cut /\ StatOk(fs[On(t)], loc[t].path)
  /\ LET node == Stat(fs[On(t)], loc[t].path) IN
     IF node.kind = "file" /\ Len(node.text) > Cap THEN Raise(t)
     ELSE Go(t, IF Opt(t, "overwrite") THEN "openSource" ELSE "targetStat") /\ UNCHANGED out
  /\ Quiet /\ UNCHANGED loc
TransferSizeFails(t) == RaiseAt(t, "sourceStat", StatOk(fs[On(t)], loc[t].path))

TargetExists(t) ==
  /\ at[t] = "targetStat" /\ t \notin cut
  /\ IF StatOk(fs[Home(t)], loc[t].to) THEN Raise(t) ELSE Go(t, "openSource") /\ UNCHANGED out
  /\ Quiet /\ UNCHANGED loc
TargetExistsFails(t) == RaiseAt(t, "targetStat", TRUE)

\* The open handle keeps reading the file that was opened, whatever becomes of
\* its name; an upload's source is on the MCP host.
Source(t) == IF Tool(t) = "ssh_transfer" THEN <<On(t), loc[t].path>> ELSE <<Mcp, loc[t].to>>
SourceOk(t) ==
  LET s == Source(t) IN StatOk(fs[s[1]], s[2]) /\ Stat(fs[s[1]], s[2]).kind = "file"
OpenSource(t) ==
  /\ at[t] = "openSource" /\ (t \notin cut \/ Source(t)[1] = Mcp) /\ SourceOk(t)
  /\ Keep(t, Plans(t, Stat(fs[Source(t)[1]], Source(t)[2]).text))
  /\ Go(t, "open") /\ Quiet /\ UNCHANGED out

-----------------------------------------------------------------------------
(* _atomic_write, _atomic_write_stream *)

OpenTmp(t) ==
  /\ at[t] = "open" /\ t \notin cut /\ CanCreate(fs[Home(t)], Tmp(t))
  /\ Scratch(t, Home(t), CreateTree(fs[Home(t)], Tmp(t), File(<<>>, "0644")))
  /\ Go(t, "write") /\ Rest /\ UNCHANGED <<loc, out>>

\* An inline payload is one chunk, a stream one per unit.
Streams(t) == Tool(t) = "ssh_transfer" \/ Opt(t, "local")
WriteTmp(t) ==
  /\ at[t] = "write" /\ t \notin cut
  /\ LET places == TmpNow(t, Home(t), Final(t))
         all == Text(t)
         n == IF ~Streams(t) THEN Len(all)
              ELSE IF \E q \in places : Len(fs[Home(t)][q].text) < Len(all)
                   THEN Len(fs[Home(t)][CHOOSE q \in places : TRUE].text) + 1 ELSE Len(all)
     IN /\ Scratch(t, Home(t), Grow(fs[Home(t)], places, SubSeq(all, 1, n)))
        /\ Go(t, IF n < Len(all) THEN "write"
                 ELSE IF Tool(t) = "ssh_transfer" THEN "rename" ELSE "chmod")
  /\ Rest /\ UNCHANGED <<loc, out>>

ChmodTmp(t) ==
  /\ at[t] = "chmod" /\ t \notin cut /\ StatOk(fs[Home(t)], Tmp(t))
  /\ Scratch(t, Home(t), [fs[Home(t)] EXCEPT ![RealM(fs[Home(t)], Tmp(t))].mode = loc[t].mode])
  /\ Go(t, "rename") /\ Rest /\ UNCHANGED <<loc, out>>

RenameTmp(t) ==
  /\ at[t] = "rename" /\ t \notin cut /\ CanRename(fs[Home(t)], Tmp(t), Final(t))
  /\ Change(t, Home(t), RenameTree(fs[Home(t)], Tmp(t), Final(t)))
  /\ Go(t, "return") /\ Rest /\ UNCHANGED <<loc, out>>

\* The except branch; a chunk may have been written in part.
WriteFails(t) ==
  /\ at[t] \in {"openSource", "open", "write", "chmod", "rename"}
  /\ Trouble(t, CASE at[t] = "openSource" -> SourceOk(t)
                  [] at[t] = "open" -> CanCreate(fs[Home(t)], Tmp(t))
                  [] at[t] = "write" -> TRUE
                  [] at[t] = "chmod" -> StatOk(fs[Home(t)], Tmp(t))
                  [] at[t] = "rename" -> CanRename(fs[Home(t)], Tmp(t), Final(t)))
  /\ Go(t, "sweep") /\ UNCHANGED <<fs, req, loc, out, cut, proc, clock, made, raced>>
\* Mutant: the error is raised before the clean-up.
SweepTmpForgotten(t) ==
  at[t] = "sweep" /\ t \notin cut /\ Raise(t) /\ Quiet /\ UNCHANGED loc
SweepTmp(t) ==
  /\ at[t] = "sweep" /\ t \notin cut
  /\ IF CanRemove(fs[Home(t)], Tmp(t)) THEN Scratch(t, Home(t), RemoveTree(fs[Home(t)], Tmp(t)))
     ELSE UNCHANGED <<fs, made, raced>>
  /\ Raise(t) /\ Rest /\ UNCHANGED loc
SweepFails(t) == RaiseAt(t, "sweep", CanRemove(fs[Home(t)], Tmp(t)))

-----------------------------------------------------------------------------
(* sudo_stat_owner, sudo_stat_mode, sudo_atomic_write *)

\* A missing file is an answer (root:root, 0644), not an error.
SudoOwner(t) ==
  /\ at[t] = "owner" /\ t \notin cut
  /\ Go(t, IF Tool(t) = "ssh_sudo_edit" THEN "mode" ELSE "pipe")
  /\ IF Tool(t) = "ssh_sudo_edit" THEN UNCHANGED proc ELSE proc' = [proc EXCEPT ![t] = "mktemp"]
  /\ UNCHANGED <<fs, req, loc, out, cut, clock, faults, made, raced>>
SudoOwnerFails(t) == RaiseAt(t, "owner", TRUE)

\* The size of the edited text is only looked at now.
SudoMode(t) ==
  /\ at[t] = "mode" /\ t \notin cut
  /\ Keep(t, [loc[t] EXCEPT !.mode = IF Readable(t) THEN Stat(ReadFrom(t), loc[t].path).mode ELSE "0644"])
  /\ IF Len(Text(t)) > Cap THEN Raise(t) /\ UNCHANGED proc
     ELSE Go(t, "pipe") /\ proc' = [proc EXCEPT ![t] = "mktemp"] /\ UNCHANGED out
  /\ UNCHANGED <<fs, req, cut, clock, faults, made, raced>>
SudoModeFails(t) == RaiseAt(t, "mode", TRUE)

\* The script, step by step; the shell of a chrooted host has no such directory.
\* `cat` reads what the client sent: all of it, or, when the client is gone,
\* what came before its end of file.
Attached(t) == at[t] = "pipe" /\ t \notin cut
ScriptStep(t) ==
  LET tree == fs[On(t)] tmp == TmpOf(t, loc[t].path)
      next(p) == proc' = [proc EXCEPT ![t] = p]
  IN
  /\ \/ /\ proc[t] = "mktemp"
        /\ IF On(t) \notin Chrooted /\ CanCreate(tree, tmp)
           THEN Scratch(t, On(t), CreateTree(tree, tmp, File(<<>>, "0600"))) /\ next("cat")
           ELSE next("failed") /\ UNCHANGED <<fs, made, raced>>
     \/ /\ proc[t] = "cat"
        /\ \E n \in IF Attached(t) THEN {Len(Text(t))} ELSE 0..Len(Text(t)) :
             Scratch(t, On(t), Grow(tree, TmpNow(t, On(t), loc[t].path), SubSeq(Text(t), 1, n)))
        /\ next("chmod")
     \/ /\ proc[t] = "chmod"
        /\ IF StatOk(tree, tmp)
           THEN Scratch(t, On(t), [tree EXCEPT ![RealM(tree, tmp)].mode = loc[t].mode]) /\ next("move")
           ELSE next("remove") /\ UNCHANGED <<fs, made, raced>>
     \/ /\ proc[t] = "move"
        /\ IF CanMv(tree, tmp, loc[t].path)
           THEN /\ Affect(t, On(t), MvTree(tree, tmp, loc[t].path)) /\ next("ok")
                /\ made' = [made EXCEPT ![t] = IF Lstat(tree, tmp).text = Text(t) THEN "whole" ELSE "part"]
           ELSE next("remove") /\ UNCHANGED <<fs, made, raced>>
     \/ /\ proc[t] = "remove"
        /\ IF CanRemove(tree, tmp) THEN Scratch(t, On(t), RemoveTree(tree, tmp))
           ELSE UNCHANGED <<fs, made, raced>>
        /\ next("failed")
  /\ UNCHANGED <<req, at, loc, out, cut, clock, faults>>

\* A command of it fails: what there is of the temporary file is removed.
ScriptStepFails(t) ==
  /\ proc[t] \in {"cat", "chmod", "move"} /\ faults < MaxFaults /\ faults' = faults + 1
  /\ proc' = [proc EXCEPT ![t] = "remove"]
  /\ UNCHANGED <<fs, req, at, loc, out, cut, clock, made, raced>>

\* Mutant: a failure is noted, and success reported.
ScriptFailureIgnored(t) ==
  /\ at[t] = "pipe" /\ t \notin cut /\ proc[t] \in {"ok", "failed"}
  /\ Go(t, "return") /\ out' = [out EXCEPT ![t] = IF proc[t] = "failed" THEN "error" ELSE "none"]
  /\ Quiet /\ UNCHANGED loc

ScriptReturns(t) ==
  /\ at[t] = "pipe" /\ t \notin cut /\ proc[t] \in {"ok", "failed"}
  /\ IF proc[t] = "ok" THEN Go(t, "return") /\ UNCHANGED out ELSE Raise(t)
  /\ Quiet /\ UNCHANGED loc
\* The 60 s timeout, or the connection: the error is raised, the script stays.
ScriptTimesOut(t) == RaiseAt(t, "pipe", TRUE)

-----------------------------------------------------------------------------
WriteStep(t) ==
  \/ StartUpload(t) \/ PayloadRefused(t)
  \/ Tool(t) \in {"ssh_edit", "ssh_patch"} /\ PrepareCall(t, "editStat")
  \/ Tool(t) = "ssh_sudo_edit" /\ PrepareCall(t, "sudoEditRead")
  \/ Tool(t) = "ssh_transfer" /\ (PrepareCall(t, "second") \/ PrepareSecond(t, "sourceStat"))
  \/ Tool(t) = "ssh_transfer" /\ RaiseAt(t, "second", SecondOk(t))
  \/ OldStat(t) \/ OldStatFails(t) \/ MoveToBackup(t) \/ MoveToBackupFails(t)
  \/ LookBeforeEdit(t) \/ LookBeforeEditFails(t) \/ ReadAndEdit(t) \/ ReadAndEditFails(t)
  \/ TransferSize(t) \/ TransferSizeFails(t) \/ TargetExists(t) \/ TargetExistsFails(t)
  \/ OpenSource(t) \/ OpenTmp(t) \/ WriteTmp(t) \/ ChmodTmp(t) \/ RenameTmp(t)
  \/ WriteFails(t) \/ SweepTmp(t) \/ SweepFails(t)
  \/ SudoOwner(t) \/ SudoOwnerFails(t) \/ SudoMode(t) \/ SudoModeFails(t)
  \/ ScriptStep(t) \/ ScriptStepFails(t) \/ ScriptReturns(t) \/ ScriptTimesOut(t)
===============================================================================
