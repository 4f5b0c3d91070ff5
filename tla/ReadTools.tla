------------------------------ MODULE ReadTools ------------------------------
(***************************************************************************)
(* The tools that read: ssh_sftp_list, ssh_sftp_stat, ssh_sftp_download,   *)
(* ssh_find, ssh_file_hash, ssh_read_redacted (tools/sftp_read_tools.py)   *)
(* and ssh_sudo_read, ssh_sudo_read_redacted, ssh_sudo_sftp_list           *)
(* (tools/sudo_tools.py).                                                  *)
(*                                                                         *)
(* A result is what the locals hold when the call returns: `text` the      *)
(* bytes, `size` the size reported (none: unknown), `list` the entries.    *)
(* Abstracted: the redaction itself, metadata other than kind and size,    *)
(* pagination, the name pattern and depth of ssh_find.                     *)
(***************************************************************************)
EXTENDS ToolCalls

Remote(t) == fs[On(t)]
IsFile(tree, p) == StatOk(tree, p) /\ Stat(tree, p).kind = "file"
SizeOf(node) == IF node.kind = "file" THEN Len(node.text) ELSE 0

-----------------------------------------------------------------------------
(* ssh_sftp_list, ssh_sftp_stat, ssh_sudo_sftp_list *)

ListDir(t) ==
  /\ at[t] = "list" /\ t \notin cut /\ IsDir(Remote(t), RealM(Remote(t), loc[t].path))
  /\ LET names == SetToSeq({Last(q) : q \in Children(Remote(t), RealM(Remote(t), loc[t].path))}) IN
     /\ Keep(t, [loc[t] EXCEPT !.todo = names])
     /\ Go(t, IF names = <<>> THEN "return" ELSE "entry")
  /\ Quiet /\ UNCHANGED out
ListDirFails(t) == RaiseAt(t, "list", IsDir(Remote(t), RealM(Remote(t), loc[t].path)))

\* _stat_entry: one lstat per name; a link's target is read by another request.
Listed(t) == Append(loc[t].path, Head(loc[t].todo))
Entered(t, kind) ==
  /\ Keep(t, [loc[t] EXCEPT !.list = Append(@, <<Head(loc[t].todo), kind>>), !.todo = Tail(@)])
  /\ Go(t, IF Len(loc[t].todo) = 1 THEN "return" ELSE "entry")
StatEntry(t) ==
  /\ at[t] = "entry" /\ t \notin cut /\ LstatOk(Remote(t), Listed(t))
  /\ LET kind == Lstat(Remote(t), Listed(t)).kind IN
     IF kind = "link" THEN Go(t, "entryLink") /\ UNCHANGED loc ELSE Entered(t, kind)
  /\ Quiet /\ UNCHANGED out
\* A name that vanished since the listing fails the whole call.
StatEntryFails(t) == RaiseAt(t, "entry", LstatOk(Remote(t), Listed(t)))
\* What was a link may be none any more: its target is then unknown.
EntryLink(t) ==
  /\ at[t] = "entryLink" /\ Entered(t, "link")
  /\ Tried(t)
  /\ UNCHANGED <<fs, req, out, cut, proc, clock, made, raced>>

StatOne(t) ==
  /\ at[t] = "stat" /\ t \notin cut /\ LstatOk(Remote(t), loc[t].path)
  /\ Keep(t, [loc[t] EXCEPT !.size = {SizeOf(Lstat(Remote(t), loc[t].path))}])
  /\ Go(t, IF Lstat(Remote(t), loc[t].path).kind = "link" THEN "readlink" ELSE "return")
  /\ Quiet /\ UNCHANGED out
StatOneFails(t) == RaiseAt(t, "stat", LstatOk(Remote(t), loc[t].path))
LinkThere(t) == LstatOk(Remote(t), loc[t].path) /\ Lstat(Remote(t), loc[t].path).kind = "link"
ReadLink(t) == /\ at[t] = "readlink" /\ t \notin cut /\ LinkThere(t)
               /\ Go(t, "return") /\ Quiet /\ UNCHANGED <<loc, out>>
ReadLinkFails(t) == RaiseAt(t, "readlink", LinkThere(t))

\* One `ls -la`: of a file, the file itself.
SudoList(t) ==
  /\ at[t] = "sudoLs" /\ t \notin cut /\ StatOk(ShellSees(t), loc[t].path)
  /\ LET p == RealM(ShellSees(t), loc[t].path)
         rows == IF IsDir(ShellSees(t), p) THEN Children(ShellSees(t), p) ELSE {p}
     IN Keep(t, [loc[t] EXCEPT !.list = SetToSeq({<<Last(q), ShellSees(t)[q].kind>> : q \in rows})])
  /\ Go(t, "return") /\ Quiet /\ UNCHANGED out
SudoListFails(t) == RaiseAt(t, "sudoLs", StatOk(ShellSees(t), loc[t].path))

-----------------------------------------------------------------------------
(* ssh_find *)

Wanted(t, q) == Remote(t)[q].kind = (IF req[t].mode = "d" THEN "dir" ELSE "file")

\* POSIX: one `find`, whose exit status is not looked at.
Find(t) ==
  /\ at[t] = "find" /\ t \notin cut
  /\ LET found == SetToSeq({q \in Under(ShellSees(t), loc[t].path) : Wanted(t, q)}) IN
     Keep(t, [loc[t] EXCEPT !.list = SubSeq(found, 1, IF Len(found) < MaxEntries THEN Len(found) ELSE MaxEntries)])
  /\ Go(t, "return") /\ Quiet /\ UNCHANGED out
FindFails(t) == RaiseAt(t, "find", TRUE)

\* Windows: one listing per directory, breadth first; errors skip.
FindQueue(t) == IF loc[t].seen = {} THEN <<loc[t].path>> ELSE loc[t].todo
FindWalked(t, queue, list) ==
  LET all == Len(list) > MaxEntries IN
  /\ Keep(t, [loc[t] EXCEPT !.todo = queue, !.seen = {"walking"}, !.list = IF all THEN SubSeq(list, 1, MaxEntries) ELSE list])
  /\ Go(t, IF all \/ queue = <<>> THEN "return" ELSE "findWalk")
FindWalk(t) ==
  /\ at[t] = "findWalk" /\ t \notin cut
  /\ LET dir == Head(FindQueue(t))
         names == SetToSeq(Children(Remote(t), RealM(Remote(t), dir)))
     IN FindWalked(t, Tail(FindQueue(t)) \o SelectSeq(names, LAMBDA q : Remote(t)[q].kind = "dir"),
                   loc[t].list \o SelectSeq(names, LAMBDA q : Wanted(t, q)))
  /\ Quiet /\ UNCHANGED out
FindSkips(t) ==
  /\ at[t] = "findWalk" /\ Trouble(t, TRUE)
  /\ FindWalked(t, Tail(FindQueue(t)), loc[t].list)
  /\ UNCHANGED <<fs, req, out, cut, proc, clock, made, raced>>

-----------------------------------------------------------------------------
(* ssh_file_hash: the digest and the size are asked one after the other *)

Hash(t) ==
  /\ at[t] = "hash" /\ t \notin cut /\ IsFile(ShellSees(t), loc[t].path)
  /\ Keep(t, [loc[t] EXCEPT !.text = Stat(ShellSees(t), loc[t].path).text])
  /\ Go(t, "hashSize") /\ Quiet /\ UNCHANGED out
HashFails(t) == RaiseAt(t, "hash", IsFile(ShellSees(t), loc[t].path))
\* _stat_size: any error is "unknown".
HashSize(t) ==
  /\ at[t] = "hashSize" /\ Go(t, "return")
  /\ \/ /\ t \notin cut /\ StatOk(Remote(t), loc[t].path) /\ UNCHANGED faults
        /\ Keep(t, [loc[t] EXCEPT !.size = {SizeOf(Stat(Remote(t), loc[t].path))}])
     \/ /\ Trouble(t, StatOk(Remote(t), loc[t].path)) /\ UNCHANGED loc
  /\ UNCHANGED <<fs, req, out, cut, proc, clock, made, raced>>

-----------------------------------------------------------------------------
(* ssh_sftp_download, ssh_read_redacted: a size, then the bytes *)

DownloadStat(t) ==
  /\ at[t] = "downloadStat" /\ t \notin cut /\ StatOk(Remote(t), loc[t].path)
  /\ LET size == SizeOf(Stat(Remote(t), loc[t].path)) IN
     /\ Keep(t, [loc[t] EXCEPT !.size = {size}])
     /\ IF size > Cap THEN IF Opt(t, "local") THEN Raise(t) ELSE Go(t, "return") /\ UNCHANGED out
        ELSE Go(t, IF Opt(t, "local") THEN "localOpen" ELSE "readAll") /\ UNCHANGED out
  /\ Quiet
DownloadStatFails(t) == RaiseAt(t, "downloadStat", StatOk(Remote(t), loc[t].path))

\* An inline download reports the length of what it read, a redacted read the
\* size it saw before.
ReadAll(t) ==
  /\ at[t] = "readAll" /\ t \notin cut /\ IsFile(Remote(t), loc[t].path)
  /\ LET text == Stat(Remote(t), loc[t].path).text IN
     Keep(t, [loc[t] EXCEPT !.text = text, !.size = IF Tool(t) = "ssh_sftp_download" THEN {Len(text)} ELSE @])
  /\ Go(t, "return") /\ Quiet /\ UNCHANGED out
ReadAllFails(t) == RaiseAt(t, "readAll", IsFile(Remote(t), loc[t].path))

\* ssh_sudo_read, ssh_sudo_read_redacted: the cap is checked after the read.
SudoCat(t) ==
  /\ at[t] = "sudoCat" /\ t \notin cut /\ IsFile(ShellSees(t), loc[t].path)
  /\ LET text == Stat(ShellSees(t), loc[t].path).text IN
     IF Len(text) > Cap THEN Raise(t) /\ UNCHANGED loc
     ELSE /\ Keep(t, [loc[t] EXCEPT !.text = text, !.size = {Len(text)}])
          /\ Go(t, "return") /\ UNCHANGED out
  /\ Quiet
SudoCatFails(t) == RaiseAt(t, "sudoCat", IsFile(ShellSees(t), loc[t].path))

-----------------------------------------------------------------------------
(* _sftp_download_to_local: onto the MCP host's own disk, by worker threads *)

\* The destination is checked before the connection is made.
StartLocal(t) ==
  /\ Tool(t) = "ssh_sftp_download" /\ Opt(t, "local")
  /\ at[t] = "start" /\ t \notin cut
  /\ \E q \in ResolveLocal(fs[Mcp], req[t].to, "write"), p \in Resolved(t) :
       Keep(t, [loc[t] EXCEPT !.path = p, !.to = q])
  /\ Go(t, "downloadStat") /\ Quiet /\ UNCHANGED out
StartLocalRefused(t) ==
  /\ Tool(t) = "ssh_sftp_download" /\ Opt(t, "local")
  /\ at[t] = "start" /\ ResolveLocal(fs[Mcp], req[t].to, "write") = {}
  /\ Raise(t) /\ Quiet /\ UNCHANGED loc

LocalTmp(t) == TmpOf(t, loc[t].to)
LocalOpen(t) ==
  /\ at[t] = "localOpen" /\ CanCreate(fs[Mcp], LocalTmp(t))
  /\ Scratch(t, Mcp, CreateTree(fs[Mcp], LocalTmp(t), File(<<>>, "0644")))
  /\ Go(t, "localRead") /\ Rest /\ UNCHANGED <<loc, out>>
LocalOpenFails(t) == RaiseAt(t, "localOpen", CanCreate(fs[Mcp], LocalTmp(t)))
\* The thread is not cancelled with its call: the file may be made all the same.
LocalOpenCancelled(t) ==
  /\ at[t] = "localOpen" /\ faults < MaxFaults /\ faults' = faults + 1
  /\ \/ CanCreate(fs[Mcp], LocalTmp(t)) /\ Scratch(t, Mcp, CreateTree(fs[Mcp], LocalTmp(t), File(<<>>, "0644")))
     \/ UNCHANGED <<fs, made, raced>>
  /\ End(t, "cancelled") /\ UNCHANGED <<req, loc, cut, proc, clock>>

LocalRead(t) ==
  /\ at[t] = "localRead" /\ t \notin cut /\ IsFile(Remote(t), loc[t].path)
  /\ LET text == Stat(Remote(t), loc[t].path).text IN Keep(t, [loc[t] EXCEPT !.text = text, !.plan = {text}])
  /\ Go(t, "localCopy") /\ Quiet /\ UNCHANGED out
\* Mutant: the last chunk is not waited for.
LocalCopyShort(t) ==
  /\ at[t] = "localCopy" /\ t \notin cut
  /\ Keep(t, [loc[t] EXCEPT !.size = {Len(fs[Mcp][LocalTmp(t)].text)}])
  /\ IF Len(fs[Mcp][LocalTmp(t)].text) + 1 >= Len(loc[t].text) THEN Go(t, "localReplace") /\ UNCHANGED fs
     ELSE Scratch(t, Mcp, [fs[Mcp] EXCEPT ![LocalTmp(t)].text = SubSeq(loc[t].text, 1, Len(@) + 1)]) /\ UNCHANGED at
  /\ Rest /\ UNCHANGED <<out, made, raced>>

LocalCopy(t) ==
  /\ at[t] = "localCopy" /\ t \notin cut
  /\ LET places == TmpNow(t, Mcp, loc[t].to) all == Len(loc[t].text)
         n == IF \E q \in places : Len(fs[Mcp][q].text) < all
              THEN Len(fs[Mcp][CHOOSE q \in places : TRUE].text) + 1 ELSE all
     IN /\ Scratch(t, Mcp, Grow(fs[Mcp], places, SubSeq(loc[t].text, 1, n)))
        /\ Keep(t, [loc[t] EXCEPT !.size = {n}])
        /\ Go(t, IF n = all THEN "localReplace" ELSE "localCopy")
  /\ Rest /\ UNCHANGED out
CanReplace(t) == CanRename(fs[Mcp], LocalTmp(t), loc[t].to)
Replace(t) == Change(t, Mcp, RenameTree(fs[Mcp], LocalTmp(t), loc[t].to))
LocalReplace(t) ==
  /\ at[t] = "localReplace" /\ CanReplace(t) /\ Replace(t)
  /\ Go(t, "return") /\ Rest /\ UNCHANGED <<loc, out>>

\* Any error or cancellation from here on: the temporary file is unlinked, and
\* a replace under way goes on in its thread.
LocalFails(t) ==
  /\ at[t] \in {"localRead", "localCopy", "localReplace"}
  /\ \/ /\ Trouble(t, at[t] # "localRead" \/ IsFile(Remote(t), loc[t].path)) /\ at[t] # "localReplace"
        /\ UNCHANGED proc
     \/ at[t] = "localReplace" /\ ~CanReplace(t) /\ UNCHANGED <<faults, proc>>
     \/ /\ faults < MaxFaults /\ faults' = faults + 1
        /\ proc' = [proc EXCEPT ![t] = IF at[t] = "localReplace" THEN "replacing" ELSE "cancelled"]
  /\ Go(t, "localSweep") /\ UNCHANGED <<fs, req, loc, out, cut, clock, made, raced>>
ReplacingThread(t) ==
  /\ proc[t] = "replacing" /\ proc' = [proc EXCEPT ![t] = "cancelled"]
  /\ IF CanReplace(t) THEN Replace(t) ELSE UNCHANGED <<fs, made, raced>>
  /\ UNCHANGED <<req, at, loc, out, cut, clock, faults>>
LocalSweep(t) ==
  /\ at[t] = "localSweep"
  /\ IF CanRemove(fs[Mcp], LocalTmp(t)) THEN Scratch(t, Mcp, RemoveTree(fs[Mcp], LocalTmp(t)))
     ELSE UNCHANGED <<fs, made, raced>>
  /\ IF proc[t] \in {"replacing", "cancelled"} THEN End(t, "cancelled") ELSE Raise(t)
  /\ Rest /\ UNCHANGED loc

-----------------------------------------------------------------------------
FirstRead(t) ==
  CASE Tool(t) = "ssh_sftp_list" -> "list"
    [] Tool(t) = "ssh_sftp_stat" -> "stat"
    [] Tool(t) \in {"ssh_sftp_download", "ssh_read_redacted"} -> "downloadStat"
    [] Tool(t) = "ssh_find" -> IF On(t) \in Windows THEN "findWalk" ELSE "find"
    [] Tool(t) = "ssh_file_hash" -> "hash"
    [] Tool(t) \in {"ssh_sudo_read", "ssh_sudo_read_redacted"} -> "sudoCat"
    [] Tool(t) = "ssh_sudo_sftp_list" -> "sudoLs"
ReadStep(t) ==
  \/ Tool(t) \in Readers /\ ~Opt(t, "local") /\ PrepareCall(t, FirstRead(t))
  \/ StartLocal(t) \/ StartLocalRefused(t)
  \/ ListDir(t) \/ ListDirFails(t) \/ StatEntry(t) \/ StatEntryFails(t) \/ EntryLink(t)
  \/ StatOne(t) \/ StatOneFails(t) \/ ReadLink(t) \/ ReadLinkFails(t)
  \/ SudoList(t) \/ SudoListFails(t) \/ Find(t) \/ FindFails(t) \/ FindWalk(t) \/ FindSkips(t)
  \/ Hash(t) \/ HashFails(t) \/ HashSize(t)
  \/ DownloadStat(t) \/ DownloadStatFails(t) \/ ReadAll(t) \/ ReadAllFails(t)
  \/ SudoCat(t) \/ SudoCatFails(t)
  \/ LocalOpen(t) \/ LocalOpenFails(t) \/ LocalOpenCancelled(t) \/ LocalRead(t) \/ LocalCopy(t)
  \/ LocalReplace(t) \/ LocalFails(t) \/ ReplacingThread(t) \/ LocalSweep(t)
===============================================================================
