------------------------------ MODULE TreeTools ------------------------------
(***************************************************************************)
(* The tools that change the tree itself: ssh_mkdir, ssh_delete,           *)
(* ssh_delete_folder, ssh_cp, ssh_mv (tools/low_access/fs_tools.py) and    *)
(* ssh_link (link_tools.py).  Where SFTP has no request for it they run    *)
(* `rm`, `cp`, `mv` or `ln`: the process works in steps of its own and     *)
(* goes on when its client is gone.                                        *)
(*                                                                         *)
(* Abstracted: bytes_written, access modes of directories; `cp` and `mv`   *)
(* copy anything but one regular file in one step.                         *)
(***************************************************************************)
EXTENDS ToolCalls

Here(t) == fs[On(t)]
Path(t) == loc[t].path

\* The remote process starts; its client waits at "shell".
RunShell(t, first) == Go(t, "shell") /\ proc' = [proc EXCEPT ![t] = first]
Becomes(t, p) == proc' = [proc EXCEPT ![t] = p]
Unmoved == UNCHANGED <<fs, made, raced>>
Stepped == UNCHANGED <<req, at, loc, out, cut, clock, faults>>

\* An SFTP request that changes the tree, and the error it may end in.
Request(t, here, next, possible, tree) ==
  /\ at[t] = here /\ t \notin cut /\ possible
  /\ Change(t, On(t), tree) /\ Go(t, next) /\ Rest /\ UNCHANGED <<loc, out>>

-----------------------------------------------------------------------------
(* ssh_mkdir, _mkdir_p *)

Mkdir(t) == Request(t, "mkdir", "return", CanMkdir(Here(t), Path(t)), MkdirTree(Here(t), Path(t)))
MkdirFails(t) == RaiseAt(t, "mkdir", CanMkdir(Here(t), Path(t)))

\* loc.todo: how many names of the path are made sure of.
Prefix(t) == SubSeq(Path(t), 1, Len(loc[t].todo) + 1)
Further(t) == Keep(t, [loc[t] EXCEPT !.todo = Prefix(t)])
AfterPrefix(t) == IF Prefix(t) = Path(t) THEN "return" ELSE "parentStat"

ParentStat(t) ==
  /\ at[t] = "parentStat" /\ t \notin cut
  /\ IF Path(t) = <<>> THEN Go(t, "return") /\ UNCHANGED <<loc, out>>
     ELSE IF ~StatOk(Here(t), Prefix(t)) THEN Go(t, "parentMake") /\ UNCHANGED <<loc, out>>
     ELSE IF Stat(Here(t), Prefix(t)).kind # "dir" THEN Raise(t) /\ UNCHANGED loc
     ELSE Further(t) /\ Go(t, AfterPrefix(t)) /\ UNCHANGED out
  /\ Quiet
ParentStatFails(t) == RaiseAt(t, "parentStat", TRUE)

ParentMake(t) ==
  /\ at[t] = "parentMake" /\ t \notin cut /\ CanMkdir(Here(t), Prefix(t))
  /\ Change(t, On(t), MkdirTree(Here(t), Prefix(t)))
  /\ Further(t) /\ Go(t, AfterPrefix(t)) /\ Rest /\ UNCHANGED out
\* Another call made it since the stat: an error here, unlike `mkdir -p`.
ParentMakeFails(t) == RaiseAt(t, "parentMake", CanMkdir(Here(t), Prefix(t)))

-----------------------------------------------------------------------------
(* ssh_delete *)

DeleteLook(t) ==
  /\ at[t] = "deleteLook" /\ t \notin cut /\ LstatOk(Here(t), Path(t))
  /\ IF Lstat(Here(t), Path(t)).kind = "dir" THEN Raise(t)
     ELSE Go(t, "delete") /\ UNCHANGED out
  /\ Quiet /\ UNCHANGED loc
DeleteLookFails(t) == RaiseAt(t, "deleteLook", LstatOk(Here(t), Path(t)))
Delete(t) == Request(t, "delete", "return", CanRemove(Here(t), Path(t)), RemoveTree(Here(t), Path(t)))
DeleteFails(t) == RaiseAt(t, "delete", CanRemove(Here(t), Path(t)))

-----------------------------------------------------------------------------
(* ssh_delete_folder *)

FolderStart(t) == IF Opt(t, "recursive") THEN "walk" ELSE IF Opt(t, "dryRun") THEN "return" ELSE "rmdir"
Rmdir(t) == Request(t, "rmdir", "return", CanRmdir(Here(t), Path(t)), RemoveTree(Here(t), Path(t)))
RmdirFails(t) == RaiseAt(t, "rmdir", CanRmdir(Here(t), Path(t)))

\* _walk_tree: one directory after the other, the last found first; one that
\* cannot be listed is skipped; the cap ends the walk.
EntriesFound(t) == <<Path(t)>> \o loc[t].list
WalkBegins(t) == loc[t].list = <<>> /\ loc[t].seen = {}
WalkQueue(t) == IF WalkBegins(t) THEN <<Path(t)>> ELSE loc[t].todo
AfterWalk(t, queue, list) ==
  /\ Keep(t, [loc[t] EXCEPT !.todo = queue, !.list = list, !.seen = {"walking"}])
  /\ IF queue # <<>> /\ Len(list) + 1 < MaxEntries THEN Go(t, "walk") /\ UNCHANGED out
     ELSE IF Len(list) + 1 >= MaxEntries THEN Raise(t)
     ELSE Go(t, IF Opt(t, "dryRun") THEN "return" ELSE "recheck") /\ UNCHANGED out
WalkFolder(t) ==
  /\ at[t] = "walk" /\ t \notin cut
  /\ LET dir == Last(WalkQueue(t)) real == RealM(Here(t), dir) IN
     /\ IsDir(Here(t), real)
     /\ \E names \in SetToSeqs({Last(q) : q \in Children(Here(t), real)}) :
          LET room == MaxEntries - Len(loc[t].list) - 1
              taken == SubSeq(names, 1, IF room < Len(names) THEN room ELSE Len(names))
              full == [i \in 1..Len(taken) |-> Append(dir, taken[i])]
          IN AfterWalk(t, Front(WalkQueue(t)) \o SelectSeq(full, LAMBDA q : IsDir(Here(t), Place(Here(t), q))),
                       loc[t].list \o full)
  /\ Quiet
WalkSkips(t) ==
  /\ at[t] = "walk" /\ Trouble(t, IsDir(Here(t), RealM(Here(t), Last(WalkQueue(t)))))
  /\ AfterWalk(t, Front(WalkQueue(t)), loc[t].list)
  /\ UNCHANGED <<fs, req, cut, proc, clock, made, raced>>
\* An entry that vanished between the listing and its lstat.
WalkFails(t) == RaiseAt(t, "walk", TRUE)

\* The path must still resolve to itself.
Recheck(t) ==
  /\ at[t] = "recheck" /\ t \notin cut
  /\ CanonicalizeAndCheck(On(t), Here(t), Path(t), TRUE) = {Path(t)}
  /\ IF On(t) \in Windows THEN Go(t, "sweepEntry") /\ UNCHANGED proc ELSE RunShell(t, "rm")
  /\ Keep(t, [loc[t] EXCEPT !.todo = <<>>, !.seen = {}])
  /\ UNCHANGED <<fs, req, out, cut, clock, faults, made, raced>>
RecheckFails(t) == RaiseAt(t, "recheck", CanonicalizeAndCheck(On(t), Here(t), Path(t), TRUE) = {Path(t)})

\* Windows: the entries walked, the last first; one that has gone is skipped.
Entry(t) == LET list == EntriesFound(t) IN list[Len(list) - Len(loc[t].todo)]
\* Mutant: the folder itself, the last of the entries, is forgotten.
SweptButRoot(t) == /\ Keep(t, [loc[t] EXCEPT !.todo = Append(@, Entry(t))])
                   /\ Go(t, IF Len(loc[t].todo) + 1 >= Len(loc[t].list) THEN "return" ELSE "sweepEntry")
Swept(t) == /\ Keep(t, [loc[t] EXCEPT !.todo = Append(@, Entry(t))])
            /\ Go(t, IF Entry(t) = Path(t) THEN "return" ELSE "sweepEntry")
CanSweep(t) == IF IsDir(Here(t), Place(Here(t), Entry(t))) THEN CanRmdir(Here(t), Entry(t))
               ELSE CanRemove(Here(t), Entry(t))
SweepEntry(t) ==
  /\ at[t] = "sweepEntry" /\ t \notin cut /\ CanSweep(t)
  /\ Change(t, On(t), RemoveTree(Here(t), Entry(t))) /\ Swept(t) /\ Rest /\ UNCHANGED out
SweepEntrySkips(t) ==
  /\ at[t] = "sweepEntry" /\ Trouble(t, LstatOk(Here(t), Entry(t)))
  /\ Swept(t) /\ UNCHANGED <<fs, req, out, cut, proc, clock, made, raced>>
SweepEntryFails(t) == RaiseAt(t, "sweepEntry", CanSweep(t)) /\ LstatOk(Here(t), Entry(t))

\* rm -rf, in the tree the shell sees: "/" is refused (--preserve-root), nothing
\* there is no error.  It opens the
\* directory, removes what it read, and fails on one that has filled again.
RmStep(t) ==
  LET tree == ShellTree(On(t), Here(t)) below == Under(tree, Path(t)) IN
  /\ \/ /\ proc[t] = "rm" /\ Path(t) = <<>> /\ Becomes(t, "failed") /\ Unmoved /\ UNCHANGED loc
     \/ /\ proc[t] = "rm" /\ below = {} /\ Becomes(t, "ok") /\ Unmoved /\ UNCHANGED loc
     \/ /\ proc[t] = "rm" /\ Path(t) # <<>> /\ below # {} /\ Becomes(t, "removing")
        /\ Keep(t, [loc[t] EXCEPT !.seen = below]) /\ Unmoved
     \/ /\ proc[t] = "removing" /\ UNCHANGED loc
        /\ \E q \in loc[t].seen \cap below :
             /\ Children(tree, q) \cap loc[t].seen = {}
             /\ IF Children(tree, q) = {}
                THEN /\ Change(t, On(t), Without(tree, q))
                     /\ Becomes(t, IF q = Path(t) THEN "ok" ELSE "removing")
                ELSE Becomes(t, "failed") /\ Unmoved
     \/ /\ proc[t] = "removing" /\ loc[t].seen \cap below = {} /\ Becomes(t, "ok") /\ Unmoved /\ UNCHANGED loc
  /\ UNCHANGED <<req, at, out, cut, clock, faults>>

-----------------------------------------------------------------------------
(* ssh_cp, ssh_mv *)

\* lstat for bytes_written; its failure is ignored.
SizeLook(t) ==
  /\ at[t] = "sizeLook"
  /\ Tried(t)
  /\ IF Tool(t) = "ssh_mv" THEN Go(t, "posixRename") /\ UNCHANGED proc
     ELSE IF t \in cut THEN Go(t, "shell") /\ UNCHANGED proc ELSE RunShell(t, "cp")
  /\ UNCHANGED <<fs, req, loc, out, cut, clock, made, raced>>

\* A regular file is opened (and so emptied), then filled.
CpStep(t) ==
  LET tree == ShellTree(On(t), Here(t)) src == Path(t) dst == loc[t].to
      there == Target(tree, src, dst)
  IN
  /\ \/ /\ proc[t] = "cp" /\ ~CanCp(tree, src, dst) /\ Becomes(t, "failed") /\ Unmoved
     \/ /\ proc[t] = "cp" /\ CanCp(tree, src, dst)
        /\ IF Lstat(tree, src).kind = "file" /\ CanCreate(tree, there)
           THEN /\ Affect(t, On(t), CreateTree(tree, there, File(<<>>, Lstat(tree, src).mode)))
                /\ made' = [made EXCEPT ![t] = "part"] /\ Becomes(t, "fill")
           ELSE /\ Affect(t, On(t), CpTree(tree, src, dst))
                /\ LET all == CpClashes(tree, src, dst) = {} IN
                   made' = [made EXCEPT ![t] = IF all THEN "whole" ELSE "part"] /\ Becomes(t, IF all THEN "ok" ELSE "failed")
     \/ /\ proc[t] = "fill"
        /\ IF LstatOk(tree, src) /\ StatOk(tree, dst)
           THEN LET to == RealM(tree, IF IsDir(tree, RealM(tree, dst)) THEN there ELSE dst) IN
                IF to \in DOMAIN tree /\ tree[to].kind = "file" /\ Lstat(tree, src).kind = "file"
                THEN Change(t, On(t), [tree EXCEPT ![to].text = Lstat(tree, src).text]) /\ Becomes(t, "ok")
                ELSE Becomes(t, "failed") /\ Unmoved
           ELSE Becomes(t, "failed") /\ Unmoved
  /\ Stepped

\* rename; an error that may mean "across file systems" sends a POSIX host's
\* shell to try `mv`, which puts the source inside a directory named by dst.
Rename(t) ==
  /\ at[t] = "posixRename" /\ t \notin cut /\ CanRename(Here(t), Path(t), loc[t].to)
  /\ Change(t, On(t), RenameTree(Here(t), Path(t), loc[t].to))
  /\ Go(t, "return") /\ Rest /\ UNCHANGED <<loc, out>>
NoSuchFile(t) ==
  \/ ~LstatOk(Here(t), Path(t))
  \/ LET q == Place(Here(t), loc[t].to) IN q = Nowhere \/ (q # <<>> /\ Front(q) \notin DOMAIN Here(t))
RenameFallsBack(t) ==
  /\ at[t] = "posixRename" /\ t \notin cut /\ On(t) \notin Windows /\ ~NoSuchFile(t)
  /\ Trouble(t, CanRename(Here(t), Path(t), loc[t].to))
  /\ RunShell(t, "mv")
  /\ UNCHANGED <<fs, req, loc, out, cut, clock, made, raced>>
RenameFails(t) ==
  /\ RaiseAt(t, "posixRename", CanRename(Here(t), Path(t), loc[t].to))
  /\ On(t) \notin Windows => t \in cut \/ NoSuchFile(t) \/ CanRename(Here(t), Path(t), loc[t].to)

MvStep(t) ==
  LET tree == ShellTree(On(t), Here(t)) src == Path(t) dst == loc[t].to
      there == Target(tree, src, dst)
      crosses == Volume(Place(tree, src)) # Volume(there)
  IN
  /\ \/ /\ proc[t] = "mv" /\ ~CanMv(tree, src, dst) /\ Becomes(t, "failed") /\ Unmoved
     \/ /\ proc[t] = "mv" /\ CanMv(tree, src, dst) /\ ~crosses
        /\ Change(t, On(t), MvTree(tree, src, dst)) /\ Becomes(t, "ok")
     \/ /\ proc[t] = "mv" /\ CanMv(tree, src, dst) /\ crosses
        /\ Affect(t, On(t), CopyTree(Without(tree, there), Place(tree, src), there))
        /\ made' = [made EXCEPT ![t] = "part"] /\ Becomes(t, "unlink")
     \/ /\ proc[t] = "unlink" /\ Place(tree, src) \in DOMAIN tree \ {<<>>}
        /\ Change(t, On(t), Without(tree, Place(tree, src))) /\ Becomes(t, "ok")
     \/ /\ proc[t] = "unlink" /\ Place(tree, src) \notin DOMAIN tree \ {<<>>} /\ Becomes(t, "failed") /\ Unmoved
  /\ Stepped

\* conn.run returns: a nonzero status raises.
ShellReturns(t) ==
  /\ at[t] = "shell" /\ t \notin cut /\ proc[t] \in {"ok", "failed"}
  /\ IF proc[t] = "ok" THEN Go(t, "return") /\ UNCHANGED out ELSE Raise(t)
  /\ Quiet /\ UNCHANGED loc
ShellFails(t) == RaiseAt(t, "shell", TRUE)

-----------------------------------------------------------------------------
(* ssh_link: loc.path is the new name, loc.to what it points to *)

\* The allowlist and the restricted paths are asked about both, the globs and
\* the redact list about the new name only.
LinkStart(t) == IF Opt(t, "symbolic") THEN "symlink" ELSE IF Opt(t, "follow") THEN "linkSource" ELSE "linkDir"

\* The text of a symbolic link is checked as a path and stored as it is.
Pointee(t) == Norm(IF Opt(t, "relative") THEN Front(Path(t)) \o req[t].to ELSE req[t].to)
CanSymlink(t) ==
  InAllowlist(On(t), Pointee(t)) /\ NotRestricted(On(t), Pointee(t), {}) /\ CanLink(Here(t), Path(t))
Symlink(t) ==
  Request(t, "symlink", "return", CanSymlink(t),
          Put(Here(t), Place(Here(t), Path(t)), Link(~Opt(t, "relative"), req[t].to)))
SymlinkFails(t) == RaiseAt(t, "symlink", CanSymlink(t))

\* Followed: the source is the file itself.  Not followed: its directory is
\* resolved and the name in it taken as it is.
LinkSource(t) ==
  IF at[t] = "linkSource" THEN
     {q \in CanonicalizeAndCheck(On(t), Here(t), req[t].to, TRUE) : NotRestricted(On(t), q, {})}
  ELSE {Append(d, Last(req[t].to)) :
          d \in {d \in CanonicalizeAndCheck(On(t), Here(t), Front(req[t].to), TRUE) :
                   req[t].to # <<>> /\ NotRestricted(On(t), d, {})}}
FindLinkSource(t) ==
  /\ at[t] \in {"linkSource", "linkDir"} /\ t \notin cut
  /\ \E q \in LinkSource(t) : Keep(t, [loc[t] EXCEPT !.to = q])
  /\ Go(t, IF at[t] = "linkSource" THEN "link" ELSE "linkLook") /\ Quiet /\ UNCHANGED out
FindLinkSourceFails(t) ==
  \E here \in {"linkSource", "linkDir"} : RaiseAt(t, here, at[t] = here /\ LinkSource(t) # {})

LinkLook(t) ==
  /\ at[t] = "linkLook" /\ t \notin cut
  /\ LstatOk(Here(t), loc[t].to) /\ NotRestricted(On(t), loc[t].to, {})
  /\ RunShell(t, "ln") /\ UNCHANGED <<fs, req, loc, out, cut, clock, faults, made, raced>>
LinkLookFails(t) ==
  RaiseAt(t, "linkLook", LstatOk(Here(t), loc[t].to) /\ NotRestricted(On(t), loc[t].to, {}))

HardLinkOk(t, tree) == LstatOk(tree, loc[t].to) /\ Lstat(tree, loc[t].to).kind # "dir"
HardLink(t) ==
  Request(t, "link", "return", HardLinkOk(t, Here(t)) /\ CanLink(Here(t), Path(t)),
          Put(Here(t), Place(Here(t), Path(t)), Lstat(Here(t), loc[t].to)))
HardLinkFails(t) == RaiseAt(t, "link", HardLinkOk(t, Here(t)) /\ CanLink(Here(t), Path(t)))

\* `ln -P`, too, links inside a directory named by dst.
LnStep(t) ==
  LET tree == ShellTree(On(t), Here(t)) there == Target(tree, loc[t].to, Path(t)) IN
  /\ proc[t] = "ln"
  /\ IF HardLinkOk(t, tree) /\ there \notin DOMAIN tree \cup {Nowhere} /\ IsDir(tree, Front(there))
     THEN Change(t, On(t), Put(tree, there, Lstat(tree, loc[t].to))) /\ Becomes(t, "ok")
     ELSE Becomes(t, "failed") /\ Unmoved
  /\ Stepped

-----------------------------------------------------------------------------
TreeStep(t) ==
  \/ Tool(t) = "ssh_mkdir" /\ PrepareCall(t, IF Opt(t, "parents") THEN "parentStat" ELSE "mkdir")
  \/ Tool(t) = "ssh_delete" /\ PrepareCall(t, "deleteLook")
  \/ Tool(t) = "ssh_delete_folder" /\ PrepareCall(t, FolderStart(t))
  \/ Tool(t) \in {"ssh_cp", "ssh_mv"} /\ (PrepareCall(t, "second") \/ PrepareSecond(t, "sizeLook"))
  \/ Tool(t) \in {"ssh_cp", "ssh_mv"} /\ RaiseAt(t, "second", SecondOk(t))
  \/ Tool(t) = "ssh_link" /\ PrepareCall(t, LinkStart(t))
  \/ Mkdir(t) \/ MkdirFails(t)
  \/ ParentStat(t) \/ ParentStatFails(t) \/ ParentMake(t) \/ ParentMakeFails(t)
  \/ DeleteLook(t) \/ DeleteLookFails(t) \/ Delete(t) \/ DeleteFails(t)
  \/ Rmdir(t) \/ RmdirFails(t) \/ WalkFolder(t) \/ WalkSkips(t) \/ WalkFails(t)
  \/ Recheck(t) \/ RecheckFails(t) \/ SweepEntry(t) \/ SweepEntrySkips(t) \/ SweepEntryFails(t)
  \/ SizeLook(t) \/ Rename(t) \/ RenameFallsBack(t) \/ RenameFails(t)
  \/ RmStep(t) \/ CpStep(t) \/ MvStep(t) \/ LnStep(t) \/ ShellReturns(t) \/ ShellFails(t)
  \/ Symlink(t) \/ SymlinkFails(t) \/ FindLinkSource(t) \/ FindLinkSourceFails(t)
  \/ LinkLook(t) \/ LinkLookFails(t) \/ HardLink(t) \/ HardLinkFails(t)
===============================================================================
