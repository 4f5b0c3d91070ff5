------------------------------ MODULE FileTools ------------------------------
(***************************************************************************)
(* The file tools together: calls of all of them, of any number of         *)
(* clients, on the same trees, and what must hold of them.                 *)
(***************************************************************************)
EXTENDS FileWrites, TreeTools, ReadTools

Step(t) == WriteStep(t) \/ TreeStep(t) \/ ReadStep(t) \/ PrepareFails(t) \/ Returns(t)

\* The calls are over; what still runs on the hosts may stop here.
Over == (\A t \in Calls : at[t] = "done") /\ UNCHANGED callVars

Next == (\E t \in Calls : Step(t) \/ LoseConnection(t) \/ Cancel(t)) \/ Tick \/ Over

Spec == CallsInit /\ [][Next]_callVars

-----------------------------------------------------------------------------
(* What the tools promise: FileCommits, of the trees without the temporary files *)

TmpNames == UNION {{TmpName(NameOf(p), t) : p \in {loc[t].path, loc[t].to}} : t \in Calls}
View ==
  LET hidden == TmpNames IN
  [h \in DOMAIN fs |-> Restrict(fs[h], {p \in DOMAIN fs[h] : \A i \in 1..Len(p) : p[i] \notin hidden})]

Commits == INSTANCE FileCommits WITH
  view <- View,
  aim <- [t \in Calls |-> [path |-> loc[t].path, to |-> loc[t].to]],
  plan <- [t \in Calls |-> loc[t].plan],
  lost <- cut

\* Seen without the temporary files, the tools implement FileCommits: a text is
\* replaced whole, in one step, at an allowed path, by what the request makes of
\* the text read, and success is reported only after it.
KeepsPromise == Commits!Spec

-----------------------------------------------------------------------------
(* Properties *)

Pcs == {"start", "second", "oldStat", "backup", "editStat", "editRead", "sudoEditRead", "sourceStat",
        "targetStat", "openSource", "open", "write", "chmod", "rename", "sweep", "owner", "mode", "pipe",
        "mkdir", "parentStat", "parentMake", "deleteLook", "delete", "rmdir", "walk", "recheck",
        "sweepEntry", "sizeLook", "posixRename", "shell", "symlink", "linkSource", "linkDir", "linkLook",
        "link", "list", "entry", "entryLink", "stat", "readlink", "sudoLs", "find", "findWalk", "hash",
        "hashSize", "downloadStat", "readAll", "sudoCat", "localOpen", "localRead", "localCopy",
        "localReplace", "localSweep", "return", "done"}

\* The calls are where a tool can be, the answers are answers, and no step of a
\* tool or of its process leaves a name without its directory.
FilesTypeOK ==
  /\ at \in [Calls -> Pcs]
  /\ out \in [Calls -> {"none", "ok", "error", "cancelled"}]
  /\ \A t \in Calls : out[t] # "none" => at[t] = "done"
  /\ made \in [Calls -> {"no", "part", "whole"}]
  /\ raced \subseteq Calls /\ cut \subseteq Calls
  /\ clock \in 0..MaxClock /\ faults \in 0..MaxFaults
  /\ \A h \in DOMAIN fs : WellFormed(fs[h])

\* No temporary file outlives its call, if nobody else meddles with the path:
\* except when the call was cancelled, lost its connection or had the removal
\* refused, or a sudo write was told to write to a directory.
Temporary(t) ==
  \E h \in DOMAIN fs : \E p \in {loc[t].path, loc[t].to} : TmpNow(t, h, p) # {}
TempsSwept ==
  \A t \in Calls :
    AtRest(t) /\ t \notin raced /\ Temporary(t) =>
      \/ out[t] = "cancelled" \/ t \in cut
      \/ out[t] = "error" /\ faults > 0
      \/ Tool(t) \in SudoWrites /\ IsDir(fs[On(t)], RealM(fs[On(t)], loc[t].path))

\* ssh_deploy with a backup never writes over a file it has not set aside,
\* unless the lstat failed or another call put a file there since.
SetAsideFirst ==
  [][\A t \in Calls :
       /\ Tool(t) = "ssh_deploy" /\ Opt(t, "backup") /\ made'[t] # made[t]
       /\ loc[t].path \in DOMAIN fs[On(t)]
       => t \in raced \/ faults > 0
    ]_callVars

\* What ssh_deploy has set aside stays, unless another deploy did so in the same
\* second.
BackupsStay ==
  \A t \in Calls : Tool(t) = "ssh_deploy" /\ loc[t].list # <<>> =>
    \/ fs[On(t)][loc[t].list].text = loc[t].text
    \/ \E u \in Calls \ {t} : loc[u].list = loc[t].list

\* A recursive ssh_delete_folder that returns has deleted the folder: unless the
\* host's shell sees another tree than its SFTP server, another call has made
\* something there again, or an lstat of the sweep on Windows was refused or met
\* a lost connection, which it takes for an entry that is gone already.
FolderGone ==
  \A t \in Calls :
    /\ Tool(t) = "ssh_delete_folder" /\ ~Opt(t, "dryRun") /\ at[t] = "return"
    /\ t \notin raced /\ On(t) \notin Chrooted /\ (On(t) \in Windows => faults = 0)
    => loc[t].path \notin DOMAIN fs[On(t)]

\* What a read returns with a size has that size: the two are asked for one
\* after the other, so only if no other call changed the file in between.
ReadsOneVersion ==
  \A t \in Calls :
    /\ Tool(t) \in Readers \ {"ssh_sftp_stat"} /\ at[t] = "return" /\ t \notin raced
    => \A n \in loc[t].size : n = Len(loc[t].text) \/ (n > Cap /\ loc[t].text = <<>>)

\* An edit, sudo or not, leaves the file the mode it had, unless another call
\* replaced the file while the edit ran.
ModeKept ==
  [][\A t \in Calls :
       Tool(t) \in Edits /\ made'[t] # made[t] /\ t \notin raced
       => LET tree == fs[On(t)] p == loc[t].path IN
          IsFile(tree, p) /\ fs'[On(t)][Place(tree, p)].mode = Stat(tree, p).mode
    ]_callVars
===============================================================================
