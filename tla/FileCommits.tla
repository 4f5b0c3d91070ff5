----------------------------- MODULE FileCommits -----------------------------
(***************************************************************************)
(* What the file tools promise: to whoever looks at a tree but not at the  *)
(* temporary files, a file changes in one step, from one whole text to     *)
(* another, at the path that was allowed; each call does it at most once   *)
(* and says so only when it has.  Nothing else in the tree changes, except *)
(* below the paths of a call of the tree tools.                            *)
(*                                                                         *)
(* The promise has the reservations the code has, each a disjunct here: a  *)
(* deploy may set the old file aside and then not write the new one; a     *)
(* sudo write whose client is gone may commit a prefix, and goes on after  *)
(* its call has ended; `cp` empties its target before it fills it.         *)
(***************************************************************************)
EXTENDS FileRequests

VARIABLES
  view,   \* the trees without the temporary files
  req,
  aim,    \* the resolved paths of a call
  plan,   \* the whole text it is to write, once that is known
  made,   \* "no", "part", "whole": what it has done of it
  lost,   \* the calls whose connection is lost
  out     \* how it ended

commitVars == <<view, req, aim, plan, made, lost, out>>

Tool(t) == req[t].tool
On(t) == req[t].host
Opt(t, o) == o \in req[t].opts
Download(t) == Tool(t) = "ssh_sftp_download" /\ Opt(t, "local")
Peer(t) == IF Download(t) THEN Mcp ELSE req[t].peer

\* Any requests, of any trees.
Init ==
  /\ \A h \in DOMAIN view : WellFormed(view[h])
  /\ aim = [t \in Calls |-> [path |-> <<>>, to |-> <<>>]]
  /\ plan = [t \in Calls |-> {}] /\ made = [t \in Calls |-> "no"]
  /\ lost = {} /\ out = [t \in Calls |-> "none"]

\* At most this call's part of a function changes.
Only(f, g, t) == \A u \in Calls \ {t} : g[u] = f[u]

-----------------------------------------------------------------------------
(* A call resolves its paths and settles what it is to write *)

Allowed(h, p) ==
  IF h = Mcp THEN \E r \in LocalRoots : IsPrefix(RealM(view[Mcp], r), p)
  ELSE InAllowlist(h, p) /\ NotRestricted(h, p, {})

FileAt(h, p) == p \in DOMAIN view[h] /\ view[h][p].kind = "file"
Whole(t, text) ==
  CASE Tool(t) \in Edits ->
         /\ FileAt(On(t), aim[t].path)
         /\ LET old == view[On(t)][aim[t].path].text IN
            IF Tool(t) = "ssh_patch" THEN PatchMeaning(old, req[t].diff, text)
            ELSE EditMeaning(old, req[t].old, req[t].new, Opt(t, "all"), text)
    [] Tool(t) \in {"ssh_transfer", "ssh_sftp_download"} ->
         FileAt(On(t), aim[t].path) /\ text = view[On(t)][aim[t].path].text
    [] OTHER ->
         IF Opt(t, "local") THEN \E p \in DOMAIN view[Mcp] : FileAt(Mcp, p) /\ text = view[Mcp][p].text
         ELSE text = req[t].text

Prepare(t) ==
  /\ out[t] = "none" /\ UNCHANGED <<req, made, lost, out, view>>
  /\ Only(aim, aim', t) /\ Only(plan, plan', t)
  /\ aim'[t].path # aim[t].path => aim[t].path = <<>> /\ Allowed(On(t), aim'[t].path)
  /\ aim'[t].to # aim[t].to => aim[t].to = <<>> /\ Allowed(Peer(t), aim'[t].to)
  /\ plan'[t] # plan[t] => plan[t] = {} /\ \E text \in plan'[t] : plan'[t] = {text} /\ Whole(t, text)

Lose(t) == t \notin lost /\ lost' = lost \cup {t} /\ UNCHANGED <<req, aim, plan, made, out, view>>

-----------------------------------------------------------------------------
(* Files *)

Becomes(t, h, tree, how) ==
  /\ made' = [made EXCEPT ![t] = how] /\ UNCHANGED <<req, aim, plan, lost, out>>
  /\ view' = [view EXCEPT ![h] = tree]

FileOf(t) == IF Tool(t) = "ssh_transfer" \/ Download(t) THEN <<Peer(t), aim[t].to>> ELSE <<On(t), aim[t].path>>

Commit(t) ==
  /\ out[t] = "none" /\ made[t] = "no" /\ Tool(t) \notin SudoWrites
  /\ LET h == FileOf(t)[1] p == FileOf(t)[2] IN
     \E text \in plan[t], mode \in {"0644", "0755", "0600"} : Becomes(t, h, Put(view[h], p, File(text, mode)), "whole")

\* ssh_deploy moves the file that is there to its backup, over a backup of the
\* same second.
SetAside(t) ==
  /\ out[t] = "none" /\ made[t] = "no" /\ Tool(t) = "ssh_deploy" /\ Opt(t, "backup") /\ aim[t].path # <<>>
  /\ \E now \in 0..MaxClock :
       LET p == aim[t].path b == Append(Front(p), BakName(Last(p), now)) IN
       p \in DOMAIN view[On(t)] /\ Becomes(t, On(t), MoveTree(view[On(t)], p, b), "no")

\* The script of a sudo write: whole if its client stays; if not, perhaps a
\* prefix.  Told to write to a directory it leaves its temporary file in it and
\* reports success.
SudoCommit(t) ==
  /\ Tool(t) \in SudoWrites /\ made[t] = "no"
  /\ \E text \in plan[t] : \E n \in 0..Len(text) :
       /\ n < Len(text) => out[t] # "none" \/ t \in lost
       /\ LET h == On(t) p == aim[t].path IN
          \E mode \in {"0644", "0755", "0600"} :
            Becomes(t, h, IF IsDir(view[h], p) THEN view[h] ELSE Put(view[h], p, File(SubSeq(text, 1, n), mode)),
                    IF n < Len(text) THEN "part" ELSE "whole")

-----------------------------------------------------------------------------
(* The tree *)

\* The trees after a step of the call on its host's tree v, where w is such a
\* tree: each tool keeps below its own paths.
Same(v, w, within) ==
  /\ \A p \in (DOMAIN v \cup DOMAIN w) \ within :
       p \in DOMAIN v \cap DOMAIN w /\ v[p] = w[p]
TreeEffect(t, v, w) ==
  LET p == aim[t].path q == aim[t].to IN
  CASE Tool(t) = "ssh_mkdir" ->
         \E n \in 1..Len(p) : SubSeq(p, 1, n) \notin DOMAIN v /\ w = Put(v, SubSeq(p, 1, n), Dir)
    [] Tool(t) = "ssh_delete" -> p \in DOMAIN v /\ ~IsDir(v, p) /\ w = Without(v, p)
    [] Tool(t) = "ssh_delete_folder" -> DOMAIN w \subseteq DOMAIN v /\ Same(v, w, Under(v, p))
    [] Tool(t) = "ssh_cp" -> DOMAIN v \subseteq DOMAIN w /\ Same(v, w, Under(w, q))
    [] Tool(t) = "ssh_mv" ->
         \/ w \in {MoveTree(v, p, q), MvTree(v, p, q), CpTree(v, p, q)}
         \/ made[t] = "part" /\ w = Without(v, p)
    [] Tool(t) = "ssh_link" -> DOMAIN v \subseteq DOMAIN w /\ Same(v, w, Under(w, p) \ DOMAIN v)
    [] OTHER -> FALSE

\* A process on the host goes on when its call has ended.
Shells == {"ssh_delete_folder", "ssh_cp", "ssh_mv", "ssh_link"}
TreeChange(t) ==
  /\ aim[t].path # <<>>
  /\ Tool(t) \in Shells \/ out[t] = "none"
  /\ Only(made, made', t) /\ made'[t] \in {"part", "whole"}
  /\ UNCHANGED <<req, aim, plan, lost, out>>
  /\ \A h \in DOMAIN view : h # On(t) => view'[h] = view[h]
  /\ TreeEffect(t, view[On(t)], view'[On(t)])

-----------------------------------------------------------------------------
(* The answer *)

\* Calls that may say they are done without having changed anything.
Idle(t) ==
  \/ Tool(t) \in Readers /\ ~Download(t)
  \/ Tool(t) = "ssh_delete_folder" /\ Opt(t, "recursive")   \* a dry run, or all of it gone already
  \/ Tool(t) = "ssh_delete_folder" /\ Opt(t, "dryRun")
  \/ Tool(t) = "ssh_mkdir" /\ Opt(t, "parents")

Finish(t) ==
  /\ out[t] = "none"
  /\ \E how \in {"error", "cancelled"} \cup (IF made[t] = "whole" \/ Idle(t) THEN {"ok"} ELSE {}) :
       out' = [out EXCEPT ![t] = how]
  /\ UNCHANGED <<req, aim, plan, made, lost, view>>

Next == \E t \in Calls :
  Prepare(t) \/ Lose(t) \/ Commit(t) \/ SetAside(t) \/ SudoCommit(t) \/ TreeChange(t) \/ Finish(t)

Spec == Init /\ [][Next]_commitVars
===============================================================================
