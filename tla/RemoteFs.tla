------------------------------- MODULE RemoteFs -------------------------------
(***************************************************************************)
(* A remote file system as the tools use it: the requests of asyncssh's    *)
(* SFTP client and the coreutils (realpath, rm, cp, mv, ln) run through    *)
(* the shell, modelled from how the code under src/ calls them.            *)
(*                                                                         *)
(* A path is the sequence of its names, <<>> is "/".  A tree maps the      *)
(* paths that exist to nodes: a directory, a file with its text and mode,  *)
(* or a symbolic link with its target.  Every operation here is atomic; a  *)
(* tool that takes several, or a process that works in steps, does them as *)
(* steps of its own.  Abstracted: times, owners, permissions (a refused    *)
(* request is a fault of the calls) and the sharing between hard links.    *)
(***************************************************************************)
EXTENDS Naturals, Sequences, SequencesExt, FiniteSets

CONSTANT Detached   \* directories that are another file system's root

Dir == [kind |-> "dir"]
File(text, mode) == [kind |-> "file", text |-> text, mode |-> mode]
\* A target is absolute or relative to the link's directory; ".." is a name.
Link(abs, names) == [kind |-> "link", abs |-> abs, names |-> names]

Nowhere == <<"(nowhere)">>   \* never the path of anything

IsDir(t, p) == p \in DOMAIN t /\ t[p].kind = "dir"
Under(t, p) == {q \in DOMAIN t : IsPrefix(p, q)}
Children(t, p) == {q \in DOMAIN t : Len(q) = Len(p) + 1 /\ IsPrefix(p, q)}
Put(t, p, node) == [q \in DOMAIN t \cup {p} |-> IF q = p THEN node ELSE t[q]]
Without(t, p) == Restrict(t, DOMAIN t \ Under(t, p))
Rebase(q, from, to) == to \o SubSeq(q, Len(from) + 1, Len(q))

\* Everything that is there hangs on directories.
IsPath(p) == p \in Seq(Range(p))
IsNode(n) ==
  \/ DOMAIN n = {"kind"} /\ n.kind = "dir"
  \/ DOMAIN n = {"kind", "text", "mode"} /\ n.kind = "file"
  \/ DOMAIN n = {"kind", "abs", "names"} /\ n.kind = "link" /\ IsPath(n.names)
WellFormed(t) ==
  /\ IsDir(t, <<>>) /\ Nowhere \notin DOMAIN t
  /\ \A p \in DOMAIN t : IsPath(p) /\ IsNode(t[p]) /\ (p # <<>> => IsDir(t, Front(p)))

-----------------------------------------------------------------------------
(* Path resolution: one component at a time, links replaced by their targets *)

Hops == 8   \* bound: components and links a resolution passes (ELOOP beyond)

WalkStep(t, s, last) ==
  LET c == Head(s.rest) rest == Tail(s.rest) p == Append(s.at, c) IN
  IF c = ".." THEN [at |-> IF s.at = <<>> THEN <<>> ELSE Front(s.at), rest |-> rest,
                    there |-> s.there]
  ELSE IF p \in DOMAIN t /\ t[p].kind = "link" /\ (rest # <<>> \/ last)
       THEN [at |-> IF t[p].abs THEN <<>> ELSE s.at, rest |-> t[p].names \o rest,
             there |-> s.there]
  ELSE [at |-> p, rest |-> rest,
        there |-> s.there /\ p \in DOMAIN t /\ (rest # <<>> => IsDir(t, p))]

Walked(t, path, last) ==
  LET after[n \in 0..Hops] ==
        IF n = 0 THEN [at |-> <<>>, rest |-> path, there |-> TRUE]
        ELSE LET before == after[n - 1] IN
             IF before.rest = <<>> THEN before ELSE WalkStep(t, before, last)
  IN after
Walk(t, path, last) ==
  LET end == Walked(t, path, last)[Hops] IN
  IF end.rest = <<>> THEN end ELSE [at |-> Nowhere, rest |-> <<>>, there |-> FALSE]

\* realpath -m, realpath -e
RealM(t, p) == Walk(t, p, TRUE).at
RealE(t, p) == LET w == Walk(t, p, TRUE) IN IF w.there THEN w.at ELSE Nowhere
\* Where the name itself is: its directory resolved, the name not.
Place(t, p) == IF p = <<>> THEN <<>> ELSE Walk(t, p, FALSE).at

-----------------------------------------------------------------------------
(* SFTP requests: what each needs, and the tree after it *)

LstatOk(t, p) == Place(t, p) \in DOMAIN t
Lstat(t, p) == t[Place(t, p)]
StatOk(t, p) == RealM(t, p) \in DOMAIN t
Stat(t, p) == t[RealM(t, p)]

CanCreate(t, p) ==
  LET q == RealM(t, p) IN q # Nowhere /\ q # <<>> /\ IsDir(t, Front(q)) /\ ~IsDir(t, q)
CreateTree(t, p, node) == Put(t, RealM(t, p), node)

CanMkdir(t, p) ==
  LET q == Place(t, p) IN q \notin DOMAIN t /\ q # Nowhere /\ IsDir(t, Front(q))
MkdirTree(t, p) == Put(t, Place(t, p), Dir)

CanRemove(t, p) == LstatOk(t, p) /\ Lstat(t, p).kind # "dir"
RemoveTree(t, p) == Without(t, Place(t, p))

CanRmdir(t, p) ==
  LET q == Place(t, p) IN q # <<>> /\ IsDir(t, q) /\ Children(t, q) = {}

\* rename(2): not across file systems, a directory only over nothing or an
\* empty directory, anything else not over a directory.
Volume(p) == {d \in Detached : IsPrefix(d, p)}
Fits(t, s, d) ==
  /\ s \in DOMAIN t /\ s # <<>> /\ d # <<>> /\ d # Nowhere /\ IsDir(t, Front(d))
  /\ IF t[s].kind = "dir" THEN /\ ~IsPrefix(s, d)
                               /\ d \in DOMAIN t => IsDir(t, d) /\ Children(t, d) = {}
     ELSE ~IsDir(t, d)
CanRename(t, p, r) == Fits(t, Place(t, p), Place(t, r)) /\ Volume(Place(t, p)) = Volume(Place(t, r))
MoveTree(t, s, d) ==
  IF s = d THEN t
  ELSE LET moved == {Rebase(q, s, d) : q \in Under(t, s)} IN
       [q \in (DOMAIN t \ (Under(t, s) \cup Under(t, d))) \cup moved |->
          IF q \in moved THEN t[Rebase(q, d, s)] ELSE t[q]]
RenameTree(t, p, r) == MoveTree(t, Place(t, p), Place(t, r))

CanLink(t, p) == LET q == Place(t, p) IN q \notin DOMAIN t /\ q # Nowhere /\ IsDir(t, Front(q))

-----------------------------------------------------------------------------
(* Coreutils *)

\* Where `cp` and `mv` put src when told dst: inside it, if it is a directory.
Target(t, src, dst) ==
  IF IsDir(t, RealM(t, dst)) THEN Append(RealM(t, dst), Last(src)) ELSE Place(t, dst)

CanMv(t, src, dst) == src # <<>> /\ Fits(t, Place(t, src), Target(t, src, dst))
MvTree(t, src, dst) == MoveTree(t, Place(t, src), Target(t, src, dst))

\* cp -a: links are copied as links, a directory is merged into one that is there.
CanCp(t, src, dst) ==
  LET s == Place(t, src) d == Target(t, src, dst) IN
  /\ src # <<>> /\ s \in DOMAIN t /\ d \notin {Nowhere, <<>>} /\ IsDir(t, Front(d)) /\ ~IsPrefix(s, d)
  /\ IF t[s].kind = "dir" THEN d \notin DOMAIN t \/ IsDir(t, d) ELSE ~IsDir(t, d)
\* A directory is not copied over anything else, nor anything else over one.
Copies(t, s, d) == {Rebase(q, s, d) : q \in Under(t, s)}
Clashes(t, s, d) ==
  {q \in Copies(t, s, d) \cap DOMAIN t : IsDir(t, q) # IsDir(t, Rebase(q, d, s))}
CopyTree(t, s, d) ==
  LET new == {q \in Copies(t, s, d) : \A c \in Clashes(t, s, d) : ~IsPrefix(c, q)} IN
  [q \in DOMAIN t \cup new |-> IF q \in new THEN t[Rebase(q, d, s)] ELSE t[q]]
CpTree(t, src, dst) == CopyTree(t, Place(t, src), Target(t, src, dst))
CpClashes(t, src, dst) == Clashes(t, Place(t, src), Target(t, src, dst))
===============================================================================
