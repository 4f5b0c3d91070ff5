------------------------------- MODULE MCFiles -------------------------------
EXTENDS FileTools

CONSTANTS t1, t2, posix, chroot, win

MCCalls == {t1, t2}
MCHosts == {posix, chroot, win}
MCWindows == {win}
MCChrooted == {chroot}
MCDetached == {<<"mnt">>}
MCTmpName(name, t) == name \o (IF t = t1 THEN "~a" ELSE "~b")
MCBakName(name, time) == name \o (IF time = 0 THEN ".bak0" ELSE ".bak1")
MCCasefold(name) == IF name = "SRV" THEN "srv" ELSE name

Policy(allow, restricted, globs, redact, bypass) ==
  [allow |-> allow, restricted |-> restricted, globs |-> globs, redact |-> redact, bypass |-> bypass]
MCEnvPolicy == Policy({Root(<<"srv">>)}, {<<"srv", "x", "..", "keep">>}, {}, {[abs |-> FALSE, names |-> <<"env">>]}, "warn")
MCHostPolicy ==
  (posix :> Policy({Root(<<"mnt">>)}, {}, {[abs |-> FALSE, names |-> <<"key">>]}, {}, "block") @@
   chroot :> Policy({Root(<<>>)}, {}, {}, {}, "inherit") @@
   win :> Policy({Root(<<"SRV">>)}, {}, {}, {}, "inherit"))
MCLocalRoots == {<<"tmp">>}

\* Texts of up to three units, and one beyond the cap; "n" is the newline.
T1 == <<"x">>
T2 == <<"y", "x">>
T3 == <<"z", "z", "z">>
T4 == <<"z", "z", "z", "z">>

Tree(more) == [p \in {<<>>, <<"srv">>} \cup DOMAIN more |-> IF p \in DOMAIN more THEN more[p] ELSE Dir]
Empty == [p \in {} |-> Dir]
\* A file f, a folder d with a file and a link to the folder.
Plain == Tree(<<"srv", "f">> :> File(T1, "0600") @@ <<"srv", "d">> :> Dir @@ <<"srv", "d", "g">> :> File(T2, "0644")
              @@ <<"srv", "l">> :> Link(FALSE, <<"d">>))
Disk == <<>> :> Dir @@ <<"tmp">> :> Dir @@ <<"tmp", "s">> :> File(T2, "0644")
Trees(tree) == [h \in MCHosts \cup {Mcp} |-> IF h = Mcp THEN Disk ELSE tree]

Ask(tool, host, path) ==
  [tool |-> tool, host |-> host, path |-> path, to |-> <<>>, peer |-> host, text |-> T2, mode |-> "0644",
   old |-> <<"x">>, new |-> <<"y">>, diff |-> [files |-> 1, hunks |-> <<>>], opts |-> {}]
Nothing == Ask("none", posix, <<>>)
With(ask, opts) == [ask EXCEPT !.opts = opts]
To(ask, host, path) == [ask EXCEPT !.peer = host, !.to = path]
Pair(tree, x, y) == [fs |-> Trees(tree), req |-> (t1 :> x @@ t2 :> y), faults |-> 0]

F == <<"srv", "f">>
D == <<"srv", "d">>
G == <<"srv", "d", "g">>
N == <<"srv", "n">>
L == <<"srv", "l">>
M == <<"mnt", "f">>
Full == Tree(D :> Dir @@ <<"srv", "d", "e">> :> Dir @@ <<"srv", "d", "e", "g">> :> File(T1, "0644")
             @@ <<"srv", "d", "h">> :> File(T1, "0644"))
Bare0 == Tree(D :> Dir)

Edit == Ask("ssh_edit", posix, F)
Upload(h, p) == Ask("ssh_upload", h, p)
Deploy(text) == [With(Ask("ssh_deploy", posix, F), {"backup"}) EXCEPT !.text = text]
Folder(h, opts) == With(Ask("ssh_delete_folder", h, D), {"recursive"} \cup opts)
Local(tool, p, opts) == With(To(Ask(tool, posix, p), Mcp, <<"tmp", "s">>), {"local"} \cup opts)
Mkdir2(h, opts) == With(Ask("ssh_mkdir", h, <<"srv", "n", "m">>), opts)
Mv(h, p, q) == To(Ask("ssh_mv", h, p), h, q)
Cp(p, q) == To(Ask("ssh_cp", posix, p), posix, q)
LinkTo(p, q, opts) == With(To(Ask("ssh_link", posix, p), posix, q), opts)
Patch(lines) == [Ask("ssh_patch", posix, F) EXCEPT !.diff = [files |-> 1, hunks |-> <<[start |-> 1, lines |-> lines]>>]]
Line(op, text) == [op |-> op, text |-> text]

Writing ==
  { Pair(Plain, Edit, Upload(posix, F)),
    Pair(Plain, Patch(<<Line("remove", T1), Line("add", <<>>)>>), Ask("ssh_sudo_write", posix, F)),
    Pair(Plain, Ask("ssh_sudo_edit", posix, F), Edit),
    Pair(Plain, Upload(posix, D), Nothing),
    Pair(Plain, Deploy(T2), Deploy(T3)),
    Pair(Plain, Deploy(T2), Ask("ssh_delete", posix, F)),
    Pair(Plain, Ask("ssh_sudo_write", posix, D), Nothing),
    Pair(Plain, Ask("ssh_sudo_write", chroot, F), Ask("ssh_file_hash", chroot, F)),
    Pair(Plain, Local("ssh_sudo_write", F, {}), Nothing),
    Pair(Plain, To(Ask("ssh_transfer", posix, G), win, F), Upload(win, F)),
    Pair(Plain, With(To(Ask("ssh_transfer", posix, G), win, F), {"overwrite"}), Nothing),
    Pair(Plain, Local("ssh_upload", F, {}), Local("ssh_sftp_download", G, {})),
    Pair(Plain, Local("ssh_sftp_download", F, {}), Local("ssh_sftp_download", G, {})) }

Restructuring ==
  { Pair(Full, Folder(posix, {}), Upload(posix, <<"srv", "d", "h">>)),
    Pair(Plain, Folder(win, {}), Upload(win, G)),
    Pair(Plain, Folder(chroot, {}), Nothing),
    Pair(Tree(Empty), [Folder(chroot, {}) EXCEPT !.path = <<>>], Nothing),
    Pair(Plain, Folder(posix, {"dryRun"}), Ask("ssh_delete", posix, G)),
    Pair(Plain, With(Ask("ssh_delete_folder", posix, D), {"dryRun"}), Ask("ssh_delete", posix, D)),
    Pair(Bare0, Ask("ssh_delete_folder", posix, D), Upload(posix, G)),
    Pair(Plain, Mkdir2(posix, {"parents"}), Mkdir2(posix, {"parents"})),
    Pair(Plain, Mkdir2(posix, {}), Ask("ssh_mkdir", posix, N)),
    Pair(Plain, Mv(posix, F, G), Upload(posix, G)),
    Pair(Plain, Mv(posix, D, N), Upload(posix, G)),
    Pair(Plain, Mv(posix, F, D), Nothing),
    Pair(Plain, Mv(win, F, D), Nothing),
    Pair(Put(Plain, <<"mnt">>, Dir), Mv(posix, F, M), Ask("ssh_delete", posix, F)),
    Pair(Plain, Cp(F, N), Upload(posix, N)),
    Pair(Plain, Cp(D, N), Cp(F, D)),
    \* a folder g is copied to where a file g is
    Pair(Put(Put(Put(Plain, <<"srv", "a">>, Dir), <<"srv", "a", "d">>, Dir), <<"srv", "a", "d", "g">>, Dir),
         Cp(<<"srv", "a", "d">>, <<"srv">>), Nothing),
    Pair(Plain, LinkTo(N, <<"..", "srv", "f">>, {"symbolic", "relative"}), LinkTo(N, L, {})),
    Pair(Plain, LinkTo(N, F, {"follow"}), LinkTo(D, F, {})) }

Keep0 == <<"srv", "keep">>
Reading ==
  { Pair(Plain, Ask("ssh_file_hash", posix, F), Upload(posix, F)),
    Pair(Plain, Ask("ssh_read_redacted", posix, F), Upload(posix, F)),
    Pair(Plain, Ask("ssh_sftp_download", posix, F), Deploy(T3)),
    Pair(Plain, Ask("ssh_sftp_list", posix, <<"srv">>), Ask("ssh_delete", posix, F)),
    Pair(Plain, Ask("ssh_sftp_list", posix, D), Ask("ssh_sftp_stat", posix, F)),
    Pair(Plain, Ask("ssh_sudo_read", posix, F), Ask("ssh_sudo_read_redacted", posix, F)),
    Pair(Plain, Ask("ssh_sudo_sftp_list", posix, D), Ask("ssh_find", posix, <<"srv">>)),
    \* `cp -a` merges a folder with a link g into d: what was resolved as a file is a link
    Pair(Put(Put(Put(Plain, <<"srv", "a">>, Dir), <<"srv", "a", "d">>, Dir), <<"srv", "a", "d", "g">>, Link(TRUE, F)),
         Ask("ssh_sftp_stat", posix, G), Cp(<<"srv", "a", "d">>, <<"srv">>)),
    Pair(Plain, With(To(Ask("ssh_sftp_download", posix, F), Mcp, <<"s">>), {"local"}), Ask("ssh_delete", posix, F)),
    Pair(Plain, Ask("ssh_find", win, <<"srv">>), Ask("ssh_delete", win, G)),
    Pair(Tree(Keep0 :> File(T1, "0644") @@ <<"srv", "env">> :> File(T1, "0600")),
         Ask("ssh_sftp_download", posix, Keep0), Ask("ssh_sftp_download", posix, <<"srv", "env">>)),
    Pair(Tree(<<"srv", "key">> :> File(T1, "0644") @@ <<"srv", "env">> :> File(T1, "0600")),
         Ask("ssh_sftp_download", posix, <<"srv", "key">>), Ask("ssh_read_redacted", posix, <<"srv", "env">>)) }

Big == Tree(F :> File(T4, "0644") @@ G :> File(T1, "0644") @@ D :> Dir)
Beyond ==
  { Pair(Big, Edit, To(Ask("ssh_transfer", posix, F), win, F)),
    Pair(Big, Ask("ssh_sftp_download", posix, F), Ask("ssh_sudo_read", posix, F)),
    Pair(Big, Ask("ssh_read_redacted", posix, F), Local("ssh_sftp_download", F, {})),
    Pair(Big, Ask("ssh_sudo_edit", posix, F), Deploy(T4)),
    Pair(Plain, [Ask("ssh_sudo_edit", posix, F) EXCEPT !.new = T4], Nothing) }

\* Edits of every short text, and short patches of texts of up to two lines:
\* undisturbed, to see what they make of it.
Units(n) == UNION {[1..k -> {"x", "n"}] : k \in 0..n}
Alone(text, ask) ==
  [fs |-> Trees(Tree(F :> File(text, "0644"))), req |-> (t1 :> ask @@ t2 :> Nothing), faults |-> 1]
AllEdits ==
  {Alone(text, With([Edit EXCEPT !.old = old, !.new = new], opts)) :
     text \in {u \in Units(3) : u = <<>> \/ u[1] = "x"}, old \in Units(2), new \in {<<>>, <<"x">>}, opts \in {{}, {"all"}}}
HunkLines == {Line(op, T1) : op \in {"context", "remove", "add"}}
PatchOf(hunks) == [Ask("ssh_patch", posix, F) EXCEPT !.diff = [files |-> 1, hunks |-> hunks]]
AllPatches ==
  {Alone(text, PatchOf(<<[start |-> n, lines |-> <<k, l>>]>>)) :
     text \in {<<>>, <<"x">>, <<"x", "n">>, <<"x", "n", "x">>}, n \in 0..3, k \in HunkLines, l \in HunkLines}
TwoHunks ==
  {Alone(<<"x", "n", "x">>, PatchOf(<<[start |-> i, lines |-> <<k>>], [start |-> j, lines |-> <<l>>]>>)) :
     i \in 1..2, j \in 1..3, k \in HunkLines, l \in HunkLines}
TwoFiles == {Alone(T1, [PatchOf(<<>>) EXCEPT !.diff.files = 2])}

MCScenarios == Writing \cup Restructuring \cup Reading \cup Beyond \cup AllEdits \cup AllPatches \cup TwoHunks \cup TwoFiles
===============================================================================
