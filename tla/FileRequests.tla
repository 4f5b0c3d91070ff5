---------------------------- MODULE FileRequests ----------------------------
(***************************************************************************)
(* What is asked of the file tools: the calls, the requests they carry and *)
(* the tools by kind.  Shared by the tools (ToolCalls and what extends it) *)
(* and by what they promise (FileCommits).                                 *)
(***************************************************************************)
EXTENDS PathPolicy, EditAlgorithms

CONSTANTS
  Calls,
  Mcp,           \* the MCP host's own disk, a tree like the others
  Scenarios,     \* what is asked of which tree, and how many of the MaxFaults are
                 \* used up: [fs |-> trees, req |-> requests, faults |-> number]
  TmpName(_, _), \* the temporary sibling of a name for a call (random token)
  BakName(_, _), \* the backup of a name at a time (seconds)
  Cap,           \* the size caps, in units of text
  MaxEntries,    \* SSH_DELETE_FOLDER_MAX_ENTRIES, SSH_FIND_MAX_RESULTS
  MaxFaults,     \* bound: refusals, lost connections and cancellations
  MaxClock       \* bound: seconds

ASSUME CallsAssumption ==
  /\ Mcp \notin Hosts
  /\ Cap \in Nat /\ MaxEntries \in Nat /\ MaxFaults \in Nat /\ MaxClock \in Nat

\* The trees are trees, a request names hosts that have one, and its paths are
\* paths; with local_path= the second one is on the MCP host.
ASSUME ScenariosAssumption ==
  \A s \in Scenarios :
    /\ \A h \in DOMAIN s.fs : WellFormed(s.fs[h])
    /\ \A t \in Calls : /\ IsPath(s.req[t].path) /\ IsPath(s.req[t].to)
                        /\ {s.req[t].host, s.req[t].peer} \subseteq DOMAIN s.fs
                        /\ "local" \in s.req[t].opts => s.req[t].peer = Mcp
    /\ s.faults \in 0..MaxFaults

\* The names there are before the tools make any.
NamesIn(tree) ==
  UNION {Range(p) \cup (IF tree[p].kind = "link" THEN Range(tree[p].names) ELSE {}) : p \in DOMAIN tree}
NamesHeld(s) == UNION {NamesIn(s.fs[h]) : h \in DOMAIN s.fs}
NamesAsked(s) == UNION {Range(s.req[t].path) \cup Range(s.req[t].to) : t \in Calls}
PlainNames == {"..", "", Nowhere[1]} \cup UNION {NamesHeld(s) \cup NamesAsked(s) : s \in Scenarios}

\* A random token: the name of a temporary file is no other name, and no two
\* calls have the same.
ASSUME NamesAssumption ==
  \A x, y \in PlainNames : \A t, u \in Calls :
    /\ TmpName(x, t) \notin PlainNames
    /\ \A n \in 0..MaxClock : TmpName(x, t) # BakName(y, n)
    /\ TmpName(x, t) = TmpName(y, u) => t = u

\* A backup is named after its file, and otherwise: the name, ".bak-", a time.
ASSUME BackupsAssumption ==
  \A x \in PlainNames : \A n \in 0..MaxClock : BakName(x, n) \notin {x, "..", Nowhere[1]}

Uploads == {"ssh_upload", "ssh_deploy"}
SudoWrites == {"ssh_sudo_write", "ssh_sudo_edit"}
Edits == {"ssh_edit", "ssh_patch", "ssh_sudo_edit"}
Sudo == SudoWrites \cup {"ssh_sudo_read", "ssh_sudo_read_redacted", "ssh_sudo_sftp_list"}
Redacted == {"ssh_read_redacted", "ssh_sudo_read_redacted"}
Readers == Redacted \cup {"ssh_sftp_list", "ssh_sftp_stat", "ssh_sftp_download", "ssh_find",
                          "ssh_file_hash", "ssh_sudo_read", "ssh_sudo_sftp_list"}

\* The path names what is to be made (must_exist=False).
Creating == Uploads \cup {"ssh_mkdir", "ssh_link", "ssh_sudo_write"}
PosixOnly == Sudo \cup {"ssh_cp", "ssh_link"}
=============================================================================
