----------------------------- MODULE ServerProofs -----------------------------
(***************************************************************************)
(* Proofs about the host policies, for every registry; about the pins of   *)
(* host keys, for every file, alone and inside the server; about the audit *)
(* lines and about the answers, for every plan of a tool.                  *)
(***************************************************************************)
EXTENDS Server, SequenceTheorems, WellFoundedInduction, TLAPS

-----------------------------------------------------------------------------
(* The gates agree *)

\* Looking up a hostname finds a policy of the registry with this hostname.
LEMMA NamedIsRegistered ==
  ASSUME NEW registry, NEW name, NEW p \in Named(registry, name)
  PROVE  p.hostname = name /\ (\E a \in Aliases(registry) : registry[a] = p)
BY DEF Named, Policies, Aliases

\* What resolve_host gives a tool, the pool accepts as long as the registry is
\* the same: ConnectionPool._check_allowed can refuse a resolved host only
\* after a reload, also one that shadows hostnames by aliases.
THEOREM PoolAcceptsResolved ==
  ASSUME NEW registry, NEW name, NEW p \in Resolve(registry, name)
  PROVE  CheckAllowed(registry, p)
<1>1. p \in Locate(registry, name) /\ CheckPolicy(p)
  BY DEF Resolve
<1>2. CASE name \in Aliases(registry)
  <2>1. p = registry[name]
    BY <1>1, <1>2 DEF Locate
  <2>2. p \in Named(registry, p.hostname)
    BY <1>2, <2>1 DEF Named, Policies, Aliases
  <2> QED BY <1>1, <1>2, <2>2 DEF CheckAllowed
<1>3. CASE name \notin Aliases(registry) /\ Named(registry, name) # {}
  <2>1. p \in Named(registry, name)
    BY <1>1, <1>3 DEF Locate
  <2>2. p.hostname = name /\ Aliases(registry) # {}
    BY <2>1, NamedIsRegistered
  <2> QED BY <1>1, <1>3, <2>2 DEF CheckAllowed
<1>4. CASE name \notin Aliases(registry) /\ Named(registry, name) = {}
  <2>1. name \in EnvHosts /\ p = Minimal(name)
    BY <1>1, <1>4 DEF Locate
  <2>2. p.hostname \in EnvHosts
    BY <2>1 DEF Minimal
  <2> QED BY <1>1, <2>2 DEF CheckAllowed
<1> QED BY <1>2, <1>3, <1>4

\* A list of programs with a directory admits only these programs themselves:
\* another file of the same name elsewhere is refused (check_command, INC-012).
THEOREM AbsoluteEntriesAreExact ==
  ASSUME NEW p, NEW program,
         EffectiveCommandAllowlist(p) # {}, Any \notin EffectiveCommandAllowlist(p),
         \A e \in EffectiveCommandAllowlist(p) : e.dir # Bare,
         CheckCommand(p, program)
  PROVE  \E t \in program, e \in EffectiveCommandAllowlist(p) : e.name = t.name /\ e.dir = t.dir
BY DEF CheckCommand

-----------------------------------------------------------------------------
(* The pins *)

\* Times are numbers; what was seen is not younger than the file.
PinsTypeOK ==
  /\ ticks \in Nat /\ mtime \in Nat /\ mtime <= ticks
  /\ heldTime \in Nat /\ heldTime <= mtime
  /\ looking \in Nat /\ looking <= mtime
  /\ retouched \in BOOLEAN

PinsInv == PinsTypeOK /\ PinsFresh

LEMMA PinsInit == KnownHostsInit => PinsInv
<1> SUFFICES ASSUME KnownHostsInit PROVE PinsTypeOK /\ PinsFresh
  BY DEF PinsInv
<1>1. mtime = 1 /\ ticks = 1 /\ heldTime = 0 /\ looking = 0 /\ retouched = FALSE
  BY DEF KnownHostsInit, NoTime
<1>2. PinsTypeOK
  <2>1. retouched \in BOOLEAN
    BY <1>1
  <2>2. ticks \in Nat /\ mtime \in Nat /\ mtime <= ticks
    BY <1>1
  <2>3. heldTime \in Nat /\ heldTime <= mtime /\ looking \in Nat /\ looking <= mtime
    BY <1>1
  <2> QED BY <2>1, <2>2, <2>3 DEF PinsTypeOK
<1>3. PinsFresh
  BY <1>1 DEF PinsFresh
<1> QED BY <1>2, <1>3

LEMMA PinsStep == PinsInv /\ [KnownHostsNext]_pinVars => PinsInv'
<1> SUFFICES ASSUME PinsInv, [KnownHostsNext]_pinVars PROVE PinsInv'
  OBVIOUS
<1> USE DEF PinsInv, PinsTypeOK, PinsFresh, NoTime
<1>1. ASSUME NEW c \in Contents \cup {Missing}, EditPins(c) PROVE PinsInv'
  <2>1. PinsTypeOK'
    BY <1>1 DEF EditPins
  <2>2. PinsFresh'
    \* The new time is the old one, and then the file was edited twice at it, or
    \* a later one that nobody has seen.
    <3>1. mtime' = ticks /\ retouched' = (mtime = ticks) /\ heldTime' = heldTime
      BY <1>1 DEF EditPins
    <3>2. CASE mtime = ticks
      BY <3>1, <3>2
    <3>3. CASE mtime # ticks
      BY <3>1, <3>3
    <3> QED BY <3>2, <3>3
  <2> QED BY <2>1, <2>2
<1>2. CASE PinTick
  BY <1>2 DEF PinTick
<1>3. CASE StatPins
  BY <1>3 DEF StatPins
<1>4. CASE ReadPins
  BY <1>4 DEF ReadPins
<1>5. CASE ReadPinsFails
  BY <1>5 DEF ReadPinsFails
<1>6. CASE UNCHANGED pinVars
  BY <1>6 DEF pinVars
<1> QED BY <1>1, <1>2, <1>3, <1>4, <1>5, <1>6 DEF KnownHostsNext

\* Every look at the file that does not read it again finds pins that are the
\* file's, for any contents, any number of edits and any moment of an edit.
THEOREM PinsAlwaysFresh == KnownHostsSpec => []PinsFresh
<1>1. PinsInv => PinsFresh
  BY DEF PinsInv
<1> QED BY PinsInit, PinsStep, <1>1, PTL DEF KnownHostsSpec

\* No step of the server but those of KnownHosts touches the pins.
LEMMA ServerLeavesPins == [Next]_vars => [KnownHostsNext]_pinVars
<1> SUFFICES ASSUME [Next]_vars PROVE KnownHostsNext \/ UNCHANGED pinVars
  OBVIOUS
<1>1. CASE CallNext
  <2> SUFFICES ASSUME NEW c \in Calls PROVE
        /\ Enter(c) \/ EnterBroadcast(c) \/ Gathered(c) \/ Cancel(c) \/ HostList(c) => UNCHANGED pinVars
        /\ HostReload(c) => UNCHANGED pinVars
        /\ \A n : StartOne(c, n) \/ Raises(c, n) \/ Unreachable(c, n) => UNCHANGED pinVars
        /\ \A n : Answered(c, n) => UNCHANGED pinVars
    BY <1>1 DEF CallNext
  <2>1. Enter(c) \/ EnterBroadcast(c) \/ Gathered(c) \/ Cancel(c) \/ HostList(c) => UNCHANGED pinVars
    BY DEF Enter, EnterBroadcast, Gathered, Cancel, HostList, Same
  <2>2. HostReload(c) => UNCHANGED pinVars
    BY DEF HostReload
  <2>3. \A n : StartOne(c, n) \/ Raises(c, n) \/ Unreachable(c, n) => UNCHANGED pinVars
    BY DEF StartOne, Raises, Unreachable, Same
  <2>4. \A n : Answered(c, n) => UNCHANGED pinVars
    BY DEF Answered
  <2> QED BY <2>1, <2>2, <2>3, <2>4
<1>2. CASE UNCHANGED vars
  BY <1>2 DEF vars
<1> QED BY <1>1, <1>2 DEF Next

\* The same of the whole server: calls, reloads, hooks and shutdown in any order.
THEOREM ServerPinsFresh == Spec => []PinsFresh
<1>1. Init => PinsInv
  BY PinsInit DEF Init
<1>2. PinsInv /\ [Next]_vars => PinsInv'
  BY ServerLeavesPins, PinsStep
<1>3. PinsInv => PinsFresh
  BY DEF PinsInv
<1> QED BY <1>1, <1>2, <1>3, PTL DEF Spec

-----------------------------------------------------------------------------
(* The audit lines *)

Endings == {"no", "ok", "error", "cheatsheet", "cancelled"}
ALine == [result : {"ok", "error"}, bypass : BOOLEAN]
Over(c) == ended[c] # "no"
Marking(c) == "cheat" \in Words(c, 0) /\ req[c].matches

AuditTypeOK ==
  /\ ended \in [Calls -> Endings]
  /\ sent \in [Calls -> {<<>>, <<"pre">>, <<"pre", "post">>}]
  /\ lines \in [Calls -> {<<>>} \cup {<<l>> : l \in ALine}]
  /\ flag \in [Calls -> BOOLEAN]
  /\ \A c \in Calls : req[c].task \in Calls

\* The events and the lines of a call are those of how it ended.
Shapes ==
  \A c \in Calls :
    /\ ~Started(c) => ended[c] = "no"
    /\ sent[c] = IF ~Started(c) THEN <<>> ELSE IF ended[c] = "no" THEN <<"pre">> ELSE <<"pre", "post">>
    /\ lines[c] = <<>> <=> ended[c] \in {"no", "cheatsheet"}
    /\ \A l \in ALine : lines[c] = <<l>> => l.result = (IF ended[c] = "ok" THEN "ok" ELSE "error")

\* A task runs its calls one after the other.
InOrder ==
  \A c, d \in Calls : d < c /\ req[d].task = req[c].task /\ Started(c) => Over(d)

\* The context variable of a task is the mark of the call that runs on it.
MarkIsOwn ==
  /\ \A t \in Calls : flag[t] =>
       \E c \in Calls : Running(c) /\ req[c].task = t /\ optOut /\ req[c].matches
  /\ \A c \in Calls : Running(c) /\ ~Broadcasts(c) /\ Marking(c) => flag[req[c].task]

\* So is the mark of a line.
LinesMarked ==
  \A c \in Calls, l \in ALine : lines[c] = <<l>> =>
    /\ l.bypass => optOut /\ req[c].matches
    /\ Marking(c) /\ (\E r \in ran : r.call = c) => l.bypass

RanStarted == \A r \in ran : r.call \in Calls /\ Started(r.call)

AuditInv == AuditTypeOK /\ Shapes /\ InOrder /\ MarkIsOwn /\ LinesMarked /\ RanStarted

LEMMA AuditInvTruthful == AuditInv => AuditTruthful
<1> SUFFICES ASSUME AuditInv, NEW c \in Calls
             PROVE  /\ ended[c] \in {"no", "cheatsheet"} => lines[c] = <<>>
                    /\ ended[c] \notin {"no", "cheatsheet"} =>
                         /\ Len(lines[c]) = 1
                         /\ lines[c][1].result = (IF ended[c] = "ok" THEN "ok" ELSE "error")
                         /\ lines[c][1].bypass => optOut /\ req[c].matches
                         /\ "cheat" \in Words(c, 0) /\ req[c].matches /\ (\E r \in ran : r.call = c)
                              => lines[c][1].bypass
                    /\ sent[c] = IF ~Started(c) THEN <<>> ELSE IF ended[c] = "no" THEN <<"pre">> ELSE <<"pre", "post">>
  BY DEF AuditTruthful
<1>1. CASE lines[c] = <<>>
  BY <1>1 DEF AuditInv, Shapes
<1>2. CASE lines[c] # <<>>
  <2>1. PICK l \in ALine : lines[c] = <<l>>
    BY <1>2 DEF AuditInv, AuditTypeOK
  <2>2. Len(lines[c]) = 1 /\ lines[c][1] = l
    BY <2>1
  <2>3. l.result = (IF ended[c] = "ok" THEN "ok" ELSE "error")
    BY <2>1 DEF AuditInv, Shapes
  <2>4. /\ l.bypass => optOut /\ req[c].matches
        /\ Marking(c) /\ (\E r \in ran : r.call = c) => l.bypass
    BY <2>1 DEF AuditInv, LinesMarked
  <2>5. ended[c] \notin {"no", "cheatsheet"}
    BY <1>2 DEF AuditInv, Shapes
  <2> QED BY <2>2, <2>3, <2>4, <2>5 DEF AuditInv, Shapes, Marking
<1> QED BY <1>1, <1>2

LEMMA AuditInit == Init => AuditInv
<1> SUFFICES ASSUME Init PROVE AuditInv
  OBVIOUS
<1>1. /\ ended = [c \in Calls |-> "no"] /\ sent = [c \in Calls |-> <<>>]
      /\ lines = [c \in Calls |-> <<>>] /\ flag = [c \in Calls |-> FALSE] /\ ran = {}
      /\ \A c \in Calls : req[c].task \in Calls
  BY CallsAssumption DEF Init
<1>2. AuditTypeOK
  BY <1>1 DEF AuditTypeOK, Endings
<1>3. Shapes
  BY <1>1 DEF Shapes, Started
<1>4. InOrder /\ MarkIsOwn /\ RanStarted
  BY <1>1 DEF InOrder, MarkIsOwn, RanStarted, Started, Running
<1>5. LinesMarked
  BY <1>1 DEF LinesMarked
<1> QED BY <1>2, <1>3, <1>4, <1>5 DEF AuditInv

\* A call may begin, or goes on.
Turn(c, events) ==
  \/ events = <<"pre">> /\ ~Started(c) /\ \A d \in Calls : d < c /\ req[d].task = req[c].task => Over(d)
  \/ events = <<>> /\ Started(c)

LEMMA RequestsStay ==
  ASSUME req' = req
  PROVE  \A c : (Marking(c)' <=> Marking(c)) /\ (Broadcasts(c)' <=> Broadcasts(c))
BY DEF Marking, Words, NextAwait, Plan, Broadcasts

LEMMA AloneOnItsTask ==
  ASSUME AuditInv, NEW c \in Calls, ended[c] = "no", NEW events, Turn(c, events),
         NEW d \in Calls, Running(d), req[d].task = req[c].task
  PROVE  d = c
<1>1. c \in Nat /\ d \in Nat
  BY CallsAssumption
<1>2. ~(d < c)
  BY DEF Turn, AuditInv, InOrder, Over, Running
<1>3. ~(c < d)
  BY DEF AuditInv, InOrder, Over, Running
<1> QED BY <1>1, <1>2, <1>3

LEMMA EventPairs ==
  /\ <<"pre">> \o <<>> = <<"pre">> /\ <<>> \o <<"pre">> = <<"pre">>
  /\ <<"pre">> \o <<"post">> = <<"pre", "post">>
<1> DEFINE Events == {"pre", "post"}
<1>1. <<"pre">> \in Seq(Events) /\ <<"post">> \in Seq(Events) /\ <<"pre", "post">> \in Seq(Events)
  OBVIOUS
<1>2. /\ <<"pre">> \o <<"post">> \in Seq(Events) /\ Len(<<"pre">> \o <<"post">>) = 2
      /\ (<<"pre">> \o <<"post">>)[1] = "pre" /\ (<<"pre">> \o <<"post">>)[2] = "post"
  BY <1>1, ConcatProperties
<1>3. Len(<<"pre", "post">>) = 2 /\ <<"pre", "post">>[1] = "pre" /\ <<"pre", "post">>[2] = "post"
  OBVIOUS
<1>4. \A i \in 1 .. 2 : i = 1 \/ i = 2
  OBVIOUS
<1>5. <<"pre">> \o <<"post">> = <<"pre", "post">>
  BY <1>1, <1>2, <1>3, <1>4, SeqEqual, Zenon
<1> QED BY <1>1, <1>5, ConcatEmptySeq

LEMMA SentOf ==
  ASSUME AuditInv, NEW c \in Calls, ended[c] = "no", NEW events, Turn(c, events)
  PROVE  /\ sent[c] \o events = <<"pre">>
         /\ sent[c] \o events \o <<"post">> = <<"pre", "post">>
<1>1. sent[c] = IF Started(c) THEN <<"pre">> ELSE <<>>
  BY DEF AuditInv, Shapes
<1>2. CASE Started(c)
  <2>1. sent[c] = <<"pre">> /\ events = <<>>
    BY <1>1, <1>2 DEF Turn
  <2> QED BY <2>1, EventPairs, Zenon
<1>3. CASE ~Started(c)
  <2>1. sent[c] = <<>> /\ events = <<"pre">>
    BY <1>1, <1>3 DEF Turn
  <2> QED BY <2>1, EventPairs, Zenon
<1> QED BY <1>2, <1>3

\* A call goes on, or has begun and waits.
LEMMA GoingOn ==
  ASSUME AuditInv, NEW c \in Calls, ended[c] = "no", NEW events, Turn(c, events),
         NEW m \in BOOLEAN, m => optOut /\ req[c].matches, ~Broadcasts(c) /\ Marking(c) => m,
         sent' = [sent EXCEPT ![c] = @ \o events], flag' = [flag EXCEPT ![req[c].task] = m],
         UNCHANGED <<ended, lines, req, optOut>>,
         \A r \in ran' : r \in ran \/ r.call = c
  PROVE  AuditInv'
<1>1. sent' = [sent EXCEPT ![c] = <<"pre">>] /\ sent'[c] = <<"pre">>
  BY SentOf DEF AuditInv, AuditTypeOK
<1>2. \A d \in Calls : d # c => sent'[d] = sent[d] /\ (Started(d)' <=> Started(d))
  BY <1>1 DEF AuditInv, AuditTypeOK, Started
<1>3. Started(c)' /\ Running(c)' /\ \A d \in Calls : d # c => (Running(d)' <=> Running(d))
  BY <1>1, <1>2 DEF Started, Running
<1>4. AuditTypeOK'
  <2>1. sent' \in [Calls -> {<<>>, <<"pre">>, <<"pre", "post">>}]
    BY <1>1 DEF AuditInv, AuditTypeOK
  <2>2. flag' \in [Calls -> BOOLEAN]
    BY DEF AuditInv, AuditTypeOK
  <2> QED BY <2>1, <2>2 DEF AuditInv, AuditTypeOK
<1>5. Shapes'
  BY <1>1, <1>2, <1>3 DEF AuditInv, Shapes
<1>6. InOrder'
  BY <1>2, <1>3 DEF AuditInv, InOrder, Over, Turn
<1>7. MarkIsOwn'
  <2>1. flag'[req[c].task] = m
    BY DEF AuditInv, AuditTypeOK
  <2>2. \A t \in Calls : t # req[c].task => flag'[t] = flag[t]
    BY DEF AuditInv, AuditTypeOK
  <2>3. ASSUME NEW t \in Calls, flag'[t]
        PROVE  \E d \in Calls : Running(d)' /\ req[d].task = t /\ optOut /\ req[d].matches
    <3>1. CASE t = req[c].task
      BY <1>3, <2>1, <2>3, <3>1
    <3>2. CASE t # req[c].task
      <4>1. PICK d \in Calls : Running(d) /\ req[d].task = t /\ optOut /\ req[d].matches
        BY <2>2, <2>3, <3>2 DEF AuditInv, MarkIsOwn
      <4> QED BY <1>3, <3>2, <4>1
    <3> QED BY <3>1, <3>2
  <2>4. ASSUME NEW d \in Calls, Running(d)', ~Broadcasts(d), Marking(d)
        PROVE  flag'[req[d].task]
    <3>1. CASE d = c
      BY <2>1, <2>4, <3>1
    <3>2. CASE d # c
      <4>1. Running(d) /\ req[d].task \in Calls
        BY <1>3, <2>4, <3>2 DEF AuditInv, AuditTypeOK
      <4>2. req[d].task # req[c].task
        BY <3>2, <4>1, AloneOnItsTask
      <4>3. flag[req[d].task]
        BY <2>4, <4>1 DEF AuditInv, MarkIsOwn
      <4> QED BY <2>2, <4>1, <4>2, <4>3
    <3> QED BY <3>1, <3>2
  <2> QED BY <2>3, <2>4, RequestsStay DEF MarkIsOwn
<1>8. LinesMarked'
  <2> SUFFICES ASSUME NEW d \in Calls, NEW l \in ALine, lines[d] = <<l>>
               PROVE  /\ l.bypass => optOut /\ req[d].matches
                      /\ Marking(d) /\ (\E r \in ran' : r.call = d) => l.bypass
    BY RequestsStay DEF LinesMarked
  <2>1. d # c
    BY DEF AuditInv, Shapes
  <2> QED BY <2>1 DEF AuditInv, LinesMarked
<1>9. RanStarted'
  BY <1>2, <1>3 DEF AuditInv, RanStarted
<1> QED BY <1>4, <1>5, <1>6, <1>7, <1>8, <1>9 DEF AuditInv

\* A call ends.
LEMMA Leaving ==
  ASSUME AuditInv, NEW c \in Calls, ended[c] = "no", NEW events, Turn(c, events),
         NEW m \in BOOLEAN, m => optOut /\ req[c].matches,
         Marking(c) /\ (\E r \in ran : r.call = c) => m,
         NEW how \in Endings \ {"no"}, Leave(c, how, m, events),
         UNCHANGED <<req, optOut, ran>>
  PROVE  AuditInv'
<1>1. /\ sent' = [sent EXCEPT ![c] = <<"pre", "post">>] /\ ended' = [ended EXCEPT ![c] = how]
      /\ sent'[c] = <<"pre", "post">> /\ ended'[c] = how
  BY SentOf DEF AuditInv, AuditTypeOK, Leave
<1>2. \A d \in Calls : d # c => sent'[d] = sent[d] /\ ended'[d] = ended[d] /\ lines'[d] = lines[d]
  BY <1>1 DEF AuditInv, AuditTypeOK, Leave
<1>3. /\ Started(c)' /\ ~Running(c)' /\ Over(c)'
      /\ \A d \in Calls : d # c =>
           (Started(d)' <=> Started(d)) /\ (Running(d)' <=> Running(d)) /\ (Over(d)' <=> Over(d))
  BY <1>1, <1>2 DEF Started, Running, Over
<1>4. PICK result \in {"ok", "error"} : result = IF how = "ok" THEN "ok" ELSE "error"
  OBVIOUS
<1> DEFINE line == [result |-> result, bypass |-> m]
<1>5. line \in ALine
  BY <1>4 DEF ALine
<1>6. lines'[c] = IF how = "cheatsheet" THEN <<>> ELSE <<line>>
  <2>1. lines[c] = <<>>
    BY DEF AuditInv, Shapes
  <2>2. lines' = IF how = "cheatsheet" THEN lines ELSE [lines EXCEPT ![c] = Append(@, line)]
    BY <1>4 DEF Leave, AuditLine
  <2>3. Append(<<>>, line) = <<line>>
    OBVIOUS
  <2> QED BY <2>1, <2>2, <2>3 DEF AuditInv, AuditTypeOK
<1>7. AuditTypeOK'
  <2>1. sent' \in [Calls -> {<<>>, <<"pre">>, <<"pre", "post">>}] /\ ended' \in [Calls -> Endings]
    BY <1>1 DEF AuditInv, AuditTypeOK
  <2>2. flag' \in [Calls -> BOOLEAN]
    BY DEF AuditInv, AuditTypeOK, Leave
  <2>3. lines' \in [Calls -> {<<>>} \cup {<<l>> : l \in ALine}]
    <3>1. \A d \in Calls : lines'[d] \in {<<>>} \cup {<<l>> : l \in ALine}
      BY <1>2, <1>5, <1>6 DEF AuditInv, AuditTypeOK
    <3>2. lines' = [d \in Calls |-> lines'[d]]
      BY DEF AuditInv, AuditTypeOK, Leave
    <3> QED BY <3>1, <3>2
  <2> QED BY <2>1, <2>2, <2>3 DEF AuditInv, AuditTypeOK
<1>8. Shapes'
  <2> SUFFICES ASSUME NEW d \in Calls
      PROVE  /\ ~Started(d)' => ended'[d] = "no"
             /\ sent'[d] = IF ~Started(d)' THEN <<>> ELSE IF ended'[d] = "no" THEN <<"pre">> ELSE <<"pre", "post">>
             /\ lines'[d] = <<>> <=> ended'[d] \in {"no", "cheatsheet"}
             /\ \A l \in ALine : lines'[d] = <<l>> => l.result = (IF ended'[d] = "ok" THEN "ok" ELSE "error")
    BY DEF Shapes
  <2>1. CASE d = c
    <3>1. line.result = result
      OBVIOUS
    <3>2. \A l : <<l>> = <<line>> => l = line
      OBVIOUS
    <3>3. <<line>> # <<>>
      OBVIOUS
    <3> HIDE DEF line
    <3>4. \A l : <<l>> # <<>>
      OBVIOUS
    <3> QED BY <1>1, <1>3, <1>4, <1>6, <2>1, <3>1, <3>2, <3>3, <3>4
  <2>2. CASE d # c
    BY <1>2, <1>3, <2>2 DEF AuditInv, Shapes
  <2> QED BY <2>1, <2>2
<1>9. InOrder'
  BY <1>3 DEF AuditInv, InOrder, Turn
<1>10. MarkIsOwn'
  <2>1. flag'[req[c].task] = FALSE
    BY DEF AuditInv, AuditTypeOK, Leave
  <2>2. \A t \in Calls : t # req[c].task => flag'[t] = flag[t]
    BY DEF AuditInv, AuditTypeOK, Leave
  <2>3. ASSUME NEW t \in Calls, flag'[t]
        PROVE  \E d \in Calls : Running(d)' /\ req[d].task = t /\ optOut /\ req[d].matches
    <3>1. t # req[c].task
      BY <2>1, <2>3
    <3>2. PICK d \in Calls : Running(d) /\ req[d].task = t /\ optOut /\ req[d].matches
      BY <2>2, <2>3, <3>1 DEF AuditInv, MarkIsOwn
    <3> QED BY <1>3, <3>1, <3>2
  <2>4. ASSUME NEW d \in Calls, Running(d)', ~Broadcasts(d), Marking(d)
        PROVE  flag'[req[d].task]
    <3>1. d # c
      BY <1>3, <2>4
    <3>2. Running(d) /\ req[d].task \in Calls
      BY <1>3, <2>4, <3>1 DEF AuditInv, AuditTypeOK
    <3>3. req[d].task # req[c].task
      BY <3>1, <3>2, AloneOnItsTask
    <3>4. flag[req[d].task]
      BY <2>4, <3>2 DEF AuditInv, MarkIsOwn
    <3> QED BY <2>2, <3>2, <3>3, <3>4
  <2> QED BY <2>3, <2>4, RequestsStay DEF MarkIsOwn
<1>11. LinesMarked'
  <2> SUFFICES ASSUME NEW d \in Calls, NEW l \in ALine, lines'[d] = <<l>>
               PROVE  /\ l.bypass => optOut /\ req[d].matches
                      /\ Marking(d) /\ (\E r \in ran : r.call = d) => l.bypass
    BY RequestsStay DEF LinesMarked
  <2>1. CASE d = c
    <3>1. l = line
      BY <1>6, <2>1
    <3> QED BY <2>1, <3>1
  <2>2. CASE d # c
    BY <1>2, <2>2 DEF AuditInv, LinesMarked
  <2> QED BY <2>1, <2>2
<1>12. RanStarted'
  BY <1>3 DEF AuditInv, RanStarted
<1> QED BY <1>7, <1>8, <1>9, <1>10, <1>11, <1>12 DEF AuditInv

\* A segment of a call: it ends, or goes on.
LEMMA Advancing ==
  ASSUME AuditInv, NEW c \in Calls, ended[c] = "no", NEW events, Turn(c, events),
         NEW n, NEW k, NEW o \in {"ok", "error", "cheatsheet"},
         NEW m \in BOOLEAN, m => optOut /\ req[c].matches,
         ~Broadcasts(c) /\ Marking(c) /\ o = "ok" /\ NextAwait(c, k) \in DOMAIN Plan(c) => m,
         ~Broadcasts(c) /\ Marking(c) /\ (\E r \in ran : r.call = c) => m,
         Advance(c, n, k, o, m, events), UNCHANGED <<req, optOut>>
  PROVE  AuditInv'
<1> DEFINE over == o # "ok" \/ NextAwait(c, k) \notin DOMAIN Plan(c)
<1>1. CASE over /\ ~Broadcasts(c)
  <2>1. Leave(c, o, m, events)
    BY <1>1 DEF Advance
  <2>2. ran' = ran
    <3>1. CASE o # "ok"
      BY <3>1 DEF Advance
    <3>2. CASE o = "ok"
      <4>1. Word(c, NextAwait(c, k)) = "none"
        BY <1>1, <3>2 DEF Word
      <4> QED BY <3>2, <4>1 DEF Advance, Commands
    <3> QED BY <3>1, <3>2
  <2>3. o \in Endings \ {"no"}
    BY DEF Endings
  <2> QED BY <1>1, <2>1, <2>2, <2>3, Leaving
<1>2. CASE ~(over /\ ~Broadcasts(c))
  <2>1. /\ sent' = [sent EXCEPT ![c] = @ \o events] /\ flag' = [flag EXCEPT ![req[c].task] = m]
        /\ UNCHANGED <<ended, lines>>
    BY <1>2 DEF Advance
  <2>2. \A r \in ran' : r \in ran \/ r.call = c
    <3>1. CASE o # "ok"
      BY <3>1 DEF Advance
    <3>2. CASE o = "ok"
      <4>1. PICK q : ran' = ran \/ ran' = ran \cup {[call |-> c, name |-> n, policy |-> q]}
        BY <3>2 DEF Advance
      <4> QED BY <4>1
    <3> QED BY <3>1, <3>2
  <2>3. ~Broadcasts(c) /\ Marking(c) => m
    BY <1>2
  <2> QED BY <2>1, <2>2, <2>3, GoingOn
<1> QED BY <1>1, <1>2

LEMMA BroadcastUnmarked ==
  ASSUME NEW c \in Calls, Broadcasts(c)
  PROVE  ~Marking(c)
BY CallsAssumption DEF Broadcasts, Marking, Words, Plan

LEMMA OutcomesAre ==
  ASSUME NEW c, NEW n, NEW k, NEW o \in Outcomes(c, n, k)
  PROVE  o \in {"ok", "error", "cheatsheet"}
BY DEF Outcomes

\* A call that may begin has not run anything, and no other runs on its task.
LEMMA Beginning ==
  ASSUME AuditInv, NEW c \in Calls, MayStart(c)
  PROVE  /\ ended[c] = "no" /\ Turn(c, <<"pre">>) /\ ~(\E r \in ran : r.call = c)
         /\ flag[req[c].task] = FALSE /\ req[c].task \in Calls
<1>1. ~Started(c) /\ \A d \in Calls : d < c /\ req[d].task = req[c].task => Over(d)
  BY DEF MayStart, Over
<1>2. ended[c] = "no" /\ Turn(c, <<"pre">>)
  BY <1>1 DEF AuditInv, Shapes, Turn
<1>3. ~(\E r \in ran : r.call = c)
  BY <1>1 DEF AuditInv, RanStarted
<1>4. req[c].task \in Calls /\ flag[req[c].task] \in BOOLEAN
  BY DEF AuditInv, AuditTypeOK
<1>5. ASSUME flag[req[c].task] PROVE FALSE
  <2>1. PICK d \in Calls : Running(d) /\ req[d].task = req[c].task
    BY <1>4, <1>5 DEF AuditInv, MarkIsOwn
  <2>2. d = c
    BY <1>2, <2>1, AloneOnItsTask
  <2> QED BY <1>1, <2>1, <2>2 DEF Running
<1> QED BY <1>2, <1>3, <1>4, <1>5

\* A call that runs carries its own mark.
LEMMA Continuing ==
  ASSUME AuditInv, NEW c \in Calls, Running(c)
  PROVE  /\ ended[c] = "no" /\ Turn(c, <<>>) /\ Bypass(c) \in BOOLEAN
         /\ Bypass(c) => optOut /\ req[c].matches
         /\ ~Broadcasts(c) /\ Marking(c) => Bypass(c)
<1>1. ended[c] = "no" /\ Turn(c, <<>>)
  BY DEF Running, Turn
<1>2. req[c].task \in Calls /\ Bypass(c) \in BOOLEAN
  BY DEF AuditInv, AuditTypeOK, Bypass
<1>3. ASSUME Bypass(c) PROVE optOut /\ req[c].matches
  <2>1. PICK d \in Calls : Running(d) /\ req[d].task = req[c].task /\ optOut /\ req[d].matches
    BY <1>2, <1>3 DEF AuditInv, MarkIsOwn, Bypass
  <2>2. d = c
    BY <1>1, <2>1, AloneOnItsTask
  <2> QED BY <2>1, <2>2
<1>4. ~Broadcasts(c) /\ Marking(c) => Bypass(c)
  BY DEF AuditInv, MarkIsOwn, Bypass
<1> QED BY <1>1, <1>2, <1>3, <1>4

LEMMA AuditStep == AuditInv /\ [Next]_vars => AuditInv'
<1> SUFFICES ASSUME AuditInv, [Next]_vars PROVE AuditInv'
  OBVIOUS
<1>1. ASSUME NEW c \in Calls, Enter(c) PROVE AuditInv'
  <2>0. PICK n : \E o \in Outcomes(c, n, 0) :
          Advance(c, n, 0, o, Matched(c, n, 0) /\ optOut, <<"pre">>)
    BY <1>1 DEF Enter
  <2>1. PICK o \in Outcomes(c, n, 0) : Advance(c, n, 0, o, Matched(c, n, 0) /\ optOut, <<"pre">>)
    BY <2>0
  <2>2. PICK m \in BOOLEAN : m = (Matched(c, n, 0) /\ optOut)
    OBVIOUS
  <2>3. MayStart(c) /\ UNCHANGED <<req, optOut>>
    BY <1>1 DEF Enter, Same
  <2>4. m => optOut /\ req[c].matches
    BY <2>2 DEF Matched
  <2>5. Marking(c) /\ o = "ok" /\ NextAwait(c, 0) \in DOMAIN Plan(c) => m
    <3> SUFFICES ASSUME Marking(c), o = "ok", NextAwait(c, 0) \in DOMAIN Plan(c) PROVE m
      OBVIOUS
    <3>1. ~(Matched(c, n, 0) /\ ~optOut) /\ \E p \in PolicyAt(c, n, 0) : TRUE
      BY DEF Outcomes
    <3> QED BY <2>2, <3>1 DEF Matched, Marking
  <2>6. Advance(c, n, 0, o, m, <<"pre">>)
    BY <2>1, <2>2
  <2>7. o \in {"ok", "error", "cheatsheet"}
    BY OutcomesAre
  <2>8. ended[c] = "no" /\ Turn(c, <<"pre">>) /\ ~(\E r \in ran : r.call = c)
    BY <2>3, Beginning
  <2> QED BY <2>3, <2>4, <2>5, <2>6, <2>7, <2>8, Advancing
<1>2. ASSUME NEW c \in Calls, EnterBroadcast(c) PROVE AuditInv'
  <2>1. MayStart(c) /\ Broadcasts(c) /\ UNCHANGED <<req, optOut, ran>>
    BY <1>2 DEF EnterBroadcast, Same
  <2>2. CASE Leave(c, "error", FALSE, <<"pre">>)
    BY <2>1, <2>2, Beginning, Leaving DEF Endings
  <2>3. CASE /\ sent' = [sent EXCEPT ![c] = <<"pre">>] /\ UNCHANGED <<ended, lines, flag>>
    <3>1. sent' = [sent EXCEPT ![c] = @ \o <<"pre">>]
      BY <2>1, <2>3, Beginning, SentOf
    <3>2. flag' = [flag EXCEPT ![req[c].task] = FALSE]
      BY <2>1, <2>3, Beginning DEF AuditInv, AuditTypeOK
    <3> QED BY <2>1, <2>3, <3>1, <3>2, Beginning, GoingOn
  <2> QED BY <1>2, <2>2, <2>3 DEF EnterBroadcast
<1>3. ASSUME NEW c \in Calls, Gathered(c) PROVE AuditInv'
  <2>1. /\ Running(c) /\ Broadcasts(c) /\ Leave(c, "ok", FALSE, <<>>)
        /\ UNCHANGED <<req, optOut, ran>>
    BY <1>3 DEF Gathered, Same
  <2> QED BY <2>1, Continuing, BroadcastUnmarked, Leaving DEF Endings
<1>4. ASSUME NEW c \in Calls, Cancel(c) PROVE AuditInv'
  <2>1. /\ Running(c) /\ Leave(c, "cancelled", Bypass(c), <<>>)
        /\ UNCHANGED <<req, optOut, ran>>
    BY <1>4 DEF Cancel, Same
  <2> QED BY <2>1, Continuing, BroadcastUnmarked, Leaving DEF Endings
<1>5. ASSUME NEW c \in Calls, HostList(c) PROVE AuditInv'
  <2>1. /\ MayStart(c) /\ Leave(c, "ok", FALSE, <<"pre">>)
        /\ UNCHANGED <<req, optOut, ran>>
    BY <1>5 DEF HostList, Same
  <2> QED BY <2>1, Beginning, Leaving DEF Endings
<1>6. ASSUME NEW c \in Calls, HostReload(c) PROVE AuditInv'
  <2>1. PICK how \in {"ok", "error"} : Leave(c, how, FALSE, <<"pre">>)
    BY <1>6 DEF HostReload
  <2>2. MayStart(c) /\ UNCHANGED <<req, optOut, ran>>
    BY <1>6 DEF HostReload
  <2> QED BY <2>1, <2>2, Beginning, Leaving DEF Endings
<1>7. ASSUME NEW c \in Calls, NEW n, StartOne(c, n) PROVE AuditInv'
  <2>1. PICK o \in Outcomes(c, n, 0) : Advance(c, n, 0, o, FALSE, <<>>)
    BY <1>7 DEF StartOne
  <2>2. Running(c) /\ Broadcasts(c) /\ UNCHANGED <<req, optOut>>
    BY <1>7 DEF StartOne, Same
  <2> QED BY <2>1, <2>2, Continuing, OutcomesAre, Advancing
<1>8. ASSUME NEW c \in Calls, NEW n, Answered(c, n) PROVE AuditInv'
  <2>1. PICK o \in Outcomes(c, n, pc[c][n]) : Advance(c, n, pc[c][n], o, Bypass(c), <<>>)
    BY <1>8 DEF Answered
  <2>2. Running(c) /\ UNCHANGED <<req, optOut>>
    BY <1>8 DEF Answered, At
  <2> QED BY <2>1, <2>2, Continuing, OutcomesAre, Advancing
<1>9. ASSUME NEW c \in Calls, NEW n, Raises(c, n) \/ Unreachable(c, n) PROVE AuditInv'
  <2>1. PICK o \in {"ok", "error"} : Advance(c, n, pc[c][n], o, Bypass(c), <<>>)
    BY <1>9 DEF Raises, Unreachable
  <2>2. Running(c) /\ UNCHANGED <<req, optOut>>
    BY <1>9 DEF Raises, Unreachable, At, Same
  <2> QED BY <2>1, <2>2, Continuing, Advancing
<1>10. CASE UNCHANGED callVars
  <2>1. UNCHANGED <<req, optOut, ended, sent, lines, flag, ran>>
    BY <1>10 DEF callVars
  <2>2. \A c : (Started(c)' <=> Started(c)) /\ (Running(c)' <=> Running(c)) /\ (Over(c)' <=> Over(c))
    BY <2>1 DEF Started, Running, Over
  <2>3. AuditTypeOK' /\ Shapes' /\ InOrder' /\ RanStarted'
    BY <2>1, <2>2 DEF AuditInv, AuditTypeOK, Shapes, InOrder, RanStarted
  <2>4. MarkIsOwn' /\ LinesMarked'
    BY <2>1, <2>2, RequestsStay DEF AuditInv, MarkIsOwn, LinesMarked
  <2> QED BY <2>3, <2>4 DEF AuditInv
<1>11. CASE CallNext
  BY <1>1, <1>2, <1>3, <1>4, <1>5, <1>6, <1>7, <1>8, <1>9, <1>11 DEF CallNext
<1> QED BY <1>10, <1>11 DEF Next, vars

\* Whatever the tools and their plans, however many calls and tasks, at whatever
\* await they fail or are cancelled: each leaves its one line with its own
\* outcome and its own mark, between its pair of events.
THEOREM AuditAlwaysTruthful == Spec => []AuditTruthful
<1> QED BY AuditInit, AuditStep, AuditInvTruthful, PTL DEF Spec

-----------------------------------------------------------------------------
(* The answers *)

Results == {"none", "ok", "error", "cheatsheet"}
Names(c) == req[c].names
Stays(c, n) == <<c, n>> \notin moved
Admitted(c, p) == "allowed" \in Words(c, 0) => CheckCommand(p, req[c].program)

\* What the requests are, and that no call begins before the registry is loaded.
RequestsOK ==
  /\ \A c \in Calls :
       /\ req[c].tool \in DOMAIN Plans
       /\ ~Broadcasts(c) => \A m, n \in Names(c) : m = n
       /\ req[c].tool \in {"ssh_host_list", "ssh_host_reload"} => Names(c) = {}
  /\ phase = "start" => \A c \in Calls : ~Started(c)

LocalsOK ==
  /\ DOMAIN pc = Calls /\ DOMAIN res = Calls /\ DOMAIN pol = Calls
  /\ DOMAIN shown = Calls /\ DOMAIN approved = Calls
  /\ \A c \in Calls :
       /\ pc[c] \in [Names(c) -> Nat] /\ res[c] \in [Names(c) -> Results]
       /\ DOMAIN pol[c] = Names(c) /\ DOMAIN shown[c] = Names(c) /\ DOMAIN approved[c] = Names(c)

\* A call that has not begun has nothing.
NothingYet(c) ==
  ~Started(c) => \A n \in Names(c) :
    /\ pc[c][n] = 0 /\ res[c][n] = "none" /\ pol[c][n] = NoPolicy
    /\ shown[c][n] = NoName /\ approved[c][n] = NoName

\* What has ended does not wait for anything, and has its outcome.
EndsClean(c) ==
  \A n \in Names(c) :
    /\ res[c][n] # "none" \/ ended[c] # "no" => pc[c][n] = 0
    /\ ended[c] = "ok" => res[c][n] \in {"ok", "error"}
    /\ Broadcasts(c) => res[c][n] # "cheatsheet"

\* The policy that a part of a running call has is allowed, has passed the gates
\* that the part is past, and is still the one its name stands for.
PolicyHeld(c) ==
  \A n \in Names(c) : Running(c) /\ (pc[c][n] > 0 \/ Broadcasts(c)) =>
    /\ CheckPolicy(pol[c][n])
    /\ pc[c][n] > 0 => Admitted(c, pol[c][n])
    /\ Stays(c, n) => pol[c][n] \in Resolve(hosts, n)
    /\ Stays(c, n) => \A j \in DOMAIN Plan(c) :
         j < pc[c][n] /\ Plan(c)[j] = "posix" => RequirePosix(pol[c][n])

\* So is the host that its result names, and the one its path was approved on.
HostsHeld(c) ==
  \A n \in Names(c) : Running(c) /\ Stays(c, n) =>
    \A h \in {shown[c][n], approved[c][n]} :
      h = NoName \/ \E p \in Resolve(hosts, n) : h = p.hostname

\* The commands of a call: the gates they passed, and the host they went to.
CommandsHeld(c) ==
  \A r \in ran : r.call = c =>
    /\ r.name \in Names(c) /\ CheckPolicy(r.policy) /\ Admitted(c, r.policy)
    /\ Stays(c, r.name) =>
         /\ shown[c][r.name] \in {r.policy.hostname, NoName}
         /\ approved[c][r.name] \in {r.policy.hostname, NoName}
         /\ "posix" \in Range(Plan(c)) => RequirePosix(r.policy)
         /\ Running(c) => r.policy \in Resolve(hosts, r.name)

CallTruthful(c) ==
  NothingYet(c) /\ EndsClean(c) /\ PolicyHeld(c) /\ HostsHeld(c) /\ CommandsHeld(c)

AnswersInv == RequestsOK /\ LocalsOK /\ \A c \in Calls : CallTruthful(c)

LEMMA AnswersInvTruthful == AuditInv /\ AnswersInv => AnswersTruthful
<1> SUFFICES ASSUME AuditInv, AnswersInv PROVE AnswersTruthful
  OBVIOUS
<1>1. \A x \in Parts : /\ ended[x[1]] = "ok" => res[x[1]][x[2]] \in {"ok", "error"}
                       /\ ended[x[1]] # "no" => pc[x[1]][x[2]] = 0
  BY DEF AnswersInv, CallTruthful, EndsClean, Parts, Names
<1>2. ASSUME NEW r \in ran
      PROVE  /\ CheckPolicy(r.policy)
             /\ "allowed" \in Words(r.call, 0) => CheckCommand(r.policy, req[r.call].program)
             /\ <<r.call, r.name>> \notin moved =>
                  /\ shown[r.call][r.name] \in {r.policy.hostname, NoName}
                  /\ approved[r.call][r.name] \in {r.policy.hostname, NoName}
                  /\ "posix" \in Range(Plan(r.call)) => RequirePosix(r.policy)
  <2>1. r.call \in Calls
    BY DEF AuditInv, RanStarted
  <2> QED BY <2>1 DEF AnswersInv, CallTruthful, CommandsHeld, Admitted, Stays
<1> QED BY <1>1, <1>2 DEF AnswersTruthful

\* A name stands for one policy.
LEMMA ResolveOne ==
  ASSUME NEW registry, NEW name, NEW p \in Resolve(registry, name), NEW q \in Resolve(registry, name)
  PROVE  p = q
<1>1. p \in Locate(registry, name) /\ q \in Locate(registry, name)
  BY DEF Resolve
<1>2. CASE name \in Aliases(registry)
  BY <1>1, <1>2 DEF Locate
<1>3. CASE name \notin Aliases(registry) /\ Named(registry, name) # {}
  <2>1. Locate(registry, name) = {CHOOSE x \in Named(registry, name) : TRUE}
    BY <1>3 DEF Locate
  <2> QED BY <1>1, <2>1, Zenon
<1>4. CASE name \notin Aliases(registry) /\ Named(registry, name) = {}
  BY <1>1, <1>4 DEF Locate
<1> QED BY <1>2, <1>3, <1>4

\* A set of naturals that is not empty has a least element.
LEMMA LeastNatural ==
  ASSUME NEW S \in SUBSET Nat, S # {}
  PROVE  \E x \in S : \A y \in S : x <= y
<1> DEFINE R == OpToRel(<, Nat)
<1>1. PICK x \in S : \A y \in S : ~(<<y, x>> \in R)
  BY NatLessThanWellFounded, WFMin
<1>2. \A y \in S : ~(y < x)
  BY <1>1 DEF OpToRel
<1> QED BY <1>2

\* The plan of a call is that of a tool.
LEMMA PlanWritten ==
  ASSUME AnswersInv, NEW c \in Calls
  PROVE  /\ Plan(c) \in Seq(HandlerWords)
         /\ \A i \in DOMAIN Plan(c) : Plan(c)[i] = "name" => i > 1 /\ Plan(c)[i - 1] = "resolve"
         /\ \A i, j \in DOMAIN Plan(c) : Plan(c)[i] \in Commands /\ Plan(c)[j] = "posix" =>
              \E l \in DOMAIN Plan(c) : l < i /\ Plan(c)[l] = "posix"
         /\ \A i, j, l \in DOMAIN Plan(c) :
              i < j /\ j < l /\ Plan(c)[i] = "allowed" /\ Plan(c)[j] \in Awaits => Plan(c)[l] # "resolve"
         /\ \A i \in DOMAIN Plan(c) : Plan(c)[i] = "try" => i = Len(Plan(c))
BY PlansAssumption DEF AnswersInv, RequestsOK, Plan

\* A handler runs from an await to the next one.
LEMMA NextAwaitIs ==
  ASSUME AnswersInv, NEW c \in Calls, NEW k \in Nat, k <= Len(Plan(c))
  PROVE  /\ NextAwait(c, k) \in Nat /\ k < NextAwait(c, k)
         /\ NextAwait(c, k) \in DOMAIN Plan(c) => Plan(c)[NextAwait(c, k)] \in Awaits
         /\ \A i \in DOMAIN Plan(c) : k < i /\ Plan(c)[i] \in Awaits => NextAwait(c, k) <= i
         /\ \A j \in DOMAIN Plan(c) : k < j /\ j < NextAwait(c, k) => Plan(c)[j] \in Words(c, k)
<1> DEFINE later == {i \in DOMAIN Plan(c) : i > k /\ Plan(c)[i] \in Awaits}
<1>1. DOMAIN Plan(c) = 1 .. Len(Plan(c)) /\ Len(Plan(c)) \in Nat
  BY PlanWritten
<1>2. \A j \in DOMAIN Plan(c) : k < j /\ j < NextAwait(c, k) => Plan(c)[j] \in Words(c, k)
  BY DEF Words
<1>3. CASE later = {}
  <2>1. NextAwait(c, k) = Len(Plan(c)) + 1
    BY <1>3 DEF NextAwait
  <2> QED BY <1>1, <1>2, <1>3, <2>1
<1>4. CASE later # {}
  <2>1. later \in SUBSET Nat
    BY <1>1
  <2>2. \E i \in later : \A j \in later : i <= j
    BY <1>4, <2>1, LeastNatural
  <2>3. NextAwait(c, k) = CHOOSE i \in later : \A j \in later : i <= j
    BY <1>4 DEF NextAwait
  <2>4. NextAwait(c, k) \in later /\ \A j \in later : NextAwait(c, k) <= j
    BY <2>2, <2>3
  <2> QED BY <1>1, <1>2, <2>4
<1> QED BY <1>3, <1>4

\* Where a part of a call is: it begins, or it is at an await.
Here(c, n, k) ==
  /\ n \in Names(c) /\ res[c][n] = "none" /\ pc[c][n] = k /\ k \in Nat /\ k <= Len(Plan(c))
  /\ k > 0 => k \in DOMAIN Plan(c) /\ Plan(c)[k] \in Awaits
  /\ IF k > 0 \/ Broadcasts(c) THEN Running(c) ELSE ~Started(c)

\* The policy a segment goes on with is held in the sense of PolicyHeld.
LEMMA SegmentPolicy ==
  ASSUME AnswersInv, NEW c \in Calls, NEW n, NEW k, Here(c, n, k),
         NEW p \in PolicyAt(c, n, k), Gates(c, n, k, p), NextAwait(c, k) \in DOMAIN Plan(c)
  PROVE  /\ CheckPolicy(p) /\ Admitted(c, p)
         /\ Stays(c, n) => p \in Resolve(hosts, n)
         /\ Stays(c, n) => \A j \in DOMAIN Plan(c) :
              j < NextAwait(c, k) /\ Plan(c)[j] = "posix" => RequirePosix(p)
<1>1. k \in Nat /\ k <= Len(Plan(c)) /\ n \in Names(c) /\ pc[c][n] = k
  BY DEF Here
<1>2. DOMAIN Plan(c) = 1 .. Len(Plan(c)) /\ Len(Plan(c)) \in Nat
  BY PlanWritten
<1>3. \A j \in DOMAIN Plan(c) : Plan(c)[j] = "posix" /\ k < j /\ j < NextAwait(c, k) => RequirePosix(p)
  BY <1>1, NextAwaitIs DEF Gates
<1>4. \A j \in DOMAIN Plan(c) : Plan(c)[j] = "posix" => j # k
  BY DEF Here, Awaits, Commands
<1>5. k > 0 \/ Broadcasts(c) =>
        /\ CheckPolicy(pol[c][n])
        /\ k > 0 => Admitted(c, pol[c][n])
        /\ Stays(c, n) => pol[c][n] \in Resolve(hosts, n)
        /\ Stays(c, n) => \A j \in DOMAIN Plan(c) :
             j < k /\ Plan(c)[j] = "posix" => RequirePosix(pol[c][n])
  BY <1>1 DEF Here, AnswersInv, CallTruthful, PolicyHeld
<1>6. CASE "resolve" \in Words(c, k)
  <2>1. p \in Resolve(hosts, n) /\ CheckPolicy(p)
    BY <1>6 DEF PolicyAt, Resolve
  <2>2. Admitted(c, p)
    <3> SUFFICES ASSUME "allowed" \in Words(c, 0) PROVE CheckCommand(p, req[c].program)
      BY DEF Admitted
    <3>1. CASE k = 0
      BY <3>1 DEF Gates
    <3>2. CASE k > 0
      <4>1. PICK i \in DOMAIN Plan(c) : 0 < i /\ i < NextAwait(c, 0) /\ Plan(c)[i] = "allowed"
        BY DEF Words
      <4>2. PICK l \in DOMAIN Plan(c) : k < l /\ Plan(c)[l] = "resolve"
        BY <1>6 DEF Words
      <4>3. k \in DOMAIN Plan(c) /\ Plan(c)[k] \in Awaits
        BY <3>2 DEF Here
      <4>4. NextAwait(c, 0) \in Nat /\ NextAwait(c, 0) <= k
        BY <1>2, <3>2, <4>3, NextAwaitIs
      <4>5. i < k
        BY <1>1, <1>2, <4>1, <4>4
      <4> QED BY <4>1, <4>2, <4>3, <4>5, PlanWritten
    <3> QED BY <1>1, <3>1, <3>2
  <2>3. ASSUME Stays(c, n), NEW j \in DOMAIN Plan(c), j < NextAwait(c, k), Plan(c)[j] = "posix"
        PROVE  RequirePosix(p)
    <3>1. CASE k < j
      BY <1>3, <2>3, <3>1
    <3>2. CASE j < k
      <4>1. k > 0
        BY <1>1, <1>2, <3>2
      <4>2. p = pol[c][n]
        BY <1>5, <2>1, <2>3, <4>1, ResolveOne
      <4> QED BY <1>5, <2>3, <3>2, <4>1, <4>2
    <3> QED BY <1>1, <1>2, <1>4, <2>3, <3>1, <3>2
  <2> QED BY <2>1, <2>2, <2>3
<1>7. CASE "resolve" \notin Words(c, k)
  <2>1. p = pol[c][n] /\ p # NoPolicy
    BY <1>7 DEF PolicyAt
  <2>2. k > 0 \/ Broadcasts(c)
    BY <1>1, <2>1 DEF Here, AnswersInv, CallTruthful, NothingYet
  <2>3. Admitted(c, p)
    <3>1. CASE k = 0
      BY <3>1 DEF Gates, Admitted
    <3> QED BY <1>1, <1>5, <2>1, <2>2, <3>1
  <2>4. ASSUME Stays(c, n), NEW j \in DOMAIN Plan(c), j < NextAwait(c, k), Plan(c)[j] = "posix"
        PROVE  RequirePosix(p)
    <3>1. CASE k < j
      BY <1>3, <2>4, <3>1
    <3>2. CASE j < k
      BY <1>5, <2>1, <2>2, <2>4, <3>2
    <3> QED BY <1>1, <1>2, <1>4, <2>4, <3>1, <3>2
  <2> QED BY <1>5, <2>1, <2>2, <2>3, <2>4
<1> QED BY <1>6, <1>7

\* What is said of a call depends on its request only.
LEMMA PlansStay ==
  ASSUME req' = req
  PROVE  /\ \A c : Plan(c)' = Plan(c) /\ Names(c)' = Names(c) /\ (Broadcasts(c)' <=> Broadcasts(c))
         /\ \A c, p : Admitted(c, p)' <=> Admitted(c, p)
BY DEF Plan, Names, Broadcasts, Admitted, Words, NextAwait

\* A step of another call, a reload or the registry's load leaves a call as it
\* was, if it leaves its names or marks those it moves.
LEMMA OthersStay ==
  ASSUME NEW d \in Calls, CallTruthful(d), req' = req,
         pc'[d] = pc[d], pol'[d] = pol[d], res'[d] = res[d], shown'[d] = shown[d],
         approved'[d] = approved[d], ended'[d] = ended[d], sent'[d] = sent[d],
         \A r \in ran' : r.call = d => r \in ran,
         moved \subseteq moved',
         Running(d) => \A n \in Names(d) : <<d, n>> \notin moved' => Resolve(hosts', n) = Resolve(hosts, n)
  PROVE  CallTruthful(d)'
<1> USE PlansStay
<1>1. (Started(d)' <=> Started(d)) /\ (Running(d)' <=> Running(d))
  BY DEF Started, Running
<1>2. \A n : Stays(d, n)' => Stays(d, n)
  BY DEF Stays
<1>3. Running(d) => \A n \in Names(d) : Stays(d, n)' => Resolve(hosts', n) = Resolve(hosts, n)
  BY DEF Stays
<1>4. NothingYet(d)' /\ EndsClean(d)'
  BY <1>1 DEF CallTruthful, NothingYet, EndsClean
<1>5. PolicyHeld(d)'
  BY <1>1, <1>2, <1>3 DEF CallTruthful, PolicyHeld
<1>6. HostsHeld(d)'
  BY <1>1, <1>2, <1>3 DEF CallTruthful, HostsHeld
<1>7. CommandsHeld(d)'
  BY <1>1, <1>2, <1>3 DEF CallTruthful, CommandsHeld
<1> QED BY <1>4, <1>5, <1>6, <1>7 DEF CallTruthful

\* Setting the entry of one host of one call.
LEMMA EntrySet ==
  ASSUME NEW c \in Calls, NEW n, NEW f, NEW v, DOMAIN f = Calls, n \in DOMAIN f[c],
         NEW g, g = [f EXCEPT ![c][n] = v]
  PROVE  /\ DOMAIN g = Calls /\ \A d \in Calls : d # c => g[d] = f[d]
         /\ DOMAIN g[c] = DOMAIN f[c] /\ g[c][n] = v /\ \A m \in DOMAIN f[c] : m # n => g[c][m] = f[c][m]
OBVIOUS

\* The part of a call is over, or waits again.
Finishes(c, k, o) == o # "ok" \/ NextAwait(c, k) \notin DOMAIN Plan(c)

\* What a segment does to the entries of its part and to those of the others.
LEMMA SegmentSets ==
  ASSUME AnswersInv, NEW c \in Calls, NEW n \in Names(c), NEW k, NEW o \in {"ok", "error", "cheatsheet"}, NEW m, NEW events,
         Advance(c, n, k, o, m, events),
         NextAwait(c, k) \in Nat, req' = req
  PROVE  /\ LocalsOK'
         /\ \A d \in Calls : d # c =>
              /\ pc'[d] = pc[d] /\ pol'[d] = pol[d] /\ res'[d] = res[d]
              /\ shown'[d] = shown[d] /\ approved'[d] = approved[d]
         /\ \A x \in Names(c) : x # n =>
              /\ pc'[c][x] = pc[c][x] /\ pol'[c][x] = pol[c][x] /\ res'[c][x] = res[c][x]
              /\ shown'[c][x] = shown[c][x] /\ approved'[c][x] = approved[c][x]
         /\ pc'[c][n] = IF Finishes(c, k, o) THEN 0 ELSE NextAwait(c, k)
         /\ res'[c][n] = IF Finishes(c, k, o) THEN o ELSE res[c][n]
         /\ \A r \in ran' : r \in ran \/ r.call = c
<1> DEFINE p == CHOOSE q \in PolicyAt(c, n, k) : TRUE
           over == Finishes(c, k, o)
<1> USE PlansStay DEF Finishes
<1>1. /\ DOMAIN pc = Calls /\ DOMAIN res = Calls /\ DOMAIN pol = Calls
      /\ DOMAIN shown = Calls /\ DOMAIN approved = Calls
      /\ \A d \in Calls :
         /\ pc[d] \in [Names(d) -> Nat] /\ res[d] \in [Names(d) -> Results]
         /\ DOMAIN pol[d] = Names(d) /\ DOMAIN shown[d] = Names(d) /\ DOMAIN approved[d] = Names(d)
  BY DEF AnswersInv, LocalsOK
<1>2. PICK v \in Nat : v = IF over THEN 0 ELSE NextAwait(c, k)
  OBVIOUS
<1>3. /\ DOMAIN pc' = Calls /\ \A d \in Calls : d # c => pc'[d] = pc[d]
      /\ DOMAIN pc'[c] = Names(c) /\ pc'[c][n] = v /\ \A x \in Names(c) : x # n => pc'[c][x] = pc[c][x]
  <2>1. pc' = [pc EXCEPT ![c][n] = v]
    BY <1>2 DEF Advance
  <2> QED BY <1>1, <2>1, EntrySet
<1>4. /\ DOMAIN res' = Calls /\ \A d \in Calls : d # c => res'[d] = res[d]
      /\ DOMAIN res'[c] = Names(c) /\ res'[c][n] = (IF over THEN o ELSE res[c][n])
      /\ \A x \in Names(c) : x # n => res'[c][x] = res[c][x]
  <2>1. over => res' = [res EXCEPT ![c][n] = o]
    BY DEF Advance
  <2>2. ~over => res' = res
    BY DEF Advance
  <2>3. CASE over
    BY <1>1, <2>1, <2>3, EntrySet
  <2>4. CASE ~over
    BY <1>1, <2>2, <2>4
  <2> QED BY <2>3, <2>4
<1>5. /\ DOMAIN pol' = Calls /\ \A d \in Calls : d # c => pol'[d] = pol[d]
      /\ DOMAIN pol'[c] = Names(c) /\ \A x \in Names(c) : x # n => pol'[c][x] = pol[c][x]
  <2>1. pol' = pol \/ pol' = [pol EXCEPT ![c][n] = p]
    BY DEF Advance
  <2>2. CASE pol' = pol
    BY <1>1, <2>2
  <2>3. CASE pol' = [pol EXCEPT ![c][n] = p]
    <3> HIDE DEF p
    <3> QED BY <1>1, <2>3, EntrySet
  <2> QED BY <2>1, <2>2, <2>3
<1>6. /\ DOMAIN shown' = Calls /\ \A d \in Calls : d # c => shown'[d] = shown[d]
      /\ DOMAIN shown'[c] = Names(c) /\ \A x \in Names(c) : x # n => shown'[c][x] = shown[c][x]
  <2>1. shown' = shown \/ shown' = [shown EXCEPT ![c][n] = p.hostname]
    BY DEF Advance
  <2>2. CASE shown' = shown
    BY <1>1, <2>2
  <2>3. CASE shown' = [shown EXCEPT ![c][n] = p.hostname]
    <3> HIDE DEF p
    <3> QED BY <1>1, <2>3, EntrySet
  <2> QED BY <2>1, <2>2, <2>3
<1>7. /\ DOMAIN approved' = Calls /\ \A d \in Calls : d # c => approved'[d] = approved[d]
      /\ DOMAIN approved'[c] = Names(c) /\ \A x \in Names(c) : x # n => approved'[c][x] = approved[c][x]
  <2>1. approved' = approved \/ approved' = [approved EXCEPT ![c][n] = pol[c][n].hostname]
    BY DEF Advance
  <2>2. CASE approved' = approved
    BY <1>1, <2>2
  <2>3. CASE approved' = [approved EXCEPT ![c][n] = pol[c][n].hostname]
    BY <1>1, <2>3, EntrySet
  <2> QED BY <2>1, <2>2, <2>3
<1>8. \A r \in ran' : r \in ran \/ r.call = c
  <2>1. ran' = ran \/ ran' = ran \cup {[call |-> c, name |-> n, policy |-> p]}
    BY DEF Advance
  <2> QED BY <2>1
<1>9. LocalsOK'
  <2>1. ASSUME NEW d \in Calls
        PROVE  /\ pc'[d] \in [Names(d) -> Nat] /\ res'[d] \in [Names(d) -> Results]
               /\ DOMAIN pol'[d] = Names(d) /\ DOMAIN shown'[d] = Names(d) /\ DOMAIN approved'[d] = Names(d)
    <3>1. CASE d # c
      BY <1>1, <1>3, <1>4, <1>5, <1>6, <1>7, <3>1
    <3>2. CASE d = c
      <4>1. \A x \in Names(c) : pc'[c][x] \in Nat
        BY <1>1, <1>3
      <4>2. \A x \in Names(c) : res'[c][x] \in Results
        BY <1>1, <1>4 DEF Results
      <4>3. pc'[c] = [x \in Names(c) |-> pc'[c][x]] /\ res'[c] = [x \in Names(c) |-> res'[c][x]]
        BY <1>1 DEF Advance
      <4> QED BY <1>5, <1>6, <1>7, <3>2, <4>1, <4>2, <4>3
    <3> QED BY <3>1, <3>2
  <2> QED BY <1>3, <1>4, <1>5, <1>6, <1>7, <2>1 DEF LocalsOK
<1> QED BY <1>2, <1>3, <1>4, <1>5, <1>6, <1>7, <1>8, <1>9

\* A call that ended runs no more; any other goes on.
LEMMA SegmentFrame ==
  ASSUME AuditInv, NEW c \in Calls, ended[c] = "no", NEW events, Turn(c, events),
         NEW n, NEW k, NEW o \in {"ok", "error", "cheatsheet"}, NEW m, Advance(c, n, k, o, m, events)
  PROVE  /\ Started(c)'
         /\ IF Finishes(c, k, o) /\ ~Broadcasts(c)
            THEN ended'[c] = o /\ ~Running(c)' ELSE ended'[c] = "no" /\ Running(c)'
         /\ \A d \in Calls : d # c => sent'[d] = sent[d] /\ ended'[d] = ended[d]
<1> DEFINE over == Finishes(c, k, o)
<1> USE DEF Finishes
<1>1. sent[c] \o events = <<"pre">> /\ sent[c] \o events \o <<"post">> = <<"pre", "post">>
  BY SentOf
<1>2. DOMAIN sent = Calls /\ DOMAIN ended = Calls
  BY DEF AuditInv, AuditTypeOK
<1>3. CASE over /\ ~Broadcasts(c)
  <2>1. Leave(c, o, m, events)
    BY <1>3 DEF Advance
  <2>2. ended' = [ended EXCEPT ![c] = o] /\ sent' = [sent EXCEPT ![c] = <<"pre", "post">>]
    BY <1>1, <1>2, <2>1 DEF Leave
  <2> QED BY <1>2, <1>3, <2>2 DEF Started, Running
<1>4. CASE ~(over /\ ~Broadcasts(c))
  <2>1. sent' = [sent EXCEPT ![c] = <<"pre">>] /\ ended' = ended
    BY <1>1, <1>2, <1>4 DEF Advance
  <2> QED BY <1>2, <1>4, <2>1 DEF Started, Running
<1> QED BY <1>3, <1>4

\* The name of a result is that of a resolution in the same segment.
LEMMA NameResolved ==
  ASSUME AnswersInv, NEW c \in Calls, NEW n, NEW k, Here(c, n, k), "name" \in Words(c, k)
  PROVE  "resolve" \in Words(c, k)
<1>1. PICK i \in DOMAIN Plan(c) : k < i /\ i < NextAwait(c, k) /\ Plan(c)[i] = "name"
  BY DEF Words
<1>2. DOMAIN Plan(c) = 1 .. Len(Plan(c)) /\ Len(Plan(c)) \in Nat /\ i > 1 /\ Plan(c)[i - 1] = "resolve"
  BY <1>1, PlanWritten
<1>3. k \in Nat /\ k <= Len(Plan(c)) /\ k # i - 1 /\ NextAwait(c, k) \in Nat
  BY <1>1, <1>2, NextAwaitIs DEF Here, Awaits, Commands
<1>4. i - 1 \in DOMAIN Plan(c) /\ k < i - 1 /\ i - 1 < NextAwait(c, k)
  BY <1>1, <1>2, <1>3
<1> QED BY <1>2, <1>4, NextAwaitIs, <1>3

\* A segment of one part of a call keeps every call truthful.
LEMMA Segment ==
  ASSUME AuditInv, AnswersInv, NEW c \in Calls, ended[c] = "no", NEW events, Turn(c, events),
         NEW n, NEW k, Here(c, n, k), NEW o \in {"ok", "error", "cheatsheet"}, NEW m,
         Advance(c, n, k, o, m, events), UNCHANGED <<req, hosts, moved>>,
         Broadcasts(c) => o # "cheatsheet",
         o = "ok" /\ (NextAwait(c, k) \in DOMAIN Plan(c) \/ "resolve" \in Words(c, k)) =>
           \E p \in PolicyAt(c, n, k) : Gates(c, n, k, p)
  PROVE  LocalsOK' /\ \A d \in Calls : CallTruthful(d)'
<1> DEFINE next == NextAwait(c, k)
           over == Finishes(c, k, o)
           p == CHOOSE q \in PolicyAt(c, n, k) : TRUE
<1> USE PlansStay DEF Finishes
<1>1. n \in Names(c) /\ res[c][n] = "none" /\ pc[c][n] = k /\ k \in Nat /\ k <= Len(Plan(c))
  BY DEF Here
<1>2. next \in Nat /\ k < next
  BY <1>1, NextAwaitIs
<1>3. /\ LocalsOK'
      /\ \A d \in Calls : d # c =>
           /\ pc'[d] = pc[d] /\ pol'[d] = pol[d] /\ res'[d] = res[d]
           /\ shown'[d] = shown[d] /\ approved'[d] = approved[d]
      /\ \A x \in Names(c) : x # n =>
           /\ pc'[c][x] = pc[c][x] /\ pol'[c][x] = pol[c][x] /\ res'[c][x] = res[c][x]
           /\ shown'[c][x] = shown[c][x] /\ approved'[c][x] = approved[c][x]
      /\ pc'[c][n] = (IF over THEN 0 ELSE next) /\ res'[c][n] = (IF over THEN o ELSE res[c][n])
      /\ \A r \in ran' : r \in ran \/ r.call = c
  BY <1>1, <1>2, SegmentSets
<1>4. /\ Started(c)'
      /\ IF over /\ ~Broadcasts(c) THEN ended'[c] = o /\ ~Running(c)' ELSE ended'[c] = "no" /\ Running(c)'
      /\ \A d \in Calls : d # c => sent'[d] = sent[d] /\ ended'[d] = ended[d]
  BY SegmentFrame
<1>5. CallTruthful(c) /\ (k > 0 \/ Broadcasts(c) => Running(c)) /\ (~(k > 0 \/ Broadcasts(c)) => ~Started(c))
  BY DEF AnswersInv, Here
<1>6. ~Broadcasts(c) => \A x \in Names(c) : x = n
  BY <1>1 DEF AnswersInv, RequestsOK
<1>7. \A r \in ran : r.call = c => Running(c)
  BY <1>5 DEF AuditInv, RanStarted
<1>8. \A x : Stays(c, x)' <=> Stays(c, x)
  BY DEF Stays
\* The policy it goes on with.
<1>9. o = "ok" /\ (next \in DOMAIN Plan(c) \/ "resolve" \in Words(c, k)) =>
        p \in PolicyAt(c, n, k) /\ Gates(c, n, k, p)
  <2> SUFFICES ASSUME NEW q \in PolicyAt(c, n, k), Gates(c, n, k, q)
               PROVE  p \in PolicyAt(c, n, k) /\ Gates(c, n, k, p)
    OBVIOUS
  <2>1. p \in PolicyAt(c, n, k)
    OBVIOUS
  <2>2. \A x \in PolicyAt(c, n, k) : x = q
    BY ResolveOne DEF PolicyAt
  <2> QED BY <2>1, <2>2
<1>10. DOMAIN pol = Calls /\ DOMAIN shown = Calls /\ DOMAIN approved = Calls
       /\ DOMAIN pol[c] = Names(c) /\ DOMAIN shown[c] = Names(c) /\ DOMAIN approved[c] = Names(c)
  BY DEF AnswersInv, LocalsOK
<1>11. over => pol' = pol /\ ran' = ran
  <2>1. CASE o # "ok"
    BY <2>1 DEF Advance
  <2>2. CASE o = "ok" /\ over
    <3>1. Word(c, next) \notin Commands
      BY <2>2 DEF Word, Commands
    <3> QED BY <2>2, <3>1 DEF Advance
  <2> QED BY <2>1, <2>2
<1>12. ~over => /\ pol'[c][n] = p /\ CheckPolicy(p) /\ Admitted(c, p)
                /\ Stays(c, n) => p \in Resolve(hosts, n)
                /\ Stays(c, n) => \A j \in DOMAIN Plan(c) : j < next /\ Plan(c)[j] = "posix" => RequirePosix(p)
  <2> SUFFICES ASSUME ~over PROVE
        /\ pol'[c][n] = p /\ CheckPolicy(p) /\ Admitted(c, p)
        /\ Stays(c, n) => p \in Resolve(hosts, n)
        /\ Stays(c, n) => \A j \in DOMAIN Plan(c) : j < next /\ Plan(c)[j] = "posix" => RequirePosix(p)
    OBVIOUS
  <2>1. pol' = [pol EXCEPT ![c][n] = p]
    BY DEF Advance
  <2>2. p \in PolicyAt(c, n, k) /\ Gates(c, n, k, p)
    BY <1>9
  <2> HIDE DEF p
  <2>3. pol'[c][n] = p
    BY <1>1, <1>10, <2>1, EntrySet
  <2> QED BY <2>2, <2>3, SegmentPolicy
<1>13. Stays(c, n) => \A h \in {shown'[c][n], approved'[c][n]} :
         h = NoName \/ \E q \in Resolve(hosts, n) : h = q.hostname
  <2> SUFFICES ASSUME Stays(c, n)
               PROVE  /\ shown'[c][n] = NoName \/ \E q \in Resolve(hosts, n) : shown'[c][n] = q.hostname
                      /\ approved'[c][n] = NoName \/ \E q \in Resolve(hosts, n) : approved'[c][n] = q.hostname
    OBVIOUS
  <2>1. \A h \in {shown[c][n], approved[c][n]} :
          h = NoName \/ \E q \in Resolve(hosts, n) : h = q.hostname
    BY <1>1, <1>5 DEF CallTruthful, NothingYet, HostsHeld
  <2>2. ASSUME shown' = [shown EXCEPT ![c][n] = p.hostname], "name" \in Words(c, k), o = "ok"
        PROVE  \E q \in Resolve(hosts, n) : shown'[c][n] = q.hostname
    <3>1. "resolve" \in Words(c, k)
      BY <2>2, NameResolved
    <3>2. p \in Resolve(hosts, n)
      BY <1>9, <2>2, <3>1 DEF PolicyAt
    <3> HIDE DEF p
    <3>3. shown'[c][n] = p.hostname
      BY <1>1, <1>10, <2>2, EntrySet
    <3> QED BY <3>2, <3>3
  <2>3. ASSUME approved' = [approved EXCEPT ![c][n] = pol[c][n].hostname], Word(c, k) = "path"
        PROVE  \E q \in Resolve(hosts, n) : approved'[c][n] = q.hostname
    <3>1. k > 0
      <4>1. DOMAIN Plan(c) = 1 .. Len(Plan(c))
        BY PlanWritten
      <4> QED BY <1>1, <2>3, <4>1 DEF Word
    <3>2. pol[c][n] \in Resolve(hosts, n)
      BY <1>1, <1>5, <3>1 DEF CallTruthful, PolicyHeld
    <3>3. approved'[c][n] = pol[c][n].hostname
      BY <1>1, <1>10, <2>3, EntrySet
    <3> QED BY <3>2, <3>3
  <2>4. shown' = shown \/ (shown' = [shown EXCEPT ![c][n] = p.hostname] /\ "name" \in Words(c, k) /\ o = "ok")
    BY DEF Advance
  <2>5. approved' = approved
          \/ (approved' = [approved EXCEPT ![c][n] = pol[c][n].hostname] /\ Word(c, k) = "path")
    BY DEF Advance
  <2>6. shown'[c][n] = NoName \/ \E q \in Resolve(hosts, n) : shown'[c][n] = q.hostname
    BY <2>1, <2>2, <2>4
  <2>7. approved'[c][n] = NoName \/ \E q \in Resolve(hosts, n) : approved'[c][n] = q.hostname
    BY <2>1, <2>3, <2>5
  <2> QED BY <2>6, <2>7
<1>14. \A r \in ran' : r.call = c => r \in ran \/
         /\ r.name = n /\ CheckPolicy(r.policy) /\ Admitted(c, r.policy)
         /\ Stays(c, n) => r.policy \in Resolve(hosts, n)
         /\ Stays(c, n) /\ "posix" \in Range(Plan(c)) => RequirePosix(r.policy)
  <2> SUFFICES ASSUME NEW r \in ran', r \notin ran
               PROVE  /\ r.name = n /\ CheckPolicy(r.policy) /\ Admitted(c, r.policy)
                      /\ Stays(c, n) => r.policy \in Resolve(hosts, n)
                      /\ Stays(c, n) /\ "posix" \in Range(Plan(c)) => RequirePosix(r.policy)
    OBVIOUS
  <2>1. ~over /\ r.name = n /\ r.policy = p /\ Word(c, next) \in Commands
    <3>1. ~over
      BY <1>11
    <3>2. ran' = IF Word(c, next) \in Commands
                 THEN ran \cup {[call |-> c, name |-> n, policy |-> p]} ELSE ran
      BY <3>1 DEF Advance
    <3> HIDE DEF p
    <3>3. Word(c, next) \in Commands /\ r = [call |-> c, name |-> n, policy |-> p]
      BY <3>2
    <3> QED BY <3>1, <3>3
  <2>2. ASSUME Stays(c, n), "posix" \in Range(Plan(c)) PROVE RequirePosix(p)
    <3>1. PICK j \in DOMAIN Plan(c) : Plan(c)[j] = "posix"
      BY <2>2 DEF Range
    <3>2. next \in DOMAIN Plan(c) /\ Plan(c)[next] \in Commands
      BY <2>1 DEF Word
    <3>3. PICK l \in DOMAIN Plan(c) : l < next /\ Plan(c)[l] = "posix"
      BY <3>1, <3>2, PlanWritten
    <3> HIDE DEF p
    <3> QED BY <1>12, <2>1, <2>2, <3>3
  <2> HIDE DEF p
  <2> QED BY <1>12, <2>1, <2>2
<1> HIDE DEF p
<1>15. NothingYet(c)'
  BY <1>4 DEF NothingYet
<1>16. EndsClean(c)'
  <2> SUFFICES ASSUME NEW x \in Names(c)
               PROVE  /\ res'[c][x] # "none" \/ ended'[c] # "no" => pc'[c][x] = 0
                      /\ ended'[c] = "ok" => res'[c][x] \in {"ok", "error"}
                      /\ Broadcasts(c) => res'[c][x] # "cheatsheet"
    BY DEF EndsClean
  <2>1. CASE x = n
    BY <1>1, <1>3, <1>4, <2>1
  <2>2. CASE x # n
    BY <1>3, <1>4, <1>5, <1>6, <2>2 DEF CallTruthful, EndsClean
  <2> QED BY <2>1, <2>2
<1>17. PolicyHeld(c)'
  <2> SUFFICES ASSUME NEW x \in Names(c), Running(c)', pc'[c][x] > 0 \/ Broadcasts(c)
               PROVE  /\ CheckPolicy(pol'[c][x])
                      /\ pc'[c][x] > 0 => Admitted(c, pol'[c][x])
                      /\ Stays(c, x) => pol'[c][x] \in Resolve(hosts, x)
                      /\ Stays(c, x) => \A j \in DOMAIN Plan(c) :
                           j < pc'[c][x] /\ Plan(c)[j] = "posix" => RequirePosix(pol'[c][x])
    BY <1>8 DEF PolicyHeld
  <2>1. CASE x = n /\ ~over
    BY <1>3, <1>12, <2>1
  <2>2. CASE x = n /\ over
    <3>1. Broadcasts(c) /\ pc'[c][x] = 0 /\ pol' = pol
      BY <1>3, <1>11, <2>2
    <3>2. \A j \in DOMAIN Plan(c) : ~(j < 0)
      BY PlanWritten
    <3> QED BY <1>5, <3>1, <3>2 DEF CallTruthful, PolicyHeld
  <2>3. CASE x # n
    BY <1>3, <1>5, <1>6, <2>3 DEF CallTruthful, PolicyHeld
  <2> QED BY <2>1, <2>2, <2>3
<1>18. HostsHeld(c)'
  <2> SUFFICES ASSUME NEW x \in Names(c), Stays(c, x)
               PROVE  \A h \in {shown'[c][x], approved'[c][x]} :
                        h = NoName \/ \E q \in Resolve(hosts, x) : h = q.hostname
    BY <1>8 DEF HostsHeld
  <2>1. CASE x = n
    BY <1>13, <2>1
  <2>2. CASE x # n
    BY <1>3, <1>5, <1>6, <2>2 DEF CallTruthful, HostsHeld
  <2> QED BY <2>1, <2>2
<1>19. CommandsHeld(c)'
  <2> SUFFICES ASSUME NEW r \in ran', r.call = c
               PROVE  /\ r.name \in Names(c) /\ CheckPolicy(r.policy) /\ Admitted(c, r.policy)
                      /\ Stays(c, r.name) =>
                           /\ shown'[c][r.name] \in {r.policy.hostname, NoName}
                           /\ approved'[c][r.name] \in {r.policy.hostname, NoName}
                           /\ "posix" \in Range(Plan(c)) => RequirePosix(r.policy)
                           /\ r.policy \in Resolve(hosts, r.name)
    BY <1>8 DEF CommandsHeld
  <2>1. /\ r.name \in Names(c) /\ CheckPolicy(r.policy) /\ Admitted(c, r.policy)
        /\ Stays(c, r.name) => /\ r.policy \in Resolve(hosts, r.name)
                               /\ "posix" \in Range(Plan(c)) => RequirePosix(r.policy)
    <3>1. CASE r \in ran
      BY <1>5, <1>7, <3>1 DEF CallTruthful, CommandsHeld
    <3>2. CASE r \notin ran
      BY <1>1, <1>14, <3>2
    <3> QED BY <3>1, <3>2
  <2>2. ASSUME Stays(c, r.name)
        PROVE  \A h \in {shown'[c][r.name], approved'[c][r.name]} :
                 h = NoName \/ \E q \in Resolve(hosts, r.name) : h = q.hostname
    <3>1. CASE r.name = n
      BY <1>13, <2>2, <3>1
    <3>2. CASE r.name # n
      BY <1>3, <1>5, <1>6, <2>1, <2>2, <3>2 DEF CallTruthful, HostsHeld
    <3> QED BY <3>1, <3>2
  <2>3. ASSUME Stays(c, r.name)
        PROVE  \A h \in {shown'[c][r.name], approved'[c][r.name]} : h \in {r.policy.hostname, NoName}
    BY <2>1, <2>2, <2>3, ResolveOne
  <2> QED BY <2>1, <2>3
<1>20. CallTruthful(c)'
  BY <1>15, <1>16, <1>17, <1>18, <1>19 DEF CallTruthful
<1>21. ASSUME NEW d \in Calls, d # c PROVE CallTruthful(d)'
  <2>1. CallTruthful(d)
    BY DEF AnswersInv
  <2>2. \A r \in ran' : r.call = d => r \in ran
    BY <1>3, <1>21
  <2> QED BY <1>3, <1>4, <1>21, <2>1, <2>2, OthersStay
<1> QED BY <1>3, <1>20, <1>21

\* A call that leaves with nothing left to wait for.
LEMMA LeavesClean ==
  ASSUME AuditInv, AnswersInv, NEW c \in Calls, ended[c] = "no", NEW events, Turn(c, events),
         NEW how \in Endings \ {"no"}, NEW m, Leave(c, how, m, events),
         UNCHANGED <<req, pol, res, shown, approved, ran>>, moved \subseteq moved',
         DOMAIN pc' = Calls, \A d \in Calls : d # c => pc'[d] = pc[d],
         pc'[c] \in [Names(c) -> Nat], \A n \in Names(c) : pc'[c][n] = 0,
         how = "ok" => \A n \in Names(c) : res[c][n] \in {"ok", "error"},
         \A d \in Calls : Running(d) =>
           \A n \in Names(d) : <<d, n>> \notin moved' => Resolve(hosts', n) = Resolve(hosts, n)
  PROVE  LocalsOK' /\ \A d \in Calls : CallTruthful(d)'
<1> USE PlansStay
<1>1. sent[c] \o events \o <<"post">> = <<"pre", "post">>
  BY SentOf
<1>2. sent' = [sent EXCEPT ![c] = <<"pre", "post">>] /\ ended' = [ended EXCEPT ![c] = how]
  BY <1>1 DEF Leave, AuditInv, AuditTypeOK
<1>3. /\ Started(c)' /\ ~Running(c)' /\ ended'[c] = how
      /\ \A d \in Calls : d # c => sent'[d] = sent[d] /\ ended'[d] = ended[d]
  BY <1>2 DEF Started, Running, AuditInv, AuditTypeOK
<1>4. LocalsOK'
  BY DEF AnswersInv, LocalsOK
<1>5. CallTruthful(c) /\ \A x : Stays(c, x)' => Stays(c, x)
  BY DEF AnswersInv, Stays
<1>6. NothingYet(c)' /\ PolicyHeld(c)' /\ HostsHeld(c)'
  BY <1>3 DEF NothingYet, PolicyHeld, HostsHeld
<1>7. EndsClean(c)'
  BY <1>3, <1>5 DEF CallTruthful, EndsClean
<1>8. CommandsHeld(c)'
  BY <1>3, <1>5 DEF CallTruthful, CommandsHeld
<1>9. ASSUME NEW d \in Calls, d # c PROVE CallTruthful(d)'
  <2>1. CallTruthful(d)
    BY DEF AnswersInv
  <2> QED BY <1>3, <1>9, <2>1, OthersStay
<1> QED BY <1>4, <1>6, <1>7, <1>8, <1>9 DEF CallTruthful

\* A broadcast that has resolved all its hosts.
LEMMA BroadcastResolves ==
  ASSUME AuditInv, AnswersInv, NEW c \in Calls, MayStart(c), Broadcasts(c),
         \A n \in req[c].names : Resolve(hosts, n) # {},
         pol' = [pol EXCEPT ![c] = [n \in req[c].names |-> CHOOSE p \in Resolve(hosts, n) : TRUE]],
         shown' = [shown EXCEPT ![c] = [n \in req[c].names |-> pol'[c][n].hostname]],
         sent' = [sent EXCEPT ![c] = <<"pre">>],
         UNCHANGED <<req, hosts, moved, pc, res, approved, ran, ended>>
  PROVE  LocalsOK' /\ \A d \in Calls : CallTruthful(d)'
<1> USE PlansStay
<1>1. /\ DOMAIN pol = Calls /\ DOMAIN shown = Calls /\ DOMAIN sent = Calls
      /\ ended[c] = "no" /\ ~Started(c) /\ \A r \in ran : r.call # c
  BY Beginning DEF AuditInv, AuditTypeOK, AnswersInv, LocalsOK, MayStart
<1>2. /\ DOMAIN pol' = Calls /\ DOMAIN pol'[c] = Names(c) /\ \A d \in Calls : d # c => pol'[d] = pol[d]
      /\ \A n \in Names(c) : pol'[c][n] \in Resolve(hosts, n)
  BY <1>1 DEF Names
<1>3. /\ DOMAIN shown' = Calls /\ DOMAIN shown'[c] = Names(c)
      /\ \A d \in Calls : d # c => shown'[d] = shown[d]
      /\ \A n \in Names(c) : shown'[c][n] = pol'[c][n].hostname
  BY <1>1 DEF Names
<1>4. Started(c)' /\ Running(c)' /\ \A d \in Calls : d # c => sent'[d] = sent[d]
  BY <1>1 DEF Started, Running
<1>5. CallTruthful(c) /\ \A x : Stays(c, x)' <=> Stays(c, x)
  BY DEF AnswersInv, Stays
<1>6. \A n \in Names(c) : pc[c][n] = 0 /\ approved[c][n] = NoName
  BY <1>1, <1>5 DEF CallTruthful, NothingYet
<1>7. LocalsOK'
  BY <1>2, <1>3 DEF AnswersInv, LocalsOK
<1>8. NothingYet(c)' /\ EndsClean(c)'
  BY <1>4, <1>5 DEF CallTruthful, NothingYet, EndsClean
<1>9. PolicyHeld(c)'
  <2>1. \A j \in DOMAIN Plan(c) : ~(j < 0)
    BY PlanWritten
  <2>2. \A n \in Names(c) : CheckPolicy(pol'[c][n])
    BY <1>2 DEF Resolve
  <2>3. \A n \in Names(c) : pc'[c][n] = 0 /\ (Stays(c, n)' => pol'[c][n] \in Resolve(hosts', n))
    BY <1>2, <1>5, <1>6
  <2> SUFFICES ASSUME NEW n \in Names(c)
               PROVE  /\ CheckPolicy(pol'[c][n]) /\ ~(pc'[c][n] > 0)
                      /\ Stays(c, n)' => pol'[c][n] \in Resolve(hosts', n)
                      /\ \A j \in DOMAIN Plan(c) : ~(j < pc'[c][n])
    BY DEF PolicyHeld
  <2>4. pc'[c][n] = 0 /\ (Stays(c, n)' => pol'[c][n] \in Resolve(hosts', n))
    BY <2>3
  <2>5. ~(pc'[c][n] > 0) /\ \A j \in DOMAIN Plan(c) : ~(j < pc'[c][n])
    BY <2>1, <2>4
  <2> QED BY <2>2, <2>4, <2>5
<1>10. HostsHeld(c)' /\ CommandsHeld(c)'
  <2>1. HostsHeld(c)'
    <3> SUFFICES ASSUME NEW n \in Names(c), NEW h \in {shown'[c][n], approved'[c][n]}
                 PROVE  h = NoName \/ \E p \in Resolve(hosts', n) : h = p.hostname
      BY DEF HostsHeld
    <3> QED BY <1>2, <1>3, <1>6
  <2>2. CommandsHeld(c)'
    BY <1>1 DEF CommandsHeld
  <2> QED BY <2>1, <2>2
<1>11. ASSUME NEW d \in Calls, d # c PROVE CallTruthful(d)'
  <2>1. CallTruthful(d)
    BY DEF AnswersInv
  <2> QED BY <1>2, <1>3, <1>4, <1>11, <2>1, OthersStay
<1> QED BY <1>7, <1>8, <1>9, <1>10, <1>11 DEF CallTruthful

\* An outcome is that of the gates.
LEMMA OutcomeGates ==
  ASSUME NEW c \in Calls, NEW n, NEW k, NEW o \in Outcomes(c, n, k)
  PROVE  /\ o \in {"ok", "error", "cheatsheet"} /\ (Broadcasts(c) => o # "cheatsheet")
         /\ o = "ok" /\ (NextAwait(c, k) \in DOMAIN Plan(c) \/ "resolve" \in Words(c, k)) =>
              \E p \in PolicyAt(c, n, k) : Gates(c, n, k, p)
<1>1. Broadcasts(c) => ~Matched(c, n, k)
  BY CallsAssumption DEF Broadcasts, Matched, Words, Plan
<1> QED BY <1>1 DEF Outcomes

\* An await is at a place of the plan.
LEMMA AtAwait ==
  ASSUME AnswersInv, NEW c \in Calls, NEW n \in req[c].names, NEW words \in SUBSET Awaits, At(c, n, words)
  PROVE  Here(c, n, pc[c][n]) /\ Plan(c)[pc[c][n]] \in words /\ Running(c)
<1>1. Running(c) /\ pc[c][n] > 0 /\ Word(c, pc[c][n]) \in words
  BY DEF At
<1>2. pc[c][n] \in DOMAIN Plan(c) /\ Plan(c)[pc[c][n]] \in words
  BY <1>1 DEF Word, Awaits, Commands
<1>3. DOMAIN Plan(c) = 1 .. Len(Plan(c)) /\ Len(Plan(c)) \in Nat
  BY PlanWritten
<1>4. res[c][n] = "none"
  BY <1>1 DEF AnswersInv, CallTruthful, EndsClean, Names, LocalsOK
<1> QED BY <1>1, <1>2, <1>3, <1>4 DEF Here, Names

\* No call runs before the registry is loaded, and none of them unloads it.
LEMMA RequestsKept ==
  ASSUME AnswersInv, req' = req, phase' # "start"
  PROVE  RequestsOK'
BY PlansStay DEF AnswersInv, RequestsOK

LEMMA AnswersStep == AuditInv /\ AnswersInv /\ [Next]_vars => AnswersInv'
<1> SUFFICES ASSUME AuditInv, AnswersInv, [Next]_vars PROVE AnswersInv'
  OBVIOUS
<1>1. \A c \in Calls : MayStart(c) \/ Running(c) => phase # "start"
  BY DEF AnswersInv, RequestsOK, MayStart, Running
\* What begins or goes on in a segment.
<1>2. ASSUME NEW c \in Calls, NEW n, NEW k, Here(c, n, k), NEW o \in {"ok", "error", "cheatsheet"}, NEW m,
             NEW events, ended[c] = "no", Turn(c, events), Advance(c, n, k, o, m, events),
             UNCHANGED <<req, hosts, moved, phase>>, MayStart(c) \/ Running(c),
             Broadcasts(c) => o # "cheatsheet",
             o = "ok" /\ (NextAwait(c, k) \in DOMAIN Plan(c) \/ "resolve" \in Words(c, k)) =>
               \E p \in PolicyAt(c, n, k) : Gates(c, n, k, p)
      PROVE  AnswersInv'
  <2>1. LocalsOK' /\ \A d \in Calls : CallTruthful(d)'
    BY <1>2, Segment
  <2>2. RequestsOK'
    BY <1>1, <1>2, RequestsKept
  <2> QED BY <2>1, <2>2 DEF AnswersInv
<1>3. ASSUME NEW c \in Calls, Enter(c) PROVE AnswersInv'
  <2>1. PICK n \in req[c].names : \E o \in Outcomes(c, n, 0) :
          Advance(c, n, 0, o, Matched(c, n, 0) /\ optOut, <<"pre">>)
    BY <1>3 DEF Enter
  <2>2. PICK o \in Outcomes(c, n, 0) : Advance(c, n, 0, o, Matched(c, n, 0) /\ optOut, <<"pre">>)
    BY <2>1
  <2>3. MayStart(c) /\ ~Broadcasts(c) /\ UNCHANGED <<req, hosts, moved, phase>>
    BY <1>3 DEF Enter, Same, lifeVars
  <2>4. Here(c, n, 0)
    <3>1. ~Started(c) /\ Len(Plan(c)) \in Nat
      BY <2>3, PlanWritten DEF MayStart
    <3> QED BY <2>1, <2>3, <3>1 DEF Here, Names, AnswersInv, CallTruthful, NothingYet
  <2>5. PICK m \in BOOLEAN : m = (Matched(c, n, 0) /\ optOut)
    OBVIOUS
  <2>6. Advance(c, n, 0, o, m, <<"pre">>)
    BY <2>2, <2>5
  <2>7. /\ o \in {"ok", "error", "cheatsheet"} /\ (Broadcasts(c) => o # "cheatsheet")
        /\ o = "ok" /\ (NextAwait(c, 0) \in DOMAIN Plan(c) \/ "resolve" \in Words(c, 0)) =>
             \E p \in PolicyAt(c, n, 0) : Gates(c, n, 0, p)
    BY OutcomeGates
  <2>8. ended[c] = "no" /\ Turn(c, <<"pre">>)
    BY <2>3, Beginning
  <2> QED BY <1>2, <2>3, <2>4, <2>6, <2>7, <2>8
<1>4. ASSUME NEW c \in Calls, NEW n \in req[c].names, StartOne(c, n) PROVE AnswersInv'
  <2>1. PICK o \in Outcomes(c, n, 0) : Advance(c, n, 0, o, FALSE, <<>>)
    BY <1>4 DEF StartOne
  <2>2. /\ Running(c) /\ Broadcasts(c) /\ pc[c][n] = 0 /\ res[c][n] = "none"
        /\ UNCHANGED <<req, hosts, moved, phase>>
    BY <1>4 DEF StartOne, Same, lifeVars
  <2>3. Here(c, n, 0)
    BY <2>2, PlanWritten DEF Here, Names
  <2>4. PICK m : m = FALSE
    OBVIOUS
  <2>5. Advance(c, n, 0, o, m, <<>>)
    BY <2>1, <2>4
  <2>6. /\ o \in {"ok", "error", "cheatsheet"} /\ (Broadcasts(c) => o # "cheatsheet")
        /\ o = "ok" /\ (NextAwait(c, 0) \in DOMAIN Plan(c) \/ "resolve" \in Words(c, 0)) =>
             \E p \in PolicyAt(c, n, 0) : Gates(c, n, 0, p)
    BY OutcomeGates
  <2>7. ended[c] = "no" /\ Turn(c, <<>>)
    BY <2>2, Continuing
  <2> QED BY <1>2, <2>2, <2>3, <2>5, <2>6, <2>7
<1>5. ASSUME NEW c \in Calls, NEW n \in req[c].names, Answered(c, n) PROVE AnswersInv'
  <2>1. PICK o \in Outcomes(c, n, pc[c][n]) : Advance(c, n, pc[c][n], o, Bypass(c), <<>>)
    BY <1>5 DEF Answered
  <2>2. At(c, n, Awaits) /\ UNCHANGED <<req, hosts, moved, phase>>
    BY <1>5 DEF Answered
  <2>3. Here(c, n, pc[c][n]) /\ Running(c)
    BY <2>2, AtAwait
  <2> QED BY <1>2, <2>1, <2>2, <2>3, OutcomeGates, Continuing
<1>6. ASSUME NEW c \in Calls, NEW n \in req[c].names, Raises(c, n) PROVE AnswersInv'
  <2>1. /\ At(c, n, Awaits \ {"probes"}) /\ Advance(c, n, pc[c][n], "error", Bypass(c), <<>>)
        /\ UNCHANGED <<req, hosts, moved, phase>>
    BY <1>6 DEF Raises, Same, lifeVars
  <2>2. Here(c, n, pc[c][n]) /\ Running(c)
    BY <2>1, AtAwait
  <2> QED BY <1>2, <2>1, <2>2, Continuing
<1>7. ASSUME NEW c \in Calls, NEW n \in req[c].names, Unreachable(c, n) PROVE AnswersInv'
  <2>1. /\ At(c, n, {"try"}) /\ Advance(c, n, pc[c][n], "ok", Bypass(c), <<>>)
        /\ UNCHANGED <<req, hosts, moved, phase>>
    BY <1>7 DEF Unreachable, Same, lifeVars
  <2>2. Here(c, n, pc[c][n]) /\ Running(c) /\ Plan(c)[pc[c][n]] = "try"
    BY <2>1, AtAwait DEF Awaits
  <2>3. pc[c][n] = Len(Plan(c)) /\ DOMAIN Plan(c) = 1 .. Len(Plan(c)) /\ Len(Plan(c)) \in Nat
    BY <2>1, <2>2, PlanWritten DEF Here, At
  <2>4. NextAwait(c, pc[c][n]) \notin DOMAIN Plan(c) /\ "resolve" \notin Words(c, pc[c][n])
    BY <2>2, <2>3, NextAwaitIs DEF Here, Words
  <2> QED BY <1>2, <2>1, <2>2, <2>4, Continuing
\* What leaves at once.
<1>8. ASSUME NEW c \in Calls, NEW events, ended[c] = "no", Turn(c, events), MayStart(c) \/ Running(c),
             NEW how \in Endings \ {"no"}, NEW m, Leave(c, how, m, events),
             UNCHANGED <<req, pol, res, shown, approved, ran, phase>>, moved \subseteq moved',
             DOMAIN pc' = Calls, \A d \in Calls : d # c => pc'[d] = pc[d],
             pc'[c] \in [Names(c) -> Nat], \A n \in Names(c) : pc'[c][n] = 0,
             how = "ok" => \A n \in Names(c) : res[c][n] \in {"ok", "error"},
             \A d \in Calls : Running(d) =>
               \A n \in Names(d) : <<d, n>> \notin moved' => Resolve(hosts', n) = Resolve(hosts, n)
      PROVE  AnswersInv'
  <2>1. LocalsOK' /\ \A d \in Calls : CallTruthful(d)'
    BY <1>8, LeavesClean
  <2>2. RequestsOK'
    BY <1>1, <1>8, RequestsKept
  <2> QED BY <2>1, <2>2 DEF AnswersInv
<1>9. DOMAIN pc = Calls /\ \A c \in Calls : pc[c] \in [Names(c) -> Nat]
  BY DEF AnswersInv, LocalsOK
<1>10. \A c \in Calls : MayStart(c) => \A n \in Names(c) : pc[c][n] = 0
  BY DEF AnswersInv, CallTruthful, NothingYet, MayStart
<1>11. ASSUME NEW c \in Calls, EnterBroadcast(c) PROVE AnswersInv'
  <2>1. /\ MayStart(c) /\ Broadcasts(c)
        /\ UNCHANGED <<pc, res, approved, ran, req, hosts, moved, phase>>
    BY <1>11 DEF EnterBroadcast, Same, lifeVars
  <2>2. CASE \E n \in req[c].names : Resolve(hosts, n) = {}
    <3>1. Leave(c, "error", FALSE, <<"pre">>) /\ UNCHANGED <<pol, shown>>
      BY <1>11, <2>2 DEF EnterBroadcast
    <3>2. "error" \in Endings \ {"no"}
      BY DEF Endings
    <3> QED BY <1>8, <1>9, <1>10, <2>1, <3>1, <3>2, Beginning
  <2>3. CASE ~\E n \in req[c].names : Resolve(hosts, n) = {}
    <3>1. /\ pol' = [pol EXCEPT ![c] = [n \in req[c].names |-> CHOOSE p \in Resolve(hosts, n) : TRUE]]
          /\ shown' = [shown EXCEPT ![c] = [n \in req[c].names |-> pol'[c][n].hostname]]
          /\ sent' = [sent EXCEPT ![c] = <<"pre">>] /\ ended' = ended
      BY <1>11, <2>3 DEF EnterBroadcast
    <3>2. LocalsOK' /\ \A d \in Calls : CallTruthful(d)'
      BY <2>1, <2>3, <3>1, BroadcastResolves
    <3>3. RequestsOK'
      BY <1>1, <2>1, RequestsKept
    <3> QED BY <3>2, <3>3 DEF AnswersInv
  <2> QED BY <2>2, <2>3
<1>12. ASSUME NEW c \in Calls, Gathered(c) PROVE AnswersInv'
  <2>1. /\ Running(c) /\ Broadcasts(c) /\ Leave(c, "ok", FALSE, <<>>)
        /\ \A n \in Names(c) : res[c][n] # "none"
        /\ UNCHANGED <<pc, pol, res, shown, approved, ran, req, hosts, moved, phase>>
    BY <1>12 DEF Gathered, Same, lifeVars, Names
  <2>2. \A n \in Names(c) : pc[c][n] = 0 /\ res[c][n] \in {"ok", "error"}
    <3>1. \A n \in Names(c) : res[c][n] \in Results
      BY DEF AnswersInv, LocalsOK
    <3> QED BY <2>1, <3>1 DEF AnswersInv, CallTruthful, EndsClean, Results
  <2>3. "ok" \in Endings \ {"no"}
    BY DEF Endings
  <2> QED BY <1>8, <1>9, <2>1, <2>2, <2>3, Continuing
<1>13. ASSUME NEW c \in Calls, Cancel(c) PROVE AnswersInv'
  <2>1. /\ Running(c) /\ Leave(c, "cancelled", Bypass(c), <<>>)
        /\ pc' = [pc EXCEPT ![c] = [n \in req[c].names |-> 0]]
        /\ UNCHANGED <<pol, res, shown, approved, ran, req, hosts, moved, phase>>
    BY <1>13 DEF Cancel, Same, lifeVars
  <2>2. "cancelled" \in Endings \ {"no"}
    BY DEF Endings
  <2>3. /\ DOMAIN pc' = Calls /\ \A d \in Calls : d # c => pc'[d] = pc[d]
        /\ pc'[c] \in [Names(c) -> Nat] /\ \A n \in Names(c) : pc'[c][n] = 0
    BY <1>9, <2>1 DEF Names
  <2> QED BY <1>8, <2>1, <2>2, <2>3, Continuing
<1>14. ASSUME NEW c \in Calls, HostList(c) PROVE AnswersInv'
  <2>1. /\ MayStart(c) /\ req[c].tool = "ssh_host_list" /\ Leave(c, "ok", FALSE, <<"pre">>)
        /\ UNCHANGED <<pc, pol, res, shown, approved, ran, req, hosts, moved, phase>>
    BY <1>14 DEF HostList, Same, lifeVars
  <2>2. Names(c) = {} /\ "ok" \in Endings \ {"no"}
    BY <2>1 DEF AnswersInv, RequestsOK, Endings
  <2> QED BY <1>8, <1>9, <2>1, <2>2, Beginning
<1>15. ASSUME NEW c \in Calls, HostReload(c) PROVE AnswersInv'
  <2>1. /\ MayStart(c) /\ req[c].tool = "ssh_host_reload"
        /\ moved' = moved \cup {x \in Parts : Running(x[1]) /\ Resolve(hosts', x[2]) # Resolve(hosts, x[2])}
        /\ UNCHANGED <<pc, pol, res, shown, approved, ran, req, phase>>
    BY <1>15 DEF HostReload
  <2>2. PICK how \in {"ok", "error"} : Leave(c, how, FALSE, <<"pre">>)
    BY <1>15 DEF HostReload
  <2>3. Names(c) = {} /\ how \in Endings \ {"no"}
    BY <2>1 DEF AnswersInv, RequestsOK, Endings
  <2>4. ASSUME NEW d \in Calls, Running(d), NEW n \in Names(d), <<d, n>> \notin moved'
        PROVE  Resolve(hosts', n) = Resolve(hosts, n)
    <3>1. <<d, n>> \in Parts
      BY DEF Parts, Names
    <3> QED BY <2>1, <2>4, <3>1
  <2> QED BY <1>8, <1>9, <2>1, <2>2, <2>3, <2>4, Beginning
\* The lifespan and the pins.
<1>16. CASE UNCHANGED callVars /\ (phase' # "start" \/ phase' = phase) /\ (hosts' = hosts \/ phase = "start")
  <2>1. UNCHANGED <<req, pc, pol, res, shown, approved, ended, sent, ran, moved>>
    BY <1>16 DEF callVars
  <2>2. RequestsOK'
    <3>1. CASE phase' # "start"
      BY <2>1, <3>1, RequestsKept
    <3>2. CASE phase' = phase
      BY <2>1, <3>2, PlansStay DEF AnswersInv, RequestsOK, Started
    <3> QED BY <1>16, <3>1, <3>2
  <2>3. LocalsOK'
    BY <2>1, PlansStay DEF AnswersInv, LocalsOK
  <2>4. ASSUME NEW d \in Calls PROVE CallTruthful(d)'
    <3>1. CallTruthful(d) /\ (Running(d) => phase # "start")
      BY <1>1 DEF AnswersInv
    <3> QED BY <1>16, <2>1, <3>1, OthersStay
  <2> QED BY <2>2, <2>3, <2>4 DEF AnswersInv
<1>17. CASE LifespanNext /\ UNCHANGED <<callVars, pinVars>>
  <2>1. (phase' # "start" \/ phase' = phase) /\ (hosts' = hosts \/ phase = "start")
    BY <1>17 DEF LifespanNext, Load, Prepare, HookEnds, HookTimesOut, NextHook, HookEscapes, EmitEnds,
                 Stop, CloseAll, CloseAllCancelled, Emitting
  <2> QED BY <1>16, <1>17, <2>1
<1>18. CASE UNCHANGED <<callVars, lifeVars>>
  BY <1>16, <1>18 DEF lifeVars
<1>19. CASE CallNext
  BY <1>3, <1>4, <1>5, <1>6, <1>7, <1>11, <1>12, <1>13, <1>14, <1>15, <1>19 DEF CallNext
<1> QED BY <1>17, <1>18, <1>19 DEF Next, vars

LEMMA AnswersInit == Init => AnswersInv
<1> SUFFICES ASSUME Init PROVE AnswersInv
  OBVIOUS
<1>1. PICK s \in Scenarios :
        /\ req = s.req
        /\ pc = [c \in Calls |-> [n \in s.req[c].names |-> 0]]
        /\ pol = [c \in Calls |-> [n \in s.req[c].names |-> NoPolicy]]
        /\ res = [c \in Calls |-> [n \in s.req[c].names |-> "none"]]
        /\ shown = [c \in Calls |-> [n \in s.req[c].names |-> NoName]]
        /\ approved = shown /\ ended = [c \in Calls |-> "no"] /\ sent = [c \in Calls |-> <<>>] /\ ran = {}
  BY DEF Init
<1>2. \A c \in Calls : ~Started(c) /\ ~Running(c) /\ ended[c] = "no"
  BY <1>1 DEF Started, Running
<1>3. RequestsOK
  BY <1>1, <1>2, CallsAssumption DEF RequestsOK, Broadcasts, Names
<1>4. LocalsOK
  BY <1>1 DEF LocalsOK, Names, Results
<1>5. ASSUME NEW c \in Calls PROVE CallTruthful(c)
  <2>1. NothingYet(c) /\ EndsClean(c)
    BY <1>1, <1>2 DEF NothingYet, EndsClean, Names
  <2>2. PolicyHeld(c) /\ HostsHeld(c) /\ CommandsHeld(c)
    BY <1>1, <1>2 DEF PolicyHeld, HostsHeld, CommandsHeld
  <2> QED BY <2>1, <2>2 DEF CallTruthful
<1> QED BY <1>3, <1>4, <1>5 DEF AnswersInv

\* Whatever the registries, the plans and the order of calls and reloads: a
\* command runs only where its call may run it and, unless its name was moved,
\* on the host the result names and the path was approved on; a call that
\* returned has its outcome for every host, and nothing of it goes on.
THEOREM AnswersAlwaysTruthful == Spec => []AnswersTruthful
<1> QED BY AuditInit, AuditStep, AnswersInit, AnswersStep, AnswersInvTruthful, PTL DEF Spec
===============================================================================
