--------------------------- MODULE HostNotesProofs ---------------------------
(***************************************************************************)
(* Theorems about HostNotes for every finite set of calls, every cap,      *)
(* every number of retries and every clock.                                *)
(***************************************************************************)
EXTENDS HostNotes, FiniteSetTheorems, TLAPS

-----------------------------------------------------------------------------
(* The inductive invariant *)

Working == {"stat", "read", "check"}
Storing == {"write", "replace"}

\* Every replacement is the last step of one call.
VersionCounts == version = Cardinality({t \in Calls : pc[t] = "done"})

\* What is about to be written passed the limit.
WithinCap ==
  \A t \in Calls : pc[t] \in {"check"} \cup Storing => Cardinality(text[t]) <= Cap

\* The retry loop: an attempt is left while the call works, and at most one
\* attempt more than those counted has failed on an unreadable file.
AttemptsLeft ==
  \A t \in Calls :
    /\ pc[t] \in {"idle"} \cup Working => tries[t] < MaxRetries
    /\ pc[t] \in {"idle", "stat", "read"} => blind[t] <= tries[t]
    /\ pc[t] = "check" => blind[t] <= tries[t] + 1

\* A call whose attempt has the tag of the version it statted.
Current(t) == version = statted[t] => Tag(file) = tag[t]

\* Every attempt spent was spent on another call's replacement, or was blind.
AttemptsPaid ==
  \A t \in Calls :
    /\ pc[t] = "idle" => tries[t] = 0
    /\ statted[t] <= version
    /\ pc[t] \in {"stat", "raised"} => version + blind[t] >= begun[t] + tries[t]
    /\ pc[t] = "read" => statted[t] + blind[t] >= begun[t] + tries[t] /\ Current(t)
    /\ pc[t] = "check" => \/ statted[t] + blind[t] >= begun[t] + tries[t] /\ Current(t)
                          \/ statted[t] + blind[t] > begun[t] + tries[t]
    /\ pc[t] = "raised" => tries[t] = MaxRetries

\* A snapshot of the current version with the tag of the file holds its text,
\* and from the check on the text stays a superset until someone else replaces.
TextCovers ==
  \A t \in Calls :
    /\ pc[t] = "read" => file # Absent
    /\ pc[t] = "check" /\ version = statted[t] /\ file # Absent /\ Tag(file) = tag[t]
         => file.content \subseteq text[t]
    /\ op[t] = "append" /\ pc[t] \in Storing /\ ~raced[t] /\ file # Absent
         => file.content \subseteq text[t]

NotesInv ==
  NotesTypeOK /\ VersionCounts /\ WithinCap /\ AttemptsLeft /\ AttemptsPaid /\ TextCovers

-----------------------------------------------------------------------------
(* Sizes and tags *)

LEMMA ContentSize ==
  ASSUME NEW c \in Contents
  PROVE  Cardinality(c) \in 0..Cardinality(Calls)
  <1>1. IsFiniteSet(c) /\ Cardinality(c) <= Cardinality(Calls)
    BY FS_Subset, NotesAssumption DEF Contents
  <1>2. Cardinality(c) \in Nat /\ Cardinality(Calls) \in Nat
    BY <1>1, FS_CardinalityType, NotesAssumption
  <1>3. QED
    BY <1>1, <1>2

LEMMA TagType ==
  ASSUME NEW f \in Sidecars \cup {Absent}
  PROVE  /\ Tag(f) \in Tags \cup {Absent}
         /\ Tag(f) = Absent <=> f = Absent
  <1>1. CASE f = Absent
    BY <1>1 DEF Tag
  <1>2. CASE f \in Sidecars
    <2>1. f.content \in Contents /\ f.mtime \in 0..MaxClock
      BY <1>2 DEF Sidecars
    <2>2. Tag(f) = [mtime |-> f.mtime, size |-> Cardinality(f.content)]
      BY <1>2, AbsentAssumption DEF Tag
    <2>3. Tag(f) \in Tags
      BY <2>1, <2>2, ContentSize DEF Tags
    <2>4. QED
      BY <1>2, <2>3, AbsentAssumption
  <1>3. QED
    BY <1>1, <1>2

\* A call that ends counts as one more replacement.
LEMMA DoneCounts ==
  ASSUME NotesTypeOK, VersionCounts, [NotesNext]_noteVars
  PROVE  VersionCounts' /\ version' \in 0..Cardinality(Calls)
  <1> DEFINE done == {t \in Calls : pc[t] = "done"}
  <1>0. done \in Contents /\ done' \in Contents
    BY DEF Contents
  <1>1. IsFiniteSet(done)
    BY <1>0, FS_Subset, NotesAssumption DEF Contents
  <1>2. CASE version' = version /\ done' = done
    BY <1>0, <1>2, ContentSize DEF VersionCounts
  <1>3. ASSUME NEW t \in Calls, Replace(t) PROVE VersionCounts'
    <2>1. done' = done \cup {t} /\ t \notin done
      BY <1>3 DEF Replace, Go, NotesTypeOK
    <2>2. Cardinality(done') = Cardinality(done) + 1
      BY <1>1, <2>1, FS_AddElement
    <2>3. QED
      BY <1>3, <2>2 DEF Replace, VersionCounts
  <1>4. ASSUME NEW t \in Calls, NEW w \in {"stat", "read", "check", "write", "replace", "raised", "failed", "crashed"},
               pc[t] # "done", Go(t, w)
        PROVE  done' = done
    BY <1>4 DEF Go, NotesTypeOK
  <1>5. ASSUME NEW t \in Calls, Begin(t) \/ Stat(t) \/ ReadText(t) \/ ReadError(t)
        PROVE  version' = version /\ done' = done
    BY <1>4, <1>5 DEF Begin, Stat, ReadText, ReadError, Limit, history
  <1>6. ASSUME NEW t \in Calls, Check(t) \/ CheckError(t) \/ WriteTmp(t) \/ WriteError(t) \/ Crash(t)
        PROVE  version' = version /\ done' = done
    BY <1>4, <1>6 DEF Check, CheckError, Retry, WriteTmp, WriteError, Crash, history
  <1>7. Tick \/ UNCHANGED noteVars => version' = version /\ done' = done
    BY DEF Tick, history, noteVars
  <1>8. VersionCounts'
    BY <1>2, <1>3, <1>5, <1>6, <1>7 DEF NotesNext
  <1>9. QED
    BY <1>0, <1>8, ContentSize DEF VersionCounts

-----------------------------------------------------------------------------
(* One step of a call *)

LEMMA NotesStart == NotesInit => NotesInv
  <1> SUFFICES ASSUME NotesInit PROVE NotesInv
    OBVIOUS
  <1>1. Cardinality(Calls) \in Nat /\ MaxRetries \in Nat \ {0} /\ MaxClock \in Nat
    BY FS_CardinalityType, NotesAssumption
  <1>2. NotesTypeOK
    BY <1>1 DEF NotesInit, NotesTypeOK, Contents
  <1>3. VersionCounts
    <2>1. {t \in Calls : pc[t] = "done"} = {}
      BY DEF NotesInit
    <2>2. QED
      BY <2>1, FS_EmptySet DEF NotesInit, VersionCounts
  <1>4. WithinCap /\ AttemptsLeft /\ TextCovers
    BY <1>1 DEF NotesInit, WithinCap, AttemptsLeft, TextCovers, Storing, Working
  <1>5. AttemptsPaid
    BY <1>1 DEF NotesInit, AttemptsPaid
  <1>6. QED
    BY <1>2, <1>3, <1>4, <1>5 DEF NotesInv

\* Steps before the retry loop and in its snapshot.
LEMMA SnapshotTypes ==
  ASSUME NotesInv, NEW t \in Calls,
         Begin(t) \/ Stat(t) \/ ReadText(t) \/ ReadError(t)
  PROVE  NotesTypeOK'
  <1> USE NotesAssumption DEF NotesInv, NotesTypeOK, Contents, Limit, Go
  <1>0. Tag(file) \in Tags \cup {Absent}
    BY TagType
  <1>1. CASE Begin(t)
    BY <1>1 DEF Begin
  <1>2. CASE Stat(t)
    BY <1>0, <1>2 DEF Stat
  <1>3. CASE ReadText(t)
    <2>1. file.content \subseteq Calls
      BY <1>3 DEF ReadText, TextCovers, Sidecars
    <2>2. QED
      BY <1>3, <2>1 DEF ReadText, history
  <1>4. CASE ReadError(t)
    BY <1>4 DEF ReadError, Blind, AttemptsLeft, Working
  <1>5. QED
    BY <1>1, <1>2, <1>3, <1>4

LEMMA StoreTypes ==
  ASSUME NotesInv, NEW t \in Calls, version' \in 0..Cardinality(Calls),
         Check(t) \/ CheckError(t) \/ WriteTmp(t) \/ Replace(t) \/ WriteError(t) \/ Crash(t)
  PROVE  NotesTypeOK'
  <1> USE NotesAssumption DEF NotesInv, NotesTypeOK, Go
  <1>1. CASE Check(t)
    <2>1. tries[t] + 1 \in 0..MaxRetries
      BY <1>1 DEF Check, AttemptsLeft, Working
    <2>2. QED
      BY <1>1, <2>1 DEF Check, Retry
  <1>2. CASE CheckError(t)
    <2>1. tries[t] + 1 \in 0..MaxRetries /\ blind[t] + 1 \in 0..MaxRetries
      BY <1>2 DEF CheckError, AttemptsLeft, Working
    <2>2. QED
      BY <1>2, <2>1 DEF CheckError, Retry, Blind
  <1>3. CASE WriteTmp(t) \/ WriteError(t) \/ Crash(t)
    BY <1>3 DEF WriteTmp, WriteError, Crash, history
  <1>4. CASE Replace(t)
    <2>1. file' \in Sidecars
      BY <1>4 DEF Replace, Sidecars, WithinCap, Storing
    <2>2. QED
      BY <1>4, <2>1 DEF Replace
  <1>5. QED
    BY <1>1, <1>2, <1>3, <1>4

LEMMA CapKept ==
  ASSUME NotesInv, [NotesNext]_noteVars
  PROVE  WithinCap'
  <1> USE DEF NotesInv, NotesTypeOK, WithinCap, Storing, Limit, Go
  <1>1. ASSUME NEW t \in Calls, Begin(t) \/ Stat(t) \/ ReadText(t) \/ ReadError(t)
        PROVE  WithinCap'
    <2>1. Cardinality({}) \in Nat /\ \A c \in Contents : Cardinality(c) \in Nat
      BY ContentSize, FS_EmptySet
    <2>2. ASSUME NEW c \in Contents, NEW w, text' = [text EXCEPT ![t] = c], Limit(t, c, w)
          PROVE  WithinCap'
      BY <2>1, <2>2, NotesAssumption
    <2>3. {t} \in Contents /\ {} \in Contents
      BY DEF Contents
    <2>4. CASE ReadText(t)
      <3>1. file.content \cup {t} \in Contents
        BY <2>4 DEF ReadText, TextCovers, Sidecars, Contents
      <3>2. QED
        BY <2>2, <2>4, <3>1 DEF ReadText
    <2>5. CASE ReadError(t)
      BY <2>2, <2>3, <2>5 DEF ReadError
    <2>6. CASE Begin(t)
      BY <2>2, <2>3, <2>6 DEF Begin
    <2>7. CASE Stat(t)
      BY <2>2, <2>3, <2>7 DEF Stat
    <2>8. QED
      BY <1>1, <2>4, <2>5, <2>6, <2>7
  <1>2. ASSUME NEW t \in Calls, Check(t) \/ CheckError(t) \/ WriteTmp(t) \/ Replace(t)
                               \/ WriteError(t) \/ Crash(t)
        PROVE  WithinCap'
    BY <1>2 DEF Check, CheckError, Retry, WriteTmp, Replace, WriteError, Crash
  <1>3. Tick \/ UNCHANGED noteVars => WithinCap'
    BY DEF Tick, noteVars
  <1>4. QED
    BY <1>1, <1>2, <1>3 DEF NotesNext

LEMMA AttemptsLeftKept ==
  ASSUME NotesInv, [NotesNext]_noteVars
  PROVE  AttemptsLeft'
  <1> USE NotesAssumption DEF NotesInv, NotesTypeOK, AttemptsLeft, Working, Limit, Go
  <1>1. ASSUME NEW t \in Calls, Begin(t) \/ Stat(t) \/ ReadText(t) \/ ReadError(t)
        PROVE  AttemptsLeft'
    BY <1>1 DEF Begin, Stat, ReadText, ReadError, Blind, history
  <1>2. ASSUME NEW t \in Calls, Check(t) \/ CheckError(t)
        PROVE  AttemptsLeft'
    BY <1>2 DEF Check, CheckError, Retry, Blind
  <1>3. ASSUME NEW t \in Calls, WriteTmp(t) \/ Replace(t) \/ WriteError(t) \/ Crash(t)
        PROVE  AttemptsLeft'
    BY <1>3 DEF WriteTmp, Replace, WriteError, Crash, history
  <1>4. Tick \/ UNCHANGED noteVars => AttemptsLeft'
    BY DEF Tick, noteVars, history
  <1>5. QED
    BY <1>1, <1>2, <1>3, <1>4 DEF NotesNext

-----------------------------------------------------------------------------
(* The retry loop pays for its attempts *)

LEMMA Numbers ==
  ASSUME NotesTypeOK
  PROVE  /\ version \in Nat
         /\ \A t \in Calls : /\ statted[t] \in Nat /\ begun[t] \in Nat
                            /\ blind[t] \in Nat /\ tries[t] \in Nat
  <1>1. Cardinality(Calls) \in Nat /\ MaxRetries \in Nat
    BY FS_CardinalityType, NotesAssumption
  <1>2. QED
    BY <1>1 DEF NotesTypeOK

LEMMA AttemptsPaidKept ==
  ASSUME NotesInv, [NotesNext]_noteVars
  PROVE  AttemptsPaid'
  <1> USE Numbers DEF NotesInv, NotesTypeOK, AttemptsPaid, Current, Go
  <1>1. ASSUME NEW t \in Calls, Begin(t)
        PROVE  AttemptsPaid'
    <2>1. \A u \in Calls : u # t => pc'[u] = pc[u] /\ begun'[u] = begun[u]
      BY <1>1 DEF Begin, Limit
    <2>2. pc'[t] \in {"stat", "write", "failed"} /\ begun'[t] = version
      BY <1>1 DEF Begin, Limit
    <2>3. tries[t] = 0
      BY <1>1 DEF Begin
    <2>4. UNCHANGED <<file, tag, tries, version, statted, blind>>
      BY <1>1 DEF Begin
    <2>5. QED
      BY <2>1, <2>2, <2>3, <2>4
  <1>2. ASSUME NEW t \in Calls, Stat(t)
        PROVE  AttemptsPaid'
    <2>1. /\ \A u \in Calls : u # t => pc'[u] = pc[u] /\ tag'[u] = tag[u] /\ statted'[u] = statted[u]
          /\ pc'[t] \in {"read", "check", "failed"}
          /\ tag'[t] = Tag(file) /\ statted'[t] = version
          /\ UNCHANGED <<file, tries, version, begun, blind>>
      BY <1>2 DEF Stat, Limit
    <2>2. version + blind[t] >= begun[t] + tries[t]
      BY <1>2 DEF Stat
    <2>3. QED
      BY <2>1, <2>2
  <1>3. ASSUME NEW t \in Calls, ReadText(t)
        PROVE  AttemptsPaid'
    <2>1. /\ \A u \in Calls : u # t => pc'[u] = pc[u]
          /\ pc[t] = "read" /\ pc'[t] \in {"check", "failed"}
          /\ UNCHANGED <<file, tag, tries, version, statted, begun, blind>>
      BY <1>3 DEF ReadText, history, Limit
    <2>2. QED
      BY <2>1
  <1>4. ASSUME NEW t \in Calls, ReadError(t)
         PROVE  AttemptsPaid'
    <2>1. /\ \A u \in Calls : u # t => pc'[u] = pc[u] /\ tag'[u] = tag[u] /\ blind'[u] = blind[u]
          /\ pc[t] = "read" /\ pc'[t] \in {"check", "failed"} /\ blind'[t] = blind[t] + 1
          /\ UNCHANGED <<file, tries, version, statted, begun>>
      BY <1>4 DEF ReadError, Blind, Limit
    <2>2. QED
      BY <2>1
  <1>5. ASSUME NEW t \in Calls, Check(t)
        PROVE  AttemptsPaid'
    <2>1. CASE Unchanged(t)
      BY <1>5, <2>1 DEF Check
    <2>2. CASE ~Unchanged(t)
      <3>1. version # statted[t] \/ statted[t] + blind[t] > begun[t] + tries[t]
        BY <1>5, <2>2 DEF Check, Unchanged
      <3>2. version + blind[t] >= begun[t] + (tries[t] + 1)
        <4>1. /\ statted[t] <= version
              /\ statted[t] + blind[t] >= begun[t] + tries[t]
          BY <1>5 DEF Check
        <4>2. version > statted[t] \/ statted[t] + blind[t] > begun[t] + tries[t]
          BY <3>1, <4>1
        <4>3. QED
          BY <4>1, <4>2
      <3>3. QED
        BY <1>5, <2>2, <3>2 DEF Check, Retry
    <2>3. QED
      BY <2>1, <2>2
  <1>6. ASSUME NEW t \in Calls, CheckError(t)
        PROVE  AttemptsPaid'
    <2>1. version + (blind[t] + 1) >= begun[t] + (tries[t] + 1)
      <3>1. statted[t] <= version /\ statted[t] + blind[t] >= begun[t] + tries[t]
        BY <1>6 DEF CheckError
      <3>2. QED
        BY <3>1
    <2>2. QED
      BY <1>6, <2>1 DEF CheckError, Retry, Blind
  <1>7. ASSUME NEW t \in Calls, Replace(t)
        PROVE  AttemptsPaid'
    BY <1>7 DEF Replace
  <1>8. ASSUME NEW t \in Calls, WriteTmp(t) \/ WriteError(t) \/ Crash(t)
        PROVE  AttemptsPaid'
    BY <1>8 DEF WriteTmp, WriteError, Crash, history
  <1>9. Tick \/ UNCHANGED noteVars => AttemptsPaid'
    BY DEF Tick, noteVars, history
  <1>10. QED
    BY <1>1, <1>2, <1>5, <1>6, <1>7, <1>8, <1>9, <1>3, <1>4 DEF NotesNext

-----------------------------------------------------------------------------
(* What is written covers what it replaces *)

LEMMA TextCoversKept ==
  ASSUME NotesInv, [NotesNext]_noteVars
  PROVE  TextCovers'
  <1> USE DEF NotesInv, NotesTypeOK, TextCovers, Storing, Limit, Go
  <1>1. ASSUME NEW t \in Calls, Begin(t) \/ Stat(t)
        PROVE  TextCovers'
    BY <1>1 DEF Begin, Stat
  <1>2. ASSUME NEW t \in Calls, ReadText(t)
        PROVE  TextCovers'
    BY <1>2 DEF ReadText, history
  <1>3. ASSUME NEW t \in Calls, ReadError(t)
        PROVE  TextCovers'
    <2>1. file # Absent => Tag(file) # Absent
      BY TagType
    <2>2. QED
      BY <1>3, <2>1 DEF ReadError
  <1>4. ASSUME NEW t \in Calls, Check(t) \/ CheckError(t)
        PROVE  TextCovers'
    <2>1. CASE Check(t) /\ Unchanged(t)
      <3>1. /\ pc' = [pc EXCEPT ![t] = "write"]
            /\ raced' = [raced EXCEPT ![t] = version # statted[t] /\ Tag(file) = tag[t]]
            /\ UNCHANGED <<file, op, text, tag, version, statted>>
        BY <2>1 DEF Check
      <3>2. pc[t] = "check" /\ Tag(file) = tag[t]
        BY <2>1 DEF Check, Unchanged
      <3>3. ~raced'[t] /\ file # Absent => file.content \subseteq text[t]
        BY <3>1, <3>2
      <3>4. \A u \in Calls : u # t => pc'[u] = pc[u] /\ raced'[u] = raced[u]
        BY <3>1
      <3>5. pc'[t] = "write"
        BY <3>1
      <3>6. QED
        BY <3>1, <3>3, <3>4, <3>5
    <2>2. CASE Check(t) /\ ~Unchanged(t)
      BY <1>4, <2>2 DEF Check, Retry
    <2>3. CASE CheckError(t)
      BY <1>4, <2>3 DEF CheckError, Retry
    <2>4. QED
      BY <1>4, <2>1, <2>2, <2>3
  <1>5. ASSUME NEW t \in Calls, Replace(t)
        PROVE  TextCovers'
    <2>1. file' \in Sidecars /\ file' # Absent
      BY <1>5, AbsentAssumption DEF Replace, Sidecars, WithinCap
    <2>2. \A u \in Calls : statted'[u] # version'
      <3>1. \A u \in Calls : statted[u] <= version
        BY DEF AttemptsPaid
      <3>2. QED
        BY <1>5, <3>1, Numbers DEF Replace
    <2>3. \A u \in Calls : pc'[u] \in Storing => u # t /\ raced'[u]
      BY <1>5 DEF Replace
    <2>4. QED
      BY <2>1, <2>2, <2>3
  <1>6. ASSUME NEW t \in Calls, WriteTmp(t) \/ WriteError(t) \/ Crash(t)
        PROVE  TextCovers'
    BY <1>6 DEF WriteTmp, WriteError, Crash, history
  <1>7. Tick \/ UNCHANGED noteVars => TextCovers'
    BY DEF Tick, noteVars, history
  <1>8. QED
    BY <1>1, <1>2, <1>3, <1>4, <1>5, <1>6, <1>7 DEF NotesNext

-----------------------------------------------------------------------------
(* The theorems *)

LEMMA NotesStep == NotesInv /\ [NotesNext]_noteVars => NotesInv'
  <1> SUFFICES ASSUME NotesInv, [NotesNext]_noteVars PROVE NotesInv'
    OBVIOUS
  <1>1. VersionCounts' /\ version' \in 0..Cardinality(Calls)
    BY DoneCounts DEF NotesInv
  <1>2. Tick \/ UNCHANGED noteVars => NotesTypeOK'
    BY NotesAssumption DEF NotesInv, NotesTypeOK, Tick, noteVars, history
  <1>3. NotesTypeOK'
    BY <1>1, <1>2, SnapshotTypes, StoreTypes DEF NotesNext
  <1>4. QED
    BY <1>1, <1>3, CapKept, AttemptsLeftKept, AttemptsPaidKept, TextCoversKept DEF NotesInv

LEMMA NotesInvariant == NotesSpec => []NotesInv
  BY NotesStart, NotesStep, PTL DEF NotesSpec

\* The values stay in their types; among them: no sequence of appends and sets
\* makes the sidecar larger than SSH_HOST_NOTES_MAX_BYTES, and the retry loop
\* never runs out of its attempts without raising.
THEOREM NotesTypeCorrect == NotesSpec => []NotesTypeOK
  <1>1. NotesInv => NotesTypeOK
    BY DEF NotesInv
  <1>2. QED
    BY <1>1, NotesInvariant, PTL

\* A call that gives up was overtaken once per attempt by another call's
\* replacement, or could not read the file.
THEOREM RaisesOnlyUnderContention == NotesSpec => []RaiseMeansContention
  <1>1. NotesInv => RaiseMeansContention
    BY NotesAssumption DEF NotesInv, AttemptsPaid, RaiseMeansContention, NotesTypeOK
  <1>2. QED
    BY <1>1, NotesInvariant, PTL

\* INC-065: an append that was not raced keeps every entry of the file it
\* replaces, whatever the other processes do between its system calls.
THEOREM AppendsLoseNothing == NotesSpec => AppendLosesNothing
  <1> DEFINE Kept == \A t \in Calls :
               op[t] = "append" /\ pc[t] = "replace" /\ pc'[t] = "done"
                 /\ file # Absent /\ ~raced[t]
               => file.content \subseteq file'.content
  <1>1. ASSUME NotesInv, NotesNext PROVE Kept
    <2> SUFFICES ASSUME NEW t \in Calls, op[t] = "append", pc[t] = "replace", pc'[t] = "done",
                        file # Absent, ~raced[t]
                 PROVE  file.content \subseteq file'.content
      OBVIOUS
    <2>1. file.content \subseteq text[t]
      BY <1>1 DEF NotesInv, TextCovers, Storing
    <2>2. Replace(t)
      <3>1. ASSUME NEW u \in Calls, Begin(u) \/ Stat(u) \/ ReadText(u) \/ ReadError(u) \/ Check(u)
                                   \/ CheckError(u) \/ WriteTmp(u) \/ WriteError(u) \/ Crash(u)
            PROVE  pc'[t] # "done"
        BY <1>1, <3>1 DEF NotesInv, NotesTypeOK, Begin, Stat, ReadText, ReadError, Check,
                          CheckError, WriteTmp, WriteError, Crash, Retry, Limit, Go
      <3>2. ASSUME NEW u \in Calls, Replace(u) PROVE u = t
        BY <1>1, <3>2 DEF NotesInv, NotesTypeOK, Replace, Go
      <3>3. QED
        BY <1>1, <3>1, <3>2 DEF NotesNext, Tick
    <2>3. QED
      BY <2>1, <2>2 DEF Replace
  <1>2. NotesInv /\ [NotesNext]_noteVars => [Kept]_noteVars
    BY <1>1
  <1>3. QED
    BY <1>2, NotesInvariant, PTL DEF NotesSpec, AppendLosesNothing

===============================================================================
