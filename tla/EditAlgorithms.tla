---------------------------- MODULE EditAlgorithms ----------------------------
(***************************************************************************)
(* The text transforms of services/edit_service.py: `apply_edit` and       *)
(* `apply_unified_diff`, as functions from a text to a text or a refusal.  *)
(*                                                                         *)
(* A text is a sequence of units, one of which is the newline.  A diff is  *)
(* what unidiff parses it to: the number of files it touches and the hunks *)
(* of the first, each with the 1-based line where it starts in the source  *)
(* and its lines, without their newlines.  Abstracted: error texts.        *)
(***************************************************************************)
EXTENDS Naturals, Sequences, SequencesExt

CONSTANT Newline

Refusal == [ok |-> FALSE, text |-> <<>>]
Outcome(x) == [ok |-> TRUE, text |-> x]

-----------------------------------------------------------------------------
(* apply_edit *)

OccursAt(text, old, i) ==
  /\ i + Len(old) <= Len(text) + 1
  /\ SubSeq(text, i, i + Len(old) - 1) = old

\* The occurrences str.count and str.replace see: from left to right, none
\* overlapping the one before.
Cuts(text, old) ==
  LET from[i \in 1..Len(text) + 1] ==
        IF i + Len(old) > Len(text) + 1 THEN <<>>
        ELSE IF OccursAt(text, old, i) THEN <<i>> \o from[i + Len(old)]
        ELSE from[i + 1]
  IN from[1]

ApplyEdit(text, old, new, every) ==
  IF old = <<>> \/ old = new THEN Refusal
  ELSE LET cuts == Cuts(text, old) IN
       IF cuts = <<>> \/ (~every /\ Len(cuts) > 1) THEN Refusal
       ELSE Outcome(FoldRight(LAMBDA i, rest : ReplaceSubSeqAt(i, new, old, rest), cuts, text))

-----------------------------------------------------------------------------
(* apply_unified_diff *)

\* text.splitlines(keepends=True)
Lines(text) ==
  LET from[i \in 1..Len(text) + 1] ==
        IF i > Len(text) THEN <<>>
        ELSE IF text[i] = Newline \/ from[i + 1] = <<>> THEN <<<<text[i]>>>> \o from[i + 1]
        ELSE <<<<text[i]>> \o Head(from[i + 1])>> \o Tail(from[i + 1])
  IN from[1]

Bare(line) == SelectSeq(line, LAMBDA c : c # Newline)

\* One line of a hunk; s.at lines of the source are consumed.
ApplyLine(src, s, l) ==
  IF ~s.ok THEN s
  ELSE IF l.op = "add" THEN [s EXCEPT !.out = Append(@, l.text \o <<Newline>>)]
  ELSE IF s.at >= Len(src) \/ Bare(src[s.at + 1]) # l.text THEN [s EXCEPT !.ok = FALSE]
  ELSE [s EXCEPT !.at = @ + 1,
                 !.out = IF l.op = "context" THEN Append(@, src[s.at + 1]) ELSE @]

\* Lines before the hunk are carried over; a start beyond the end of the text
\* carries over what there is.
ApplyHunk(src, s, h) ==
  IF ~s.ok \/ h.start < s.at + 1 THEN [s EXCEPT !.ok = FALSE]
  ELSE LET reach == IF h.start - 1 < Len(src) THEN h.start - 1 ELSE Len(src)
           begin == [s EXCEPT !.out = @ \o SubSeq(src, s.at + 1, reach), !.at = h.start - 1]
       IN FoldLeft(LAMBDA a, l : ApplyLine(src, a, l), begin, h.lines)

ApplyDiff(text, diff) ==
  LET src == Lines(text)
      end == FoldLeft(LAMBDA s, h : ApplyHunk(src, s, h),
                      [out |-> <<>>, at |-> 0, ok |-> TRUE], diff.hunks)
  IN IF diff.files # 1 \/ ~end.ok THEN Refusal
     ELSE Outcome(FlattenSeq(end.out \o SubSeq(src, end.at + 1, Len(src))))

-----------------------------------------------------------------------------
(* What the transforms mean, stated without their loops *)

\* A replacement of the only (first) occurrence, or of all: the result is the
\* text cut at occurrences of `old` that do not overlap and leave none behind.
EditMeaning(text, old, new, every, result) ==
  LET places == {i \in 1..Len(text) : OccursAt(text, old, i)}
      apart(S) == \A i, j \in S : i < j => i + Len(old) <= j
      splice(S) == FlattenSeq([i \in 1..Len(text) |->
                     IF i \in S THEN new
                     ELSE IF \E j \in S : j < i /\ i < j + Len(old) THEN <<>>
                     ELSE <<text[i]>>])
  IN \E S \in SUBSET places :
       /\ S # {} /\ apart(S)
       /\ \A i \in places : \E j \in S : j <= i /\ i < j + Len(old)
       /\ ~every => \E i \in S : S = {i}
       /\ result = splice(S)

\* A patch: what the source holds from each hunk's start on is the hunk's old
\* side, and the result is the source with each old side replaced by the new.
\* A hunk without an old side goes in before the line it names (diff itself
\* means: after that line), or at the end of a text that has no such line.
PatchMeaning(text, diff, result) ==
  LET src == Lines(text)
      old(h) == SelectSeq(h.lines, LAMBDA l : l.op # "add")
      fits(h) == \A i \in 1..Len(old(h)) :
                   /\ h.start + i - 1 \in 1..Len(src)
                   /\ Bare(src[h.start + i - 1]) = old(h)[i].text
      kept(h) == \* the new side, with the source's own lines for its context
        LET line[i \in 0..Len(h.lines)] ==
              IF i = 0 THEN [at |-> h.start, out |-> <<>>]
              ELSE LET p == line[i - 1] l == h.lines[i] IN
                   [at |-> IF l.op = "add" THEN p.at ELSE p.at + 1,
                    out |-> CASE l.op = "add" -> p.out \o l.text \o <<Newline>>
                              [] l.op = "context" -> p.out \o src[p.at]
                              [] l.op = "remove" -> p.out]
        IN line[Len(h.lines)].out
      by(n) == {k \in 1..Len(diff.hunks) :
                  LET h == diff.hunks[k] IN h.start <= n /\ n < h.start + Len(old(h))}
      at(n) == {k \in 1..Len(diff.hunks) : diff.hunks[k].start = n}
      new(n) == FlattenSeq([k \in 1..Len(diff.hunks) |-> IF k \in at(n) THEN kept(diff.hunks[k]) ELSE <<>>])
      far == {k \in 1..Len(diff.hunks) : diff.hunks[k].start > Len(src)}
  IN /\ \A k \in 1..Len(diff.hunks) : fits(diff.hunks[k])
     /\ result = FlattenSeq([n \in 1..Len(src) |->
                              IF by(n) = {} THEN new(n) \o src[n] ELSE new(n)])
                 \o FlattenSeq([k \in 1..Len(diff.hunks) |->
                                 IF k \in far THEN kept(diff.hunks[k]) ELSE <<>>])
===============================================================================
