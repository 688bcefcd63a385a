------------------------------ MODULE FileTexts ------------------------------
(***************************************************************************)
(* What the file editor does to a text                                     *)
(* (orchestrator/extensions/file/utils.py).                                *)
(*                                                                         *)
(* A text is a sequence of characters, of which only the two that end a    *)
(* line, the blank and a few others are told apart.  What is in a file is  *)
(* not what is read of it: Python reads every end of a line as NL, and     *)
(* writes NL as it is.  None is what an operation gives that raises.       *)
(***************************************************************************)
EXTENDS Naturals, Integers, Sequences, FiniteSets, SequencesExt, FiniteSetsExt

CONSTANTS None, Characters

NL == "\n"
CR == "\r"
SP == " "

\* What is not there is no text.
ASSUME TextAssumption == {NL, CR, SP} \subseteq Characters /\ None \notin Seq(Characters)

-----------------------------------------------------------------------------
\* Path.read_text: a CR, and a CR with the NL after it, are read as one NL.
WithRead(read, t, k) ==
  IF k > 1 /\ t[k] = NL /\ t[k - 1] = CR THEN read
  ELSE Append(read, IF t[k] = CR THEN NL ELSE t[k])

AsRead(t) ==
  LET upto[k \in 0..Len(t)] ==     \* what is read of the first k characters
        IF k = 0 THEN <<>> ELSE WithRead(upto[k - 1], t, k)
  IN  upto[Len(t)]

\* Texts and lines.

\* A character after the lines there are; a line after a text.
WithChar(lines, c) ==
  IF c = NL THEN Append(lines, <<>>)
  ELSE [lines EXCEPT ![Len(lines)] = Append(@, c)]
Parted(t, line) == t \o <<NL>> \o line

Lines(t) ==
  LET upto[k \in 0..Len(t)] ==     \* the lines of the first k characters
        IF k = 0 THEN <<<<>>>> ELSE WithChar(upto[k - 1], t[k])
  IN  upto[Len(t)]

Join(lines) ==
  LET upto[k \in 0..Len(lines)] ==
        IF k = 0 THEN <<>> ELSE IF k = 1 THEN lines[1] ELSE Parted(upto[k - 1], lines[k])
  IN  upto[Len(lines)]

LineCount(t) == Cardinality({i \in 1..Len(t) : t[i] = NL})

IsBlank(line) == ToSet(line) \subseteq {SP, CR}

\* _remove_empty_lines: blank lines lose their blanks, none is removed.
RemoveEmptyLines(t) ==
  LET lines == Lines(t)
  IN  Join([k \in DOMAIN lines |-> IF IsBlank(lines[k]) THEN <<>> ELSE lines[k]])

\* Where a text occurs in another, overlapping occurrences included
\* (find_matched_chunks_with_similarity; what is only similar is an error).
Occurrences(find, t) ==
  {i \in 1..(Len(t) - Len(find) + 1) : SubSeq(t, i, i + Len(find) - 1) = find}

Splice(t, i, find, new) == SubSeq(t, 1, i - 1) \o new \o SubSeq(t, i + Len(find), Len(t))

IsFullLineMatch(t, find, i) ==
  /\ i = 1 \/ t[i - 1] = NL
  /\ i + Len(find) = Len(t) + 1 \/ t[i + Len(find)] = NL

\* A Python slice [:n], a negative n counted from the end.
Upto(n, length) == IF n < 0 THEN Max({0, length + n}) ELSE Min({n, length})

\* Mutant: one line too few is replaced.
ReplaceLines_OffByOne(content, find, original, new, i) ==
  LET before == LineCount(SubSeq(content, 1, i - 1))
      after  == before + LineCount(find)
      lines  == Lines(original)
  IN  IF IsFullLineMatch(content, find, i) /\ after <= Len(lines)
      THEN Join(SubSeq(lines, 1, before) \o Lines(new) \o SubSeq(lines, after + 1, Len(lines)))
      ELSE Splice(content, i, find, new)

\* _replace_lines_in_original_content, i the only occurrence of find in content:
\* whole lines are replaced in the original.
ReplaceLines(content, find, original, new, i) ==
  LET before == LineCount(SubSeq(content, 1, i - 1))
      after  == before + LineCount(find) + 1
      lines  == Lines(original)
  IN  IF IsFullLineMatch(content, find, i) /\ after <= Len(lines)
      THEN Join(SubSeq(lines, 1, before) \o Lines(new) \o SubSeq(lines, after + 1, Len(lines)))
      ELSE Splice(content, i, find, new)

\* replace_in_file without line numbers, t as read: what is to be found must be
\* there once.
StrReplaced(t, old, new) ==
  LET content == RemoveEmptyLines(t)
      find    == RemoveEmptyLines(old)
      at      == Occurrences(find, content)
  IN  IF find = <<>> \/ Cardinality(at) # 1 THEN None
      ELSE ReplaceLines(content, find, t, new, CHOOSE i \in at : TRUE)

-----------------------------------------------------------------------------
\* Numbered lines, <<number, line>>, of the tag; blank ones are dropped when
\* they are parsed.

NumberedLines == Seq(Nat \X Seq(Characters))
Unnumbered(numbered) == [k \in DOMAIN numbered |-> numbered[k][2]]
Consecutive(numbered, first) ==
  \A k \in DOMAIN numbered : numbered[k][1] = first + k - 1

\* _get_matched_chunk: <<first, last>> line of the occurrence that is nearest to
\* the number given, the first of two at the same distance.
MatchedChunk(find, lines) ==
  LET text   == Join(lines)
      wanted == Join(Unnumbered(find))
      starts == {LineCount(SubSeq(text, 1, i - 1)) + 1 : i \in Occurrences(wanted, text)}
      Away(l) == IF l < find[1][1] THEN find[1][1] - l ELSE l - find[1][1]
      best   == Min({l \in starts : \A m \in starts : Away(l) <= Away(m)})
  IN  IF find = <<>> \/ ~Consecutive(find, find[1][1]) \/ wanted = <<>> \/ starts = {}
      THEN None
      ELSE <<best, best + LineCount(wanted)>>

NumberedReplaced(t, find, new) ==
  LET lines == Lines(RemoveEmptyLines(t))
      chunk == MatchedChunk(find, lines)
  IN  IF chunk = None THEN None
      ELSE Join(SubSeq(lines, 1, chunk[1] - 1) \o Unnumbered(new)
                  \o SubSeq(lines, chunk[2] + 1, Len(lines)))

\* insert_in_file, after a line or after lines that are found.
InsertedAt(t, n, new) ==
  LET lines == Lines(t)
      cut   == Upto(n, Len(lines))
  IN  Join(SubSeq(lines, 1, cut) \o new \o SubSeq(lines, cut + 1, Len(lines)))

InsertedAfter(t, find, new) ==
  LET chunk == MatchedChunk(find, Lines(t))
  IN  IF chunk = None THEN None ELSE InsertedAt(t, chunk[2], Unnumbered(new))

\* view_file_content: the lines that are shown, or None.
Viewed(t, first, last, max) ==
  LET lines == Lines(t)
      from  == IF first = None THEN 1 ELSE first
      to    == IF last = None \/ last = -1 THEN Len(lines) ELSE last
  IN  IF from < 1 \/ to < 1 \/ from > to \/ to - from + 1 > max THEN None
      ELSE from..Min({to, Len(lines)})

=============================================================================
