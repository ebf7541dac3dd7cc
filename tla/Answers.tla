------------------------------ MODULE Answers -------------------------------
(***************************************************************************)
(* How much of a tool's answer reaches the agent: the limits of the tools  *)
(* that list, search and read, and that of the whole answer                *)
(* (ToolRegistry._bounded_json).  A line is its length.                    *)
(*                                                                         *)
(* A definition X_Variant above a definition X is X with a plausible       *)
(* mistake; nothing uses it.                                               *)
(***************************************************************************)
EXTENDS Naturals, Sequences, SequencesExt, FiniteSetsExt

CONSTANTS
  MaxToolOutput,  \* the bytes of an answer
  Envelope,       \* the bytes of an answer around its contents, at least
  PreviewStep,    \* how many bytes are taken off a preview until it fits
  ReadLines,      \* the lines that are read if no end is asked for, and at most
  LineLengths,    \* the lengths of lines that are tried
  MaxLines        \* how many lines are tried

\* An answer is never bare, and a preview of one step fits although all of it is escaped.
ASSUME AnswerAssumption ==
  /\ MaxToolOutput \in Nat /\ Envelope \in Nat \ {0} /\ PreviewStep \in Nat \ {0}
  /\ Envelope + 2 * PreviewStep <= MaxToolOutput
  /\ ReadLines \in Nat \ {0} /\ LineLengths \subseteq Nat /\ MaxLines \in Nat

\* The sum of the first n numbers of a sequence, for every n.
Sums(numbers) ==
  LET sum[n \in 0 .. Len(numbers)] == IF n = 0 THEN 0 ELSE sum[n - 1] + numbers[n]
  IN sum

FirstOf(lines, n) == SubSeq(lines, 1, IF n < Len(lines) THEN n ELSE Len(lines))

-----------------------------------------------------------------------------
(* The limits of a tool *)

\* The length of lines that are joined by line breaks.
JoinedLength(lines) ==
  Sums(lines)[Len(lines)] + (IF lines = << >> THEN 0 ELSE Len(lines) - 1)

\* The lines of the first MaxToolOutput characters: a last one may be cut short,
\* and is none if nothing is left of it.
Cut(lines) ==
  LET before(n) == IF n = 0 THEN 0 ELSE JoinedLength(FirstOf(lines, n)) + 1
      whole == Max({n \in 0 .. Len(lines) : JoinedLength(FirstOf(lines, n)) <= MaxToolOutput})
      rest == IF before(whole) < MaxToolOutput THEN MaxToolOutput - before(whole) ELSE 0
  IN IF whole = Len(lines) THEN lines
     ELSE FirstOf(lines, whole) \o (IF rest = 0 THEN << >> ELSE << rest >>)

\* The walk ends with the file that reaches the limit, the last one or not.
ListFiles(count, max) ==
  [shown |-> IF count < max THEN count ELSE max, truncated |-> count >= max]

Fallback_NoMore(found, max) == FirstOf(found, max)

\* Without ripgrep the search ends with one match more than asked for.
Fallback(found, max) == FirstOf(found, max + 1)

SearchText(found, max, ripgrep) ==
  LET lines == IF ripgrep THEN found ELSE Fallback(found, max)
      output == Cut(FirstOf(lines, max))
  IN [lines |-> output, truncated |-> Len(lines) > Len(output)]

\* The ends that may be asked for from a start; 0: none is.
Ends(start) == {0} \cup (start .. start + ReadLines - 1)

ReadFile_Shifted(lines, start, end) ==
  LET last == IF end = 0 THEN start + ReadLines ELSE end
      selected == SubSeq(FirstOf(lines, last - 1), start, Len(FirstOf(lines, last - 1)))
  IN [lines |-> Cut(selected), end |-> last,
      truncated |-> JoinedLength(selected) > MaxToolOutput]

\* The lines up to the end, which the answer names; what is beyond it is no truncation.
ReadFile(lines, start, end) ==
  LET last == IF end = 0 THEN start + ReadLines - 1 ELSE end
      selected == SubSeq(FirstOf(lines, last), start, Len(FirstOf(lines, last)))
  IN [lines |-> Cut(selected), end |-> last,
      truncated |-> JoinedLength(selected) > MaxToolOutput]

-----------------------------------------------------------------------------
(* The limit of an answer *)

\* The bytes of a preview of n bytes in a new answer: every quote and every
\* backslash of the answer takes two.  bytes says of each byte what it takes.
Preview(bytes, n) == Envelope + Sums(bytes)[n]

Fits_Raw(bytes, n) == Envelope + n <= MaxToolOutput
Fits(bytes, n) == Preview(bytes, n) <= MaxToolOutput

\* An answer, the preview of one that is too long, or none.
BoundedJson(bytes) ==
  LET tried == {n \in 1 .. MaxToolOutput : \E k \in 1 .. MaxToolOutput :
                                             n + k * PreviewStep = MaxToolOutput}
      fitting == {n \in tried : Fits(bytes, n)}
  IN IF Len(bytes) <= MaxToolOutput
     THEN [size |-> Len(bytes), shown |-> Len(bytes), truncated |-> FALSE]
     ELSE IF fitting # {}
     THEN [size |-> Preview(bytes, Max(fitting)), shown |-> Max(fitting), truncated |-> TRUE]
     ELSE [size |-> 0, shown |-> 0, truncated |-> TRUE]

-----------------------------------------------------------------------------
(* What the limits promise *)

Lines == BoundedSeq(LineLengths, MaxLines)
Encoded == BoundedSeq(1 .. 2, MaxToolOutput + 2)

\* tools.py:186: an answer never exceeds the limit, however much of it has to be
\* escaped; one that fits is whole, and of any other there is a preview.
IsBounded(bytes) ==
  LET answer == BoundedJson(bytes) IN
  /\ answer.size <= MaxToolOutput
  /\ answer.truncated <=> answer.shown < Len(bytes)
  /\ answer.shown > 0 \/ bytes = << >>

Bounded == \A bytes \in Encoded : IsBounded(bytes)

\* An agent is told of what is left out of its answer, by the tool or, where a tool
\* cuts its last line without a word, by the answer that is then too long.
IsTold(answer) == answer.truncated \/ Envelope + JoinedLength(answer.lines) > MaxToolOutput

\* A read that says nothing shows every line from its start to the end that it names;
\* that there are more lines it never says, but none is missing if it has fewer lines
\* than up to that end.
ReadIsTold(lines, start, end) ==
  LET answer == ReadFile(lines, start, end)
      from(n) == SubSeq(lines, start, n)
  IN IsTold(answer) \/
     /\ answer.lines = from(IF answer.end < Len(lines) THEN answer.end ELSE Len(lines))
     /\ Len(answer.lines) < answer.end - start + 1 => answer.lines = from(Len(lines))

SearchIsTold(found, max, ripgrep) ==
  SearchText(found, max, ripgrep).lines # found => IsTold(SearchText(found, max, ripgrep))

ListIsTold(count, max) ==
  ListFiles(count, max).shown < count => ListFiles(count, max).truncated

Told ==
  /\ \A lines \in Lines :
       /\ \A start \in 1 .. MaxLines : \A end \in Ends(start) : ReadIsTold(lines, start, end)
       /\ \A max \in 1 .. MaxLines, ripgrep \in BOOLEAN : SearchIsTold(lines, max, ripgrep)
  /\ \A count \in 0 .. MaxLines, max \in 1 .. MaxLines : ListIsTold(count, max)
=============================================================================
