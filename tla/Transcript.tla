----------------------------- MODULE Transcript -----------------------------
(***************************************************************************)
(* What a Transcript is cut from and to (internal/transcript): the window of *)
(* an Exchange, the requests that overlap it, and the bounded quote of the   *)
(* lines in it.  No state.  A line is [at, len, of]: when it was written, how *)
(* long it is, and which container (incarnation) wrote it; text is left out. *)
(***************************************************************************)
EXTENDS Integers, Sequences, FiniteSets, SequencesExt, FiniteSetsExt

CONSTANT Second   \* a second, in the unit of the clock

ASSUME TranscriptAssumption == Second \in Nat \ {0}

grace == Second   \* what a window is widened by at both ends

Silence == [head |-> <<>>, tail |-> <<>>, dropped |-> 0]

\* The bytes of lines, a newline each.
Bytes(lines) == FoldSeq(LAMBDA l, n : l.len + 1 + n, 0, lines)

FirstLines(lines, n) == SubSeq(lines, 1, n)
LastLines(lines, n)  == SubSeq(lines, Len(lines) - n + 1, Len(lines))

\* The longest prefix within budget: never no line, never every line.
take(lines, budget) ==
  IF Len(lines) <= 1 THEN <<>>
  ELSE FirstLines(lines, Max({1} \cup {n \in 1..(Len(lines) - 1) : Bytes(FirstLines(lines, n)) <= budget}))

\* The longest suffix within budget, never no line.
takeBack(lines, budget) ==
  IF lines = <<>> THEN <<>>
  ELSE LastLines(lines, Max({1} \cup {n \in 1..Len(lines) : Bytes(LastLines(lines, n)) <= budget}))

cut(lines, limit) ==
  LET head == take(lines, limit \div 2)
      tail == takeBack(LastLines(lines, Len(lines) - Len(head)), limit \div 2)
      dropped == Len(lines) - Len(head) - Len(tail)
  IN  IF Bytes(lines) <= limit \/ dropped <= 0 THEN [Silence EXCEPT !.head = lines]
      ELSE [head |-> head, tail |-> tail, dropped |-> dropped]

-----------------------------------------------------------------------------
\* The window of an Exchange.
From(e) == e.at - grace
To(e)   == e.at + e.took + grace

\* The other Exchanges of the container whose windows meet this one's.
countOverlaps(e, all) ==
  IF e.backend = "" THEN 0
  ELSE Cardinality({o \in all : /\ o.id # e.id /\ o.backend = e.backend
                                /\ From(o) < To(e) /\ From(e) < To(o)})

\* readLogs, both bounds inclusive.
InWindow(lines, from, to) ==
  FoldLeft(LAMBDA shown, l : IF from <= l.at /\ l.at <= to THEN Append(shown, l) ELSE shown, <<>>, lines)

\* A container listing says in which second a container was created, no more.
Created(c) == c.born - (c.born % Second)

\* quote: silent when nothing served, when no container has the name any more,
\* or when the one that has it (set of [born, lines], at most one) was created in
\* a second that began after the request.
\* Slip: whoever answers to the name is quoted.
quoteByName(e, named, limit) ==
  IF e.backend = "" \/ named = {} THEN Silence
  ELSE cut(InWindow((CHOOSE c \in named : TRUE).lines, From(e), To(e)), limit)

quote(e, named, limit) ==
  IF e.backend = "" \/ \A c \in named : Created(c) > e.at THEN Silence
  ELSE cut(InWindow((CHOOSE c \in named : TRUE).lines, From(e), To(e)), limit)
=============================================================================
