------------------------------ MODULE Bullets ------------------------------
(***************************************************************************)
(* What accumulate (autostand-core accumulate.rs) does with the lines of    *)
(* two bodies, copies and order included.  DailyRuns merges sets of items   *)
(* over any relation Covers; here is the one textsim.rs computes.           *)
(***************************************************************************)
EXTENDS Selections, SequencesExt

CONSTANTS Words,     \* words that sig keeps
          MaxWords,  \* bounds of the lines and bodies that are compared
          MaxLines

ASSUME BulletsAssumption == MaxWords \in Nat /\ MaxLines \in Nat

\* A line as sig sees it: its significant words, in order, repetitions included.  (Bound: a
\* heading has one at most.)
Line == [bullet : {TRUE}, words : BoundedSeq(Words, MaxWords)]
        \cup [bullet : {FALSE}, words : BoundedSeq(Words, 1)]
BulletsOf(text) == Selected(text, {i \in DOMAIN text : text[i].bullet})

\* Mutant: a word that comes twice is found once.
OverlapOfDistinct(needle, line) == Cardinality(ToSet(needle) \cap ToSet(line.words))

\* best_match, for any number of words: how many of the needle's are in a line.
Overlap(needle, line) == Cardinality({i \in DOMAIN needle : Contains(line.words, needle[i])})

BestOverlap(needle, text) ==
    LET upTo[n \in 0 .. Len(text)] ==
            IF n = 0 THEN 0
            ELSE IF Overlap(needle, text[n]) >= upTo[n - 1] THEN Overlap(needle, text[n])
            ELSE upTo[n - 1]
    IN  upTo[Len(text)]

\* covered: half of the words in one line; a needle without words never is.
Covered(needle, text) == needle # <<>> /\ 2 * BestOverlap(needle, text) >= Len(needle)

\* Mutant: a bullet is looked for in the text that is being built.
AccumulateInPlace(new, old) ==
    FoldLeft(LAMBDA out, line : IF Covered(line.words, out) THEN out ELSE Append(out, line),
             new, BulletsOf(old))

\* accumulate: what the new body does not cover of the previous bullets goes to its end.
AccumulateLines(new, old) ==
    LET bullets == BulletsOf(old)
    IN  new \o Selected(bullets, {i \in DOMAIN bullets : ~Covered(bullets[i].words, new)})

(***************************************************************************)
(* What it should do                                                       *)
(***************************************************************************)

Bodies == BoundedSeq(Line, MaxLines)

Copies(line, text) == Cardinality({i \in 1 .. Len(text) : text[i] = line})

\* The reference: half of the words, counted by position, are in one line.
SaysHalf(line, other) ==
    LET found == {i \in 1 .. Len(line.words) : line.words[i] \in ToSet(other.words)}
    IN  found # {} /\ 2 * Cardinality(found) >= Len(line.words)

\* accumulate.rs:1, "accumulate-never-delete": of two previous bullets neither stands in for
\* the other; each is kept, as often as it was there, unless the new render itself says half
\* of it in one line, and the render is kept as it is.
BulletsAreKept ==
    \A new, old \in Bodies :
        LET merged == AccumulateLines(new, old)
        IN  /\ IsPrefix(new, merged)
            /\ \A line \in ToSet(BulletsOf(old)) :
                  ~ (\E other \in ToSet(new) : SaysHalf(line, other)) =>
                      Copies(line, merged) = Copies(line, new) + Copies(line, old)

\* Compiling the same file again and again does not multiply its bullets: what a run writes
\* holds no bullet more often than the render or the file before it, except a bullet without
\* a significant word, which covers nothing and is covered by nothing.
CopiesAreKept ==
    \A new, old \in Bodies :
        \A line \in ToSet(BulletsOf(old)) :
            line.words # <<>> =>
                \/ Copies(line, AccumulateLines(new, old)) <= Copies(line, new)
                \/ Copies(line, AccumulateLines(new, old)) <= Copies(line, old)

=============================================================================
