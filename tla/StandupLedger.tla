--------------------------- MODULE StandupLedger ---------------------------
(***************************************************************************)
(* What a sequence of compiles promises, whatever fails on the way: the    *)
(* standup file of a date reports only work of the days that date claims,  *)
(* only work that has really happened, and it never forgets an item except *)
(* in favour of one that covers it.                                        *)
(***************************************************************************)
EXTENDS Calendar

CONSTANTS Work,      \* items of work: commits, note clauses, reviews
          DayOf,     \* the natural day each was done
          Covers,    \* <<v, w>>: a line reporting v counts as reporting w
          Files      \* the filing dates

VARIABLES mode,      \* the filing policy
          happened,  \* the work done so far
          ledger     \* what each file reports

ledgerVars == <<mode, happened, ledger>>

\* The work a file may report.
Admissible(f) == {w \in happened : DayOf[w] \in Claims(mode, f)}

Keeps(old, new) ==
    \A w \in old : w \in new \/ \E v \in new : <<v, w>> \in Covers

LedgerInit ==
    /\ mode \in Modes
    /\ happened = {}
    /\ ledger = [f \in Files |-> {}]

Happen(w) ==
    /\ w \in Work \ happened
    /\ happened' = happened \cup {w}
    /\ UNCHANGED <<mode, ledger>>

Publish(f, new) ==
    /\ new \subseteq Admissible(f)
    /\ Keeps(ledger[f], new)
    /\ ledger' = [ledger EXCEPT ![f] = new]
    /\ UNCHANGED <<mode, happened>>

LedgerNext ==
    \/ \E w \in Work : Happen(w)
    \/ \E f \in Files, new \in SUBSET Work : Publish(f, new)

LedgerSpec == LedgerInit /\ [][LedgerNext]_ledgerVars

=============================================================================
