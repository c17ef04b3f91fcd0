---------------------------- MODULE Provenance ----------------------------
(***************************************************************************)
(* Which tickets a compile may name (local_git.rs, autostand-core           *)
(* provenance.rs, scrub.rs, meta.rs, deterministic.rs and the validation of  *)
(* render.rs): what git is asked, the tickets that the window forbids or     *)
(* already covers, the lines that the scrub drops, and the body.            *)
(*                                                                         *)
(* A text is the set of its lines, and a line is what the filters see of it: *)
(* whether its words give it away, and the tickets it names.                *)
(***************************************************************************)
EXTENDS Integers, FiniteSets, FiniteSetsExt

CONSTANTS Tickets,
          Within,    \* <<t, u>>: the key t occurs in the text of the key u
          MaxNotes   \* bound: lines of notes

\* flagged: its words match CLAIM_REGEX or META_REGEX.
TextLine == [flagged : BOOLEAN, tickets : SUBSET Tickets]

TicketsOf(text) == UNION {line.tickets : line \in text}

(***************************************************************************)
(* What is gathered.  In history a ticket has commits "inside" the window,  *)
(* "outside" of it, or both, by anybody.                                   *)
(***************************************************************************)

\* scan_commits: whether the user has commits in the window and the tickets they name (facts),
\* of the repositories that answered.  scan_ticket_days: the commit days of every ticket, of
\* the repositories that answered this time; asked only when the first scan found a commit.
Gathered ==
    {g \in [history : [Tickets -> SUBSET {"inside", "outside"}],
            facts   : SUBSET Tickets,
            commits : BOOLEAN,
            days    : [Tickets -> SUBSET {"inside", "outside"}],
            github  : SUBSET Tickets,
            reviews : {{}} \cup {{t} : t \in Tickets},
            notes   : UNION {kSubset(n, TextLine) : n \in 0 .. MaxNotes},
            conv    : {{}} \cup {{line} : line \in [flagged : {FALSE}, tickets : SUBSET Tickets]}] :
        /\ \A t \in g.facts : "inside" \in g.history[t]
        /\ \A t \in Tickets : g.days[t] \subseteq (IF g.commits THEN g.history[t] ELSE {})
        /\ g.facts # {} => g.commits}

(***************************************************************************)
(* compute                                                                 *)
(***************************************************************************)

\* git and GitHub own the narrative of these.
CoveredTickets(g) == g.facts \cup g.github

\* Mutant: one commit outside the window is enough.
ForbiddenByOne(g) == {t \in TicketsOf(g.notes) : "outside" \in g.days[t] /\ t \notin g.facts}

\* Named in a note, with commits, none of which is inside the window.
Forbidden(g) == {t \in TicketsOf(g.notes) : g.days[t] = {"outside"} /\ t \notin g.facts}

(***************************************************************************)
(* scrub_notes and the bodies                                              *)
(***************************************************************************)

\* line.contains(key): a key is found in a longer one.
Mentions(line, t) == \E u \in line.tickets : t = u \/ <<t, u>> \in Within

Scrub(g, text) ==
    {line \in text : /\ ~line.flagged
                     /\ \A t \in Forbidden(g) \cup CoveredTickets(g) : ~Mentions(line, t)}

\* What render_det takes as it is: the facts, GitHub's activity and the reviews.
Told(g) == g.facts \cup g.github \cup g.reviews

\* Mutant: the session digest is rendered as it was gathered.
BodyWithRawDigest(g) ==
    Told(g) \cup TicketsOf(Scrub(g, g.notes)) \cup TicketsOf(g.conv)

\* render_det, over the notes and the session digest as compile_file scrubs them.
DeterministicBody(g) ==
    Told(g) \cup TicketsOf(Scrub(g, g.notes)) \cup TicketsOf(Scrub(g, g.conv))

\* validate_render and decide_render: the tickets of a body that is accepted.
Accepted(g, named) == named \cap Forbidden(g) = {} /\ named \subseteq g.facts

Rendered(g) == {named \in SUBSET Tickets : Accepted(g, named)} \cup {DeterministicBody(g)}

(***************************************************************************)
(* What it should do                                                       *)
(***************************************************************************)

\* Named in a note, and as far as git says committed outside the window only.
KnownLate(g) == {t \in TicketsOf(g.notes) : g.days[t] = {"outside"}}

\* anti-backdating: whatever was rendered, the notes and the session digest add no such ticket
\* to what commits, GitHub and reviews tell.  (A review may tell of one: nothing scrubs the
\* reviews.  A ticket whose days git was not asked for, or did not give, is not known late.)
KnownLateIsNotAdded ==
    \A g \in Gathered : \A named \in Rendered(g) : named \cap KnownLate(g) \subseteq Told(g)

\* The other side, "a note may legitimately describe non-commit work": the deterministic body
\* names every ticket of a note bullet that nothing flags, unless the line also has the key of a
\* ticket that is told anyway or is known to be committed only outside, be it inside a longer key.
NotesAreTold ==
    \A g \in Gathered : \A line \in g.notes : \A t \in line.tickets :
        ~line.flagged =>
            \/ t \in DeterministicBody(g)
            \/ \E u \in Told(g) : Mentions(line, u)
            \/ \E u \in Tickets : Mentions(line, u) /\ g.days[u] = {"outside"}

=============================================================================
