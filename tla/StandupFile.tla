---------------------------- MODULE StandupFile ----------------------------
(***************************************************************************)
(* One standup file on disk and everything that rewrites it (autostand-core *)
(* fileops.rs): a compile's set_auto, under the run lock, a regeneration's  *)
(* set_auto, under the run lock too but long after the user was shown what  *)
(* it replaces, and the user's add_manual, which takes no lock.  Each reads *)
(* the whole file, edits its own region and replaces the file through       *)
(* "<date>.md.tmp", one name that all writers share.                       *)
(*                                                                         *)
(* Names and inodes are told apart because a writer keeps its descriptor    *)
(* while another truncates or renames the name it was opened by.           *)
(***************************************************************************)
EXTENDS Naturals

CONSTANTS Compiles,     \* compiles of this host and date, each with work of its own
          Manuals,      \* add_manual calls, each with an item of its own
          Resolutions,  \* regenerations: a candidate of its own, and its resolution
          Inodes,       \* Create waits while none is free
          Faults,       \* a write may fail, and the application may die between steps
          Blank,        \* what File::create leaves in an inode
          None

Work == Compiles \cup Resolutions     \* what AUTO bullets can come from

Writers == Work \cup Manuals

\* This host's AUTO block, whether another host's block is there, the MANUAL region.
\* (The empty "default" block of add_manual's skeleton holds no work and is left out.)
Texts == [auto : SUBSET Work, peer : BOOLEAN, manual : SUBSET Manuals]

ASSUME StandupFileAssumption ==
    /\ Compiles \cap Resolutions = {} /\ Work \cap Manuals = {}
    /\ Faults \in BOOLEAN
    /\ None \notin Inodes /\ Blank \notin Texts

VARIABLES inode,  \* the content of each inode
          file,   \* the inode that <date>.md names, None when absent
          tmp,    \* the inode that <date>.md.tmp names
          pc,     \* where each writer stands
          prev,   \* the AUTO block a compile read before its render
          base,   \* the bytes a regeneration's candidate was compared with
          draft,  \* the text each writer is about to write
          fd,     \* the inode each writer has open
          dropped, \* history: the work users took off a body they were shown
          crossed, \* history: the writers that were between read and rename at one time
          misread  \* history: a write rests on what was read of a torn file

vars == <<inode, file, tmp, pc, prev, base, draft, fd, dropped, crossed, misread>>
locals == <<prev, base, draft, fd>>
history == <<dropped, crossed, misread>>

\* At rest, and at work with or without the run lock.
Resting == {"idle", "shown", "expired", "kept", "done", "failed", "dead"}
Critical == {"creating", "filling", "renaming"}
PCs == Resting \cup Critical \cup {"rendering", "previewing", "applying", "syncing"}

NoText == [auto |-> {}, peer |-> FALSE, manual |-> {}]

TypeOK ==
    /\ inode \in [Inodes -> {Blank} \cup Texts]
    /\ file \in {None} \cup Inodes
    /\ tmp \in {None} \cup Inodes
    /\ pc \in [Writers -> PCs]
    /\ prev \in [Compiles -> SUBSET Work]
    /\ base \in [Resolutions -> {Blank} \cup Texts]
    /\ draft \in [Writers -> Texts]
    /\ fd \in [Writers -> {None} \cup Inodes]
    /\ dropped \subseteq Work
    /\ crossed \subseteq Writers
    /\ misread \in BOOLEAN
    /\ \A w \in Writers : fd[w] # None <=> pc[w] = "filling"

\* The file is absent, or git pull has brought the block of another host.
Init ==
    /\ \/ /\ file = None
          /\ inode = [i \in Inodes |-> Blank]
       \/ \E f \in Inodes :
             /\ file = f
             /\ inode = [i \in Inodes |-> IF i = f THEN [NoText EXCEPT !.peer = TRUE]
                                                   ELSE Blank]
    /\ tmp = None
    /\ pc = [w \in Writers |-> "idle"]
    /\ prev = [c \in Compiles |-> {}]
    /\ base = [r \in Resolutions |-> Blank]
    /\ draft = [w \in Writers |-> NoText]
    /\ fd = [w \in Writers |-> None]
    /\ dropped = {}
    /\ crossed = {}
    /\ misread = FALSE

Goto(w, l) == pc' = [pc EXCEPT ![w] = l]

\* read_or_empty: a missing file reads like an empty one.
Bytes == IF file = None THEN Blank ELSE inode[file]

\* What is missing or only whitespace parses as a skeleton.
TextOf(b) == IF b = Blank THEN NoText ELSE b
Parsed == TextOf(Bytes)

InCriticalSection(w) == pc[w] \in Critical

\* Nobody keeps a writer from reading the file that another is about to replace.
Others(w) == {v \in Writers \ {w} : InCriticalSection(v)}
MayCross(w) == crossed' = IF Others(w) = {} THEN crossed ELSE crossed \cup Others(w) \cup {w}

\* The file is there, and empty.
Torn == file # None /\ inode[file] = Blank
MayMisread == misread' = (misread \/ Torn)

\* The run lock is held from a compile's first read to its last write, and by each of the
\* two commands of a regeneration.
LockIsFree == \A w \in Work : pc[w] \in Resting

(***************************************************************************)
(* Reading                                                                 *)
(***************************************************************************)

\* Mutant: the body is read before the run lock is taken.
ReadUnlocked(c) ==
    /\ c \in Compiles
    /\ pc[c] = "idle"
    /\ prev' = [prev EXCEPT ![c] = Parsed.auto]
    /\ MayMisread
    /\ Goto(c, "rendering")
    /\ UNCHANGED <<inode, file, tmp, base, draft, fd, dropped, crossed>>

\* read_auto_body, before the render is awaited.
ReadAutoBody(c) ==
    /\ c \in Compiles
    /\ pc[c] = "idle"
    /\ LockIsFree
    /\ prev' = [prev EXCEPT ![c] = Parsed.auto]
    /\ MayMisread
    /\ Goto(c, "rendering")
    /\ UNCHANGED <<inode, file, tmp, base, draft, fd, dropped, crossed>>

\* The merged body of a compile, or the body the user has chosen.
Body(w) == IF w \in Compiles THEN prev[w] \cup {w} ELSE draft[w].auto

\* set_auto reads the file again and replaces this host's block.
SetAuto(w) ==
    /\ pc[w] \in {"rendering", "applying"}
    /\ MayCross(w)
    /\ MayMisread
    /\ draft' = [draft EXCEPT ![w] = [Parsed EXCEPT !.auto = Body(w)]]
    /\ Goto(w, "creating")
    /\ UNCHANGED <<inode, file, tmp, prev, base, fd, dropped>>

\* add_manual appends to the MANUAL region of what it reads, lock or no lock.
AddManual(m) ==
    /\ m \in Manuals
    /\ pc[m] = "idle"
    /\ MayCross(m)
    /\ MayMisread
    /\ draft' = [draft EXCEPT ![m] = [Parsed EXCEPT !.manual = @ \cup {m}]]
    /\ Goto(m, "creating")
    /\ UNCHANGED <<inode, file, tmp, prev, base, fd, dropped>>

(***************************************************************************)
(* Regeneration                                                            *)
(***************************************************************************)

\* generate_candidate reads the file; the candidate is then compiled from an empty
\* directory, so that its body is its own work and nothing of the file's.
Preview(r) ==
    /\ r \in Resolutions
    /\ pc[r] = "idle"
    /\ LockIsFree
    /\ base' = [base EXCEPT ![r] = Bytes]
    /\ Goto(r, "previewing")
    /\ UNCHANGED <<inode, file, tmp, prev, draft, fd, history>>

\* write_pending, or the candidate could not be generated.
PreviewEnds(r) ==
    /\ r \in Resolutions
    /\ pc[r] = "previewing"
    /\ \E l \in {"shown", "failed"} : Goto(r, l)
    /\ UNCHANGED <<inode, file, tmp, locals, history>>

\* PREVIEW_TTL_MINUTES pass: validate_pending refuses the candidate from here on.
Expire(r) ==
    /\ r \in Resolutions
    /\ pc[r] = "shown"
    /\ Goto(r, "expired")
    /\ UNCHANGED <<inode, file, tmp, locals, history>>

\* KeepCurrent: the pending candidate is removed and the file left alone.
KeepCurrent(r) ==
    /\ r \in Resolutions
    /\ pc[r] = "shown"
    /\ LockIsFree
    /\ Goto(r, "kept")
    /\ UNCHANGED <<inode, file, tmp, locals, history>>

\* The two bodies side by side: UseCandidate takes one, Merge any bullets of both, and
\* never none (validate_auto_body).
Shown(r) == TextOf(base[r]).auto
Picks(r) == SUBSET (Shown(r) \cup {r}) \ {{}}

\* Mutant: the resolution is applied whatever became of the file.
ResolveUnchecked(r) ==
    /\ r \in Resolutions
    /\ pc[r] = "shown"
    /\ LockIsFree
    /\ MayMisread
    /\ \E body \in Picks(r) : draft' = [draft EXCEPT ![r] = [NoText EXCEPT !.auto = body]]
    /\ Goto(r, "applying")
    /\ UNCHANGED <<inode, file, tmp, prev, base, fd, dropped, crossed>>

\* UseCandidate and Merge, refused unless the file is the one the user compared with.
Resolve(r) ==
    /\ r \in Resolutions
    /\ pc[r] = "shown"
    /\ LockIsFree
    /\ Bytes = base[r]
    /\ MayMisread
    /\ \E body \in Picks(r) : draft' = [draft EXCEPT ![r] = [NoText EXCEPT !.auto = body]]
    /\ Goto(r, "applying")
    /\ UNCHANGED <<inode, file, tmp, prev, base, fd, dropped, crossed>>

\* Once the commit and the push have ended, remove_pending closes the candidate.
RemovePending(r) ==
    /\ r \in Resolutions
    /\ pc[r] = "syncing"
    /\ Goto(r, "done")
    /\ UNCHANGED <<inode, file, tmp, locals, history>>

(***************************************************************************)
(* write_atomic                                                            *)
(***************************************************************************)

Free(i) == i \notin {file, tmp} /\ \A w \in Writers : fd[w] # i

\* Mutant: the standup file itself is opened for writing.
CreateInPlace(w) ==
    /\ pc[w] = "creating"
    /\ \E i \in Inodes :
          /\ IF file = None THEN Free(i) ELSE i = file
          /\ file' = i
          /\ inode' = [inode EXCEPT ![i] = Blank]
          /\ fd' = [fd EXCEPT ![w] = i]
    /\ Goto(w, "filling")
    /\ UNCHANGED <<tmp, prev, base, draft, history>>

\* File::create truncates the temporary file that is there, or makes one.
Create(w) ==
    /\ pc[w] = "creating"
    /\ \E i \in Inodes :
          /\ IF tmp = None THEN Free(i) ELSE i = tmp
          /\ tmp' = i
          /\ inode' = [inode EXCEPT ![i] = Blank]
          /\ fd' = [fd EXCEPT ![w] = i]
    /\ Goto(w, "filling")
    /\ UNCHANGED <<file, prev, base, draft, history>>

\* A write from offset 0 over a longer text leaves its tail, whose MANUAL region is the
\* last one and so the one that parse returns.
Overlay(new, old) ==
    IF old = Blank THEN {new} ELSE {new, [new EXCEPT !.manual = old.manual]}

\* Mutant: the descriptor outlives the block it was opened in.
FillLeavesOpen(w) ==
    /\ pc[w] = "filling"
    /\ \E t \in Overlay(draft[w], inode[fd[w]]) : inode' = [inode EXCEPT ![fd[w]] = t]
    /\ Goto(w, "renaming")
    /\ UNCHANGED <<file, tmp, prev, base, draft, fd, history>>

\* write_all and sync_all, through the descriptor, which is then closed.
Fill(w) ==
    /\ pc[w] = "filling"
    /\ \E t \in Overlay(draft[w], inode[fd[w]]) : inode' = [inode EXCEPT ![fd[w]] = t]
    /\ fd' = [fd EXCEPT ![w] = None]
    /\ Goto(w, "renaming")
    /\ UNCHANGED <<file, tmp, prev, base, draft, history>>

\* A pending candidate is a file of its own, and survives what becomes of its resolution.
After(w, l) == IF w \in Resolutions THEN "shown" ELSE l

\* rename replaces the file by whatever the temporary name now names.  A resolution goes
\* on to commit and push; what it left out, of what the user was shown, is off by choice.
Rename(w) ==
    /\ pc[w] = "renaming"
    /\ IF tmp = None
       THEN /\ Goto(w, After(w, "failed"))
            /\ UNCHANGED <<file, tmp, dropped>>
       ELSE /\ file' = tmp
            /\ tmp' = None
            /\ Goto(w, IF w \in Resolutions THEN "syncing" ELSE "done")
            /\ dropped' = IF w \in Resolutions
                          THEN (dropped \cup Shown(w)) \ draft[w].auto
                          ELSE dropped
    /\ UNCHANGED <<inode, locals, crossed, misread>>

(***************************************************************************)
(* Faults                                                                  *)
(***************************************************************************)

\* An I/O error in write_atomic is returned to the caller; the temporary file stays.
WriteError(w) ==
    /\ Faults
    /\ InCriticalSection(w)
    /\ Goto(w, After(w, "failed"))
    /\ fd' = [fd EXCEPT ![w] = None]
    /\ UNCHANGED <<inode, file, tmp, prev, base, draft, history>>

\* The application dies with every writer it was running; the temporary file stays.
Crash ==
    /\ Faults
    /\ \E w \in Writers : pc[w] \notin Resting
    /\ pc' = [w \in Writers |->
                 CASE pc[w] \in Resting -> pc[w]
                   [] pc[w] = "previewing" -> "dead"
                   [] OTHER -> After(w, "dead")]
    /\ fd' = [w \in Writers |-> None]
    /\ UNCHANGED <<inode, file, tmp, prev, base, draft, history>>

Step(w) ==
    \/ ReadAutoBody(w) \/ SetAuto(w) \/ AddManual(w)
    \/ Preview(w) \/ PreviewEnds(w) \/ Expire(w)
    \/ KeepCurrent(w) \/ Resolve(w) \/ RemovePending(w)
    \/ Create(w) \/ Fill(w) \/ Rename(w)

Next == (\E w \in Writers : Step(w) \/ WriteError(w)) \/ Crash

Spec == Init /\ [][Next]_vars

(***************************************************************************)
(* Properties                                                              *)
(***************************************************************************)

\* 05-security.md, "File corruption on crash: atomic write-then-rename": a crash at any
\* point leaves the old text or the new one.  Only a writer that crossed another and has
\* not written, or never will, leaves it the shared temporary file empty.
NeverTorn == Torn => \E w \in crossed : pc[w] \notin {"syncing", "done"}

\* standup-file-format.md:66, "autostand never overwrites the inner content" of MANUAL,
\* accumulate's promise for AUTO and the base check of regeneration.rs:243: what was
\* acknowledged stays in the file until a user who was shown it takes it off, whatever
\* others cross later on; unless the write itself was crossed, or a regeneration was, or
\* somebody has started from a torn file.
Acknowledged(w) == IF w \in Resolutions THEN draft[w].auto ELSE {w}

NoUpdateLost ==
    ~misread /\ ~Torn /\ crossed \cap Resolutions = {} =>
        \A w \in Writers \ crossed : pc[w] = "done" =>
            Acknowledged(w) \subseteq Parsed.auto \cup Parsed.manual \cup dropped

\* The same sentence of standup-file-format.md for the writes that were crossed, once all
\* have come to rest: no compile has overwritten an item the user was told is saved.
ManualNeverOverwritten ==
    (\A w \in Writers : pc[w] \in {"done", "failed"})
        => \A m \in Manuals : pc[m] = "done" => m \in Parsed.manual

\* The run lock does its part: those that take it never cross each other, so that no write
\* is crossed but through an add_manual.
OnlyManualsCross ==
    /\ crossed # {} => crossed \cap Manuals # {}
    /\ \A v, w \in Work : InCriticalSection(v) /\ InCriticalSection(w) => v = w

\* Another host's block outlives every write, crash and crossing, but for a write that
\* started from a torn file.
PeerUntouched == Parsed.peer => [](Torn \/ misread \/ Parsed.peer)

\* Refinement: each write that is not crossed looks like one edit, made at once and on the
\* text that is there, although it is a read, a create, a fill and a rename, begun from a
\* body that was read before an await or a user's half hour; a writer that fails or dies
\* has edited nothing.
Edits == INSTANCE StandupEdits
            WITH text <- Parsed,
                 saved <- {w \in Compiles \cup Manuals : pc[w] = "done"}
EditsAreAtomic == Edits!EditsSpec

=============================================================================
