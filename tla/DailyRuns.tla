----------------------------- MODULE DailyRuns -----------------------------
(***************************************************************************)
(* The compile pipeline over several days (pipeline_runner.rs run and       *)
(* compile_one, autostand-core pipeline.rs compile_file): which files a run *)
(* compiles, what each compile gathers, renders, merges and writes, and     *)
(* what it leaves on disk for the next run to trust.                        *)
(*                                                                         *)
(* Runs of one machine are serialised by the lock of RunLock, so there is   *)
(* one run at a time here; midnight, new work and a crash may come between  *)
(* any two of its steps.  The text of a standup is the set of the items of  *)
(* work it reports.                                                        *)
(***************************************************************************)
EXTENDS Calendar

CONSTANTS Work,          \* items of work: commits, note clauses, reviews
          Commits,       \* the items that local git reports (FACTS)
          DayOf,         \* the natural day each item was done
          Covers,        \* <<v, w>>: textsim::covered finds w's bullet in a line on v
          FirstDay,      \* the days the model lives through
          LastDay,
          OnlyDates,     \* dates compile_standup or --date may name
          ArchiveModes,  \* the filing policies to start from
          RenderModes,   \* "Det", "Auto", "Llm"
          Flaky,         \* sources, writes and processes may fail
          Misreads,      \* reading a standup file back may fail
          None

\* Every file a run of these days may name.
Files == FirstDay - 3 .. LastDay + 3

ASSUME DailyRunsAssumption ==
    /\ FirstDay \in Day /\ LastDay \in Day /\ FirstDay <= LastDay
    /\ Commits \subseteq Work
    /\ DayOf \in [Work -> Day]
    /\ Covers \subseteq Work \X Work
    /\ OnlyDates \subseteq Files
    /\ ArchiveModes \subseteq Modes
    /\ RenderModes \subseteq {"Det", "Auto", "Llm"}
    /\ Flaky \in BOOLEAN /\ Misreads \in BOOLEAN
    /\ \A S \in SUBSET Work : S # None

VARIABLES mode,        \* dates.archive_mode
          today,       \* Local::now().date_naive()
          happened,    \* the work done so far
          block,       \* this host's AUTO block in each file, None when absent or blank
          recorded,    \* the audit sidecar says that the last compile saw repos
          hash,        \* the inputs of the last clean LLM render, None when not persisted
          pc,          \* where the run stands
          targets,     \* the files of this run
          slot,        \* the one being compiled; the second is the self-heal slot
          source,      \* what triggered the run
          renderMode,  \* config.render_mode, as loaded by the run
          selfHeal,    \* config.scheduler.self_heal, as loaded by the run
          asOf,        \* the day the current target's window was clamped to
          facts,       \* what the current target gathered
          prev,        \* the AUTO body read before the render
          decision,    \* RenderDecision
          body         \* the rendered body

world == <<mode, today, happened>>
disk == <<block, recorded, hash>>
target == <<asOf, facts, prev, decision, body>>
config == <<targets, source, renderMode, selfHeal>>
vars == <<mode, today, happened, block, recorded, hash, pc, targets, slot,
          source, renderMode, selfHeal, asOf, facts, prev, decision, body>>

PCs == {"idle", "target", "gathering", "gathered", "rendering", "writing",
        "auditing", "enriching", "hashing"}

TargetLists == {<<f>> : f \in Files} \cup {<<f, g>> : f, g \in Files}

TypeOK ==
    /\ mode \in Modes
    /\ today \in FirstDay .. LastDay
    /\ happened \subseteq Work
    /\ block \in [Files -> {None} \cup SUBSET Work]
    /\ recorded \in [Files -> BOOLEAN]
    /\ hash \in [Files -> {None} \cup SUBSET Work]
    /\ pc \in PCs
    /\ targets \in TargetLists
    /\ slot \in 1 .. 3
    /\ source \in {"scheduled", "manual"}
    /\ renderMode \in {"Det", "Auto", "Llm"}
    /\ selfHeal \in BOOLEAN
    /\ asOf \in {None} \cup FirstDay .. LastDay
    /\ facts \subseteq Work
    /\ prev \in {None} \cup SUBSET Work
    /\ decision \in {"none", "deterministic", "accepted", "fallback"}
    /\ body \subseteq Work

Init ==
    /\ mode \in ArchiveModes
    /\ today = FirstDay
    /\ happened = {}
    /\ block = [f \in Files |-> None]
    /\ recorded = [f \in Files |-> FALSE]
    /\ hash = [f \in Files |-> None]
    /\ pc = "idle"
    /\ targets = <<FirstDay>>
    /\ slot = 1
    /\ source = "scheduled"
    /\ renderMode = "Det"
    /\ selfHeal = FALSE
    /\ asOf = None
    /\ facts = {}
    /\ prev = None
    /\ decision = "none"
    /\ body = {}

(***************************************************************************)
(* Helpers                                                                 *)
(***************************************************************************)

file == targets[slot]

TargetSource == IF slot = 1 THEN source ELSE "self-heal"

Items(b) == IF b = None THEN {} ELSE b

\* read_auto_body: a file that cannot be read or parsed looks like one with no block.
AutoBody(f) == IF Misreads THEN {block[f], None} ELSE {block[f]}

IsFrozen(b) == b # None

\* Mutant: accumulate only re-injects into an empty render.
AccumulateEmpty(new, old) == IF new = {} THEN old ELSE new

\* accumulate: re-inject each previous bullet that no line of the new body covers.
Accumulate(new, old) ==
    new \cup {w \in old : ~ \E v \in new : <<v, w>> \in Covers}

ForgetTarget ==
    /\ asOf' = None
    /\ facts' = {}
    /\ prev' = None
    /\ decision' = "none"
    /\ body' = {}

NextTarget ==
    /\ pc' = "target"
    /\ slot' = slot + 1
    /\ ForgetTarget
    /\ UNCHANGED config

Continue(l) ==
    /\ pc' = l
    /\ UNCHANGED <<slot, config>>

ForgetRun ==
    /\ pc' = "idle"
    /\ targets' = <<FirstDay>>
    /\ slot' = 1
    /\ source' = "scheduled"
    /\ renderMode' = "Det"
    /\ selfHeal' = FALSE
    /\ ForgetTarget

(***************************************************************************)
(* The run                                                                 *)
(***************************************************************************)

\* run: the configuration is loaded, today read and the targets chosen, once.
Begin(src, only, rm, heal) ==
    /\ pc = "idle"
    /\ pc' = "target"
    /\ targets' = IF only = None THEN Targets(mode, today) ELSE <<only>>
    /\ slot' = 1
    /\ source' = src
    /\ renderMode' = rm
    /\ selfHeal' = heal
    /\ UNCHANGED <<world, disk, target>>

\* Mutant: the self-heal slot is compiled whether or not its block is filled.
UngatedMayCompile == slot = 1 \/ selfHeal

\* run's loop: the first target always, the second when self_heal_gate lets it.
MayCompile == slot = 1 \/ (selfHeal /\ \E b \in AutoBody(file) : ~IsFrozen(b))

\* self_heal_gate: the second slot is left alone when healing is off or it is frozen.
SkipFrozen ==
    /\ pc = "target"
    /\ slot = 2 /\ slot <= Len(targets)
    /\ ~selfHeal \/ \E b \in AutoBody(file) : IsFrozen(b)
    /\ NextTarget
    /\ UNCHANGED <<world, disk>>

\* compile_one (a): today is read again, for the window.
OpenWindow ==
    /\ pc = "target"
    /\ slot <= Len(targets)
    /\ MayCompile
    /\ Window(mode, file, today) # {}
    /\ asOf' = today
    /\ Continue("gathering")
    /\ UNCHANGED <<world, disk, facts, prev, decision, body>>

SkipBeyond ==
    /\ pc = "target"
    /\ slot <= Len(targets)
    /\ MayCompile
    /\ Window(mode, file, today) = {}
    /\ NextTarget
    /\ UNCHANGED <<world, disk>>

Available == {w \in happened : DayOf[w] \in Window(mode, file, asOf)}

\* (b, c, e): a source that fails, times out or serves a stale cache leaves items out.
Gather ==
    /\ pc = "gathering"
    /\ facts' \in IF Flaky THEN SUBSET Available ELSE {Available}
    /\ Continue("gathered")
    /\ UNCHANGED <<world, disk, asOf, prev, decision, body>>

\* (d) FACTS are empty although the last compile of this file saw repos.
Regression == recorded[file] /\ facts \cap Commits = {}

SkipRegression ==
    /\ pc = "gathered"
    /\ Regression
    /\ NextTarget
    /\ UNCHANGED <<world, disk>>

Unchanged == TargetSource # "manual" /\ hash[file] = facts

\* (j) the inputs are those of the last clean LLM render.
SkipUnchanged ==
    /\ pc = "gathered"
    /\ ~Regression /\ Unchanged
    /\ NextTarget
    /\ UNCHANGED <<world, disk>>

\* (k) the block is read here, and written back merged after the render's await.
ReadExisting ==
    /\ pc = "gathered"
    /\ ~Regression /\ ~Unchanged
    /\ prev' \in AutoBody(file)
    /\ Continue("rendering")
    /\ UNCHANGED <<world, disk, asOf, facts, decision, body>>

\* (m, n) An accepted LLM body says what it likes of the facts and of the previous body.
RenderWith(d, b) ==
    /\ pc = "rendering"
    /\ decision' = d
    /\ body' = b
    /\ Continue("writing")
    /\ UNCHANGED <<world, disk, asOf, facts, prev>>

RenderDeterministic == renderMode = "Det" /\ RenderWith("deterministic", facts)

RenderAccepted ==
    /\ renderMode # "Det"
    /\ \E b \in SUBSET (facts \cup Items(prev)) : RenderWith("accepted", b)

\* No provider, or a body that failed validation: Auto degrades...
RenderFallback == renderMode = "Auto" /\ RenderWith("fallback", facts)

\* ... and strict Llm turns the target into an error.
RenderRefused ==
    /\ pc = "rendering"
    /\ renderMode = "Llm"
    /\ NextTarget
    /\ UNCHANGED <<world, disk>>

\* The block as set_auto leaves it: blank when nothing was rendered and nothing kept.
Written ==
    LET merged == Accumulate(body, Items(prev))
    IN  IF merged = {} /\ prev = None /\ decision # "accepted" THEN None ELSE merged

\* (l, o, p, r) compile_file up to set_auto, whose rename is atomic.
Write ==
    /\ pc = "writing"
    /\ block' = [block EXCEPT ![file] = Written]
    /\ prev' = None
    /\ body' = {}
    /\ Continue("auditing")
    /\ UNCHANGED <<world, recorded, hash, asOf, facts, decision>>

WriteFails ==
    /\ Flaky
    /\ pc = "writing"
    /\ NextTarget
    /\ UNCHANGED <<world, disk>>

\* compile_file's write_sidecar: a fresh sidecar, with tickets but not yet with facts.
WriteSidecar ==
    /\ pc = "auditing"
    /\ \/ /\ \E tickets \in BOOLEAN : recorded' = [recorded EXCEPT ![file] = tickets]
          /\ Continue("enriching")
       \/ /\ Flaky
          /\ Continue("hashing")
          /\ UNCHANGED recorded
    /\ UNCHANGED <<world, block, hash, target>>

\* (q) enrich_sidecar: the facts that the next run's anti-regression guard counts.
EnrichSidecar ==
    /\ pc = "enriching"
    /\ \/ recorded' = [recorded EXCEPT ![file] = facts \cap Commits # {}]
       \/ Flaky /\ UNCHANGED recorded
    /\ Continue("hashing")
    /\ UNCHANGED <<world, block, hash, target>>

\* Mutant: the hash is persisted after a fallback render too.
PersistAlways ==
    /\ pc = "hashing"
    /\ hash' = [hash EXCEPT ![file] = facts]
    /\ NextTarget
    /\ UNCHANGED <<world, block, recorded>>

\* (s) only a clean LLM render earns a persisted hash.
PersistHash ==
    /\ pc = "hashing"
    /\ \/ decision = "accepted" /\ hash' = [hash EXCEPT ![file] = facts]
       \/ (decision # "accepted" \/ Flaky) /\ UNCHANGED hash
    /\ NextTarget
    /\ UNCHANGED <<world, block, recorded>>

\* The end of every run that had the lock, whatever its targets came to.
EndRun ==
    /\ pc = "target"
    /\ slot > Len(targets)
    /\ ForgetRun
    /\ UNCHANGED <<world, disk>>

(***************************************************************************)
(* The environment                                                         *)
(***************************************************************************)

\* The process dies; the file system keeps what was renamed into place.
Crash ==
    /\ Flaky
    /\ pc # "idle"
    /\ ForgetRun
    /\ UNCHANGED <<world, disk>>

\* Work becomes visible on its day or later (a note written late, a branch pulled late).
Happen(w) ==
    /\ w \notin happened
    /\ DayOf[w] <= today
    /\ happened' = happened \cup {w}
    /\ UNCHANGED <<mode, today, disk, pc, slot, config, target>>

Midnight ==
    /\ today < LastDay
    /\ today' = today + 1
    /\ UNCHANGED <<mode, happened, disk, pc, slot, config, target>>

Compile ==
    \/ SkipFrozen \/ OpenWindow \/ SkipBeyond
    \/ Gather \/ SkipRegression \/ SkipUnchanged \/ ReadExisting
    \/ RenderDeterministic \/ RenderAccepted \/ RenderFallback \/ RenderRefused
    \/ Write \/ WriteFails \/ WriteSidecar \/ EnrichSidecar \/ PersistHash
    \/ EndRun

Next ==
    \/ \E src \in {"scheduled", "manual"}, only \in OnlyDates \cup {None},
          rm \in RenderModes, heal \in BOOLEAN : Begin(src, only, rm, heal)
    \/ Compile
    \/ Crash
    \/ \E w \in Work : Happen(w)
    \/ Midnight

Spec == Init /\ [][Next]_vars

(***************************************************************************)
(* Properties                                                              *)
(***************************************************************************)

Ledger == INSTANCE StandupLedger WITH ledger <- [f \in Files |-> Items(block[f])]

\* Every compile, whatever fails inside it, publishes work that its file may claim and
\* forgets nothing but what the new body covers.
KeepsTheLedger == Ledger!LedgerSpec

\* Anti-backdating: the file of a business day reports the work that the filing rule
\* sends there and no other, late work and midnight in the middle of a run included.
NoBackdating ==
    \A f \in Files \cap BusinessDay : \A w \in Items(block[f]) :
        FilingDate(mode, DayOf[w]) = f

\* selfheal.rs, "Once the block has content, the day is final": a filled block changes
\* only in a run that was asked for that very file, never in the self-heal slot.
FrozenIsFinal ==
    [][\A f \in Files : block[f] # None /\ block'[f] # block[f] => f = targets[1]]_vars

\* A persisted hash stands for a block that reached the disk, so the dirty check never
\* skips a file that was not written.
HashMeansWritten == \A f \in Files : hash[f] # None => block[f] # None

\* anti-backdating.md, "no work is lost between runs": no file ever stops reporting an
\* item that it has reported.
NoWorkLost == [][\A f \in Files : Items(block[f]) \subseteq Items(block'[f])]_vars

=============================================================================
