-------------------------- MODULE DailyRuns_proofs --------------------------
(***************************************************************************)
(* What the compile pipeline keeps true for every set of items, calendar    *)
(* span, filing policy and pattern of failures, provided that a standup     *)
(* file that exists can be read back (Misreads = FALSE).                    *)
(***************************************************************************)
EXTENDS CompileText, Induction, SequenceTheorems

(***************************************************************************)
(* The window contract of dates.rs, for every day of the calendar: the     *)
(* business-day files partition the natural days, weekends included, and   *)
(* the filing rule names the file whose window holds the day.              *)
(***************************************************************************)

\* prev_business_day_before in closed form: the walk always ends within three days.
LEMMA PrevBusinessDayClosedForm ==
    ASSUME NEW d \in Day
    PROVE  PrevBusinessDayBefore(d) =
               IF Weekday(d) = 0 THEN d - 3
               ELSE IF Weekday(d) = 6 THEN d - 2
               ELSE d - 1
<1> DEFINE back == IF Weekday(d) = 0 THEN d - 3
                   ELSE IF Weekday(d) = 6 THEN d - 2
                   ELSE d - 1
           Stops(c) == ~IsWeekend(c) /\ \A b \in c + 1 .. d - 1 : IsWeekend(b)
<1>1. back \in d - 3 .. d - 1
  BY DEF Day
<1>2. Stops(back)
  BY DEF Day, IsWeekend, Weekday
<1>3. ASSUME NEW c \in d - 3 .. d - 1, Stops(c)
      PROVE  c = back
  <2>1. CASE c < back
    <3>1. back \in c + 1 .. d - 1
      BY <1>1, <2>1 DEF Day
    <3> QED
      BY <3>1, <1>2, <1>3
  <2>2. CASE back < c
    <3>1. c \in back + 1 .. d - 1
      BY <1>1, <2>2 DEF Day
    <3> QED
      BY <3>1, <1>2, <1>3
  <2>3. c \in Int /\ back \in Int
    BY <1>1 DEF Day
  <2> QED
    BY <2>1, <2>2, <2>3
<1> HIDE DEF back
<1>4. PrevBusinessDayBefore(d) = CHOOSE c \in d - 3 .. d - 1 : Stops(c)
  BY DEF PrevBusinessDayBefore
<1>5. PrevBusinessDayBefore(d) = back
  BY <1>1, <1>2, <1>3, <1>4
<1> QED
  BY <1>5 DEF back

\* Both directions of the walk stay within three days of where they start.
LEMMA NearDays ==
    ASSUME NEW d \in Day, NEW m \in Modes
    PROVE  /\ PrevBusinessDayBefore(d) \in d - 3 .. d - 1
           /\ FilingDate(m, d) \in d .. d + 3
<1>1. PrevBusinessDayBefore(d) \in d - 3 .. d - 1
  BY PrevBusinessDayClosedForm DEF Day
<1>2. FilingDate(m, d) \in d .. d + 3
  BY DEF FilingDate, NextBusinessDay, Day
<1> QED
  BY <1>1, <1>2

\* No standup is ever named after a Saturday or a Sunday (filing_date's doc comment).
THEOREM FilesAreBusinessDays ==
    \A m \in Modes, d \in Day : FilingDate(m, d) \in BusinessDay
  BY DEF FilingDate, NextBusinessDay, BusinessDay, IsWeekend, Weekday, Day, Modes

\* The window contract: a business-day file claims a day exactly when the filing rule
\* sends the day there, so no day is claimed twice and none is dropped.
THEOREM WindowsPartitionDays ==
    \A m \in Modes, f \in BusinessDay, d \in Day :
        d \in Claims(m, f) <=> FilingDate(m, d) = f
<1> SUFFICES ASSUME NEW m \in Modes, NEW f \in BusinessDay, NEW d \in Day
             PROVE  d \in Claims(m, f) <=> FilingDate(m, d) = f
  OBVIOUS
<1>1. f \in Day /\ Weekday(f) \in 0 .. 4
  BY DEF BusinessDay, IsWeekend, Weekday, Day
<1>2. PrevBusinessDayBefore(f) = IF Weekday(f) = 0 THEN f - 3 ELSE f - 1
  BY <1>1, PrevBusinessDayClosedForm
<1>3. CASE m = "same_day"
  <2>1. FilingDate(m, d) = IF IsWeekend(d) THEN NextBusinessDay(d) ELSE d
    BY <1>3 DEF FilingDate
  <2>2. Claims(m, f) = PrevBusinessDayBefore(f) + 1 .. f
    BY <1>3 DEF Claims, WindowStart, LastClaimable
  <2>3. IsWeekend(d) =>
            NextBusinessDay(d) = IF Weekday(d) = 5 THEN d + 2 ELSE d + 1
    BY DEF NextBusinessDay, IsWeekend
  <2> QED
    BY <1>1, <1>2, <2>1, <2>2, <2>3 DEF IsWeekend, Weekday, Day
<1>4. CASE m = "next_business_day"
  BY <1>1, <1>2, <1>4
     DEF Claims, WindowStart, LastClaimable, FilingDate, NextBusinessDay, IsWeekend, Weekday, Day
<1> QED
  BY <1>3, <1>4 DEF Modes

\* Today's run always finds a window for its primary file that reaches today, so it is
\* never turned away as "beyond the work we have".
THEOREM TodayIsInItsWindow ==
    \A m \in Modes, d \in Day :
        d \in Window(m, TodayFile(m, d), d)
  BY FilesAreBusinessDays, WindowsPartitionDays DEF Window, TodayFile, Day

\* The self-heal slot names an earlier file, or collapses into the primary one, and it
\* collapses exactly on a weekend under next_business_day (compute_targets' comment).
THEOREM SelfHealSlotIsEarlier ==
    \A m \in Modes, d \in Day :
        /\ PrevFile(m, d) <= TodayFile(m, d)
        /\ PrevFile(m, d) = TodayFile(m, d)
               <=> m = "next_business_day" /\ IsWeekend(d)
<1> SUFFICES ASSUME NEW m \in Modes, NEW d \in Day
             PROVE  /\ PrevFile(m, d) <= TodayFile(m, d)
                    /\ PrevFile(m, d) = TodayFile(m, d)
                           <=> m = "next_business_day" /\ IsWeekend(d)
  OBVIOUS
<1>1. PrevBusinessDayBefore(d) =
          IF Weekday(d) = 0 THEN d - 3
          ELSE IF Weekday(d) = 6 THEN d - 2
          ELSE d - 1
  BY PrevBusinessDayClosedForm
<1>2. Weekday(d) \in 0 .. 6
  BY DEF Weekday, Day
<1>3. CASE m = "same_day"
  <2>1. ~IsWeekend(PrevBusinessDayBefore(d))
    BY <1>1, <1>2 DEF IsWeekend, Weekday, Day
  <2>2. PrevFile(m, d) = PrevBusinessDayBefore(d)
    BY <1>3, <2>1 DEF PrevFile, FilingDate
  <2>3. PrevFile(m, d) < d
    BY <1>1, <2>2 DEF Day
  <2>4. TodayFile(m, d) >= d
    BY NearDays DEF TodayFile, Day
  <2> QED
    BY <1>3, <2>3, <2>4, NearDays DEF TodayFile, PrevFile, Day
<1>4. CASE m = "next_business_day"
  BY <1>1, <1>2, <1>4
     DEF PrevFile, TodayFile, FilingDate, NextBusinessDay, IsWeekend, Weekday, Day
<1> QED
  BY <1>3, <1>4 DEF Modes

(***************************************************************************)
(* The pipeline                                                            *)
(***************************************************************************)

\* A run between its targets' first and last steps is at one of them.
SlotInRange == pc \notin {"idle", "target"} => slot <= Len(targets)

TypeInv == TypeOK /\ SlotInRange

LEMMA TargetListLength ==
    ASSUME NEW t \in TargetLists
    PROVE  /\ Len(t) \in 1 .. 2
           /\ \A s \in 1 .. 3 : s <= Len(t) => t[s] \in Files
  BY DEF TargetLists

LEMMA TargetsAreFiles ==
    ASSUME NEW m \in Modes, NEW d \in FirstDay .. LastDay
    PROVE  Targets(m, d) \in TargetLists
<1> USE DailyRunsAssumption DEF DailyRunsAssumption
<1>1. d \in Day
  BY DEF Day
<1>2. TodayFile(m, d) \in Files
  BY <1>1, NearDays DEF TodayFile, Files, Day
<1>3. PrevBusinessDayBefore(d) \in d - 3 .. d - 1
  BY <1>1, NearDays
<1>4. PrevBusinessDayBefore(d) \in Day
  BY <1>1, <1>3 DEF Day
<1>5. PrevFile(m, d) \in PrevBusinessDayBefore(d) .. PrevBusinessDayBefore(d) + 3
  BY <1>4, NearDays DEF PrevFile
<1>6. PrevFile(m, d) \in Files
  BY <1>1, <1>3, <1>5 DEF Files, Day
<1> QED
  BY <1>2, <1>6 DEF Targets, TargetLists

LEMMA NextTargetTyped ==
    ASSUME TypeOK, NextTarget, slot <= Len(targets)
    PROVE  /\ pc' = "target" /\ slot' \in 1 .. 3
           /\ asOf' = None /\ facts' = {} /\ prev' = None
           /\ decision' = "none" /\ body' = {}
           /\ UNCHANGED config
<1>1. Len(targets) \in 1 .. 2
  BY TargetListLength DEF TypeOK
<1>2. slot \in 1 .. 3 /\ slot' = slot + 1
  BY DEF TypeOK, NextTarget
<1>3. UNCHANGED config
  BY DEF NextTarget
<1>4. pc' = "target"
  BY DEF NextTarget
<1>5. asOf' = None /\ facts' = {} /\ prev' = None /\ decision' = "none" /\ body' = {}
  BY DEF NextTarget, ForgetTarget
<1>6. slot' \in 1 .. 3
  <2> DEFINE n == Len(targets)
  <2>1. n \in 1 .. 2 /\ slot <= n
    BY <1>1
  <2> HIDE DEF n
  <2> QED
    BY <2>1, <1>2
<1> QED
  BY <1>3, <1>4, <1>5, <1>6, Zenon

\* Every value a step leaves has its type, whatever the step.
LEMMA TypeStep == TypeInv /\ [Next]_vars => TypeInv'
<1> SUFFICES ASSUME TypeInv, [Next]_vars
             PROVE  TypeInv'
  OBVIOUS
<1> USE DEF TypeInv
<1>0. Len(targets) \in 1 .. 2 /\ (slot <= Len(targets) => file \in Files)
  BY TargetListLength DEF TypeOK, file
<1>1. ASSUME NEW src \in {"scheduled", "manual"}, NEW only \in OnlyDates \cup {None},
             NEW rm \in RenderModes, NEW heal \in BOOLEAN, Begin(src, only, rm, heal)
      PROVE  TypeInv'
  <2>1. targets' \in TargetLists
    BY <1>1, TargetsAreFiles, DailyRunsAssumption DEF DailyRunsAssumption, Begin, TypeOK, TargetLists
  <2>2. renderMode' \in {"Det", "Auto", "Llm"}
    BY <1>1, DailyRunsAssumption DEF DailyRunsAssumption, Begin
  <2>3. selfHeal' \in BOOLEAN
    BY <1>1, Zenon DEF Begin
  <2> QED
    BY <1>1, <2>1, <2>2, <2>3 DEF Begin, TypeOK, SlotInRange, PCs, world, disk, target
<1>2. CASE SkipFrozen
  BY <1>2, NextTargetTyped DEF SkipFrozen, TypeOK, SlotInRange, PCs, world, disk, config
<1>3. CASE OpenWindow
  BY <1>3 DEF OpenWindow, Continue, TypeOK, SlotInRange, PCs, world, disk, config
<1>4. CASE SkipBeyond
  BY <1>4, NextTargetTyped DEF SkipBeyond, TypeOK, SlotInRange, PCs, world, disk, config
<1>5. CASE Gather
  <2>1. facts' \subseteq Work
    BY <1>5 DEF Gather, Available, TypeOK
  <2> QED
    BY <1>5, <2>1 DEF Gather, Continue, TypeOK, SlotInRange, PCs, world, disk, config
<1>6. CASE SkipRegression
  BY <1>6, NextTargetTyped DEF SkipRegression, TypeOK, SlotInRange, PCs, world, disk, config
<1>7. CASE SkipUnchanged
  BY <1>7, NextTargetTyped DEF SkipUnchanged, TypeOK, SlotInRange, PCs, world, disk, config
<1>8. CASE ReadExisting
  <2>1. prev' \in {None} \cup SUBSET Work
    BY <1>8, <1>0 DEF ReadExisting, AutoBody, TypeOK, SlotInRange
  <2> QED
    BY <1>8, <2>1 DEF ReadExisting, Continue, TypeOK, SlotInRange, PCs, world, disk, config
<1>9. ASSUME NEW d \in {"deterministic", "accepted", "fallback"},
             NEW b \in SUBSET Work, RenderWith(d, b)
      PROVE  TypeInv'
  BY <1>9 DEF RenderWith, Continue, TypeOK, SlotInRange, PCs, world, disk, config
<1>10. CASE RenderDeterministic
  BY <1>10, <1>9 DEF RenderDeterministic, TypeOK
<1>11. CASE RenderAccepted
  BY <1>11, <1>9 DEF RenderAccepted, Items, TypeOK
<1>12. CASE RenderFallback
  BY <1>12, <1>9 DEF RenderFallback, TypeOK
<1>13. CASE RenderRefused
  BY <1>13, NextTargetTyped DEF RenderRefused, TypeOK, SlotInRange, PCs, world, disk, config
<1>14. CASE Write
  <2>1. Written \in {None} \cup SUBSET Work
    BY DEF Written, Accumulate, Items, TypeOK
  <2>2. block \in [Files -> {None} \cup SUBSET Work]
    BY DEF TypeOK
  <2>3. block' = [block EXCEPT ![file] = Written]
    BY <1>14 DEF Write
  <2>4. block' \in [Files -> {None} \cup SUBSET Work]
    BY <2>1, <2>2, <2>3
  <2> QED
    BY <1>14, <2>4 DEF Write, Continue, TypeOK, SlotInRange, PCs, world, config
<1>15. CASE WriteFails
  BY <1>15, NextTargetTyped DEF WriteFails, TypeOK, SlotInRange, PCs, world, disk, config
<1>16. CASE WriteSidecar
  <2>1. recorded' \in [Files -> BOOLEAN]
    BY <1>16 DEF WriteSidecar, TypeOK
  <2> QED
    BY <1>16, <2>1 DEF WriteSidecar, Continue, TypeOK, SlotInRange, PCs, world, config, target
<1>17. CASE EnrichSidecar
  <2>1. (facts \cap Commits # {}) \in BOOLEAN
    BY Zenon
  <2>2. \/ recorded' = [recorded EXCEPT ![file] = facts \cap Commits # {}]
        \/ recorded' = recorded
    BY <1>17 DEF EnrichSidecar
  <2>3. recorded \in [Files -> BOOLEAN]
    BY DEF TypeOK
  <2>4. recorded' \in [Files -> BOOLEAN]
    BY <2>1, <2>2, <2>3, Zenon
  <2> QED
    BY <1>17, <2>4 DEF EnrichSidecar, Continue, TypeOK, SlotInRange, PCs, world, config, target
<1>18. CASE PersistHash
  <2>1. hash' \in [Files -> {None} \cup SUBSET Work]
    BY <1>18 DEF PersistHash, TypeOK
  <2> QED
    BY <1>18, <2>1, NextTargetTyped DEF PersistHash, TypeOK, SlotInRange, PCs, world, config
<1>19. CASE ForgetRun /\ UNCHANGED <<world, disk>>
  <2>1. <<FirstDay>> \in TargetLists
    BY DailyRunsAssumption DEF DailyRunsAssumption, Files, Day, TargetLists
  <2>2. selfHeal' \in BOOLEAN
    BY <1>19, Zenon DEF ForgetRun
  <2> QED
    BY <1>19, <2>1, <2>2 DEF ForgetRun, ForgetTarget, TypeOK, SlotInRange, PCs, world, disk
<1>20. ASSUME NEW w \in Work, Happen(w)
       PROVE  TypeInv'
  BY <1>20 DEF Happen, TypeOK, SlotInRange, PCs, disk, config, target
<1>21. CASE Midnight
  <2>1. today' \in FirstDay .. LastDay
    BY <1>21, DailyRunsAssumption DEF DailyRunsAssumption, Midnight, TypeOK, Day
  <2> QED
    BY <1>21, <2>1 DEF Midnight, TypeOK, SlotInRange, PCs, disk, config, target
<1>22. CASE UNCHANGED vars
  BY <1>22 DEF vars, TypeOK, SlotInRange
<1> QED
  BY <1>1, <1>2, <1>3, <1>4, <1>5, <1>6, <1>7, <1>8, <1>10, <1>11, <1>12, <1>13, <1>14,
     <1>15, <1>16, <1>17, <1>18, <1>19, <1>20, <1>21, <1>22
     DEF Next, Compile, EndRun, Crash

LEMMA TypeInit == Init => TypeInv
<1> SUFFICES ASSUME Init PROVE TypeInv
  OBVIOUS
<1>1. <<FirstDay>> \in TargetLists /\ FirstDay \in FirstDay .. LastDay
  BY DailyRunsAssumption DEF DailyRunsAssumption, Files, Day, TargetLists
<1>2. mode \in Modes
  BY DailyRunsAssumption DEF DailyRunsAssumption, Init
<1>3. recorded \in [Files -> BOOLEAN] /\ selfHeal \in BOOLEAN
  BY Zenon DEF Init
<1> QED
  BY <1>1, <1>2, <1>3 DEF Init, TypeInv, TypeOK, SlotInRange, PCs

\* Types hold in every reachable state, for every calendar span and set of items.
THEOREM TypeCorrect == Spec => []TypeOK
<1>1. TypeInv => TypeOK
  BY DEF TypeInv
<1> QED
  BY <1>1, TypeInit, TypeStep, PTL DEF Spec

(***************************************************************************)
(* The safety argument.  What reaches the disk is right because of what a   *)
(* run carries between its steps: the facts lie in the window of the file   *)
(* being compiled, the previous body is still the one on disk when the      *)
(* merge is written, and a self-heal slot that passed the gate stays empty. *)
(***************************************************************************)

Admissible(f) == {w \in happened : DayOf[w] \in Claims(mode, f)}

BlocksAdmissible == \A f \in Files : Items(block[f]) \subseteq Admissible(f)

FactsAdmissible ==
    pc \in {"gathered", "rendering", "writing"} => facts \subseteq Admissible(file)

BodyAdmissible ==
    pc = "writing" => body \subseteq facts \cup Items(prev)

PrevIsCurrent == pc \in {"rendering", "writing"} => prev = block[file]

HealingIsEmpty ==
    /\ pc \in {"gathering", "gathered", "rendering", "writing"}
    /\ slot # 1
    => block[file] = None

CleanMeansWritten ==
    /\ pc \in {"auditing", "enriching", "hashing"}
    /\ decision = "accepted"
    => block[file] # None

SafeInv ==
    /\ TypeInv
    /\ BlocksAdmissible
    /\ FactsAdmissible
    /\ BodyAdmissible
    /\ PrevIsCurrent
    /\ HealingIsEmpty
    /\ HashMeansWritten
    /\ CleanMeansWritten

LEMMA WrittenBlock ==
    ASSUME SafeInv, pc = "writing"
    PROVE  /\ file \in Files
           /\ Items(Written) = Accumulate(body, Items(block[file]))
           /\ Items(Written) \subseteq Admissible(file)
           /\ block[file] # None => Written # None
           /\ decision = "accepted" => Written # None
<1> DEFINE merged == Accumulate(body, Items(prev))
<1>1. file \in Files
  BY TargetListLength DEF SafeInv, TypeInv, TypeOK, SlotInRange, file
<1>2. prev = block[file]
  BY DEF SafeInv, PrevIsCurrent
<1>3. merged \subseteq body \cup Items(prev)
  BY DEF Accumulate
<1>4. body \subseteq Admissible(file) \cup Items(block[file])
  BY <1>2 DEF SafeInv, BodyAdmissible, FactsAdmissible
<1>5. merged \subseteq Admissible(file)
  BY <1>1, <1>2, <1>3, <1>4 DEF SafeInv, BlocksAdmissible
<1>6. merged \subseteq Work
  BY <1>5 DEF Admissible, SafeInv, TypeInv, TypeOK
<1>7. merged # None
  BY <1>6, DailyRunsAssumption DEF DailyRunsAssumption
<1>8. Written = IF merged = {} /\ prev = None /\ decision # "accepted" THEN None ELSE merged
  BY DEF Written
<1> HIDE DEF merged
<1>9. Items(Written) = merged
  BY <1>7, <1>8 DEF Items
<1> QED
  BY <1>1, <1>2, <1>5, <1>7, <1>8, <1>9 DEF merged

LEMMA SafeInit == Init => SafeInv
<1> SUFFICES ASSUME Init PROVE SafeInv
  OBVIOUS
<1>1. TypeInv
  BY TypeInit
<1> QED
  BY <1>1 DEF Init, SafeInv, BlocksAdmissible, FactsAdmissible, BodyAdmissible, PrevIsCurrent,
              HealingIsEmpty, HashMeansWritten, CleanMeansWritten, Items

\* Steps that leave the disk and the calendar alone and end the target or the run.
LEMMA SafeAtRest ==
    ASSUME SafeInv, TypeInv', UNCHANGED <<world, disk>>, pc' \in {"idle", "target"}
    PROVE  SafeInv'
  BY DEF SafeInv, BlocksAdmissible, FactsAdmissible, BodyAdmissible, PrevIsCurrent,
         HealingIsEmpty, HashMeansWritten, CleanMeansWritten, Items, Admissible, world, disk

LEMMA SafeStep ==
    ASSUME Misreads = FALSE, SafeInv, [Next]_vars
    PROVE  SafeInv'
<1> USE DEF SafeInv
<1>0. TypeInv'
  BY TypeStep
<1>1. ASSUME NEW src \in {"scheduled", "manual"}, NEW only \in OnlyDates \cup {None},
             NEW rm \in RenderModes, NEW heal \in BOOLEAN, Begin(src, only, rm, heal)
      PROVE  SafeInv'
  BY <1>0, <1>1, SafeAtRest DEF Begin
<1>2. CASE OpenWindow
  <2>1. UNCHANGED <<world, disk, file>> /\ pc' = "gathering"
    BY <1>2 DEF OpenWindow, Continue, config, file
  <2>2. HealingIsEmpty'
    BY <1>2, <2>1 DEF OpenWindow, MayCompile, AutoBody, IsFrozen, HealingIsEmpty, Continue, disk
  <2> QED
    BY <1>0, <2>1, <2>2
       DEF BlocksAdmissible, FactsAdmissible, BodyAdmissible, PrevIsCurrent,
           HashMeansWritten, CleanMeansWritten, Items, Admissible, world, disk
<1>3. CASE Gather
  <2>1. UNCHANGED <<world, disk, file, slot>> /\ pc = "gathering" /\ pc' = "gathered"
    BY <1>3 DEF Gather, Continue, config, file
  <2>2. facts' \subseteq Admissible(file)
    BY <1>3 DEF Gather, Available, Window, Admissible
  <2> QED
    BY <1>0, <2>1, <2>2
       DEF BlocksAdmissible, FactsAdmissible, BodyAdmissible, PrevIsCurrent, HealingIsEmpty,
           HashMeansWritten, CleanMeansWritten, Items, Admissible, world, disk
<1>4. CASE ReadExisting
  <2>1. UNCHANGED <<world, disk, file, slot, facts>> /\ pc = "gathered" /\ pc' = "rendering"
    BY <1>4 DEF ReadExisting, Continue, config, file
  <2>2. prev' = block[file]
    BY <1>4 DEF ReadExisting, AutoBody
  <2> QED
    BY <1>0, <2>1, <2>2
       DEF BlocksAdmissible, FactsAdmissible, BodyAdmissible, PrevIsCurrent, HealingIsEmpty,
           HashMeansWritten, CleanMeansWritten, Items, Admissible, world, disk
<1>5. ASSUME NEW d, NEW b \in SUBSET (facts \cup Items(prev)), RenderWith(d, b)
      PROVE  SafeInv'
  <2>1. /\ UNCHANGED <<world, disk, file, slot, facts, prev>>
        /\ pc = "rendering" /\ pc' = "writing" /\ body' = b
    BY <1>5 DEF RenderWith, Continue, config, file
  <2> QED
    BY <1>0, <2>1
       DEF BlocksAdmissible, FactsAdmissible, BodyAdmissible, PrevIsCurrent, HealingIsEmpty,
           HashMeansWritten, CleanMeansWritten, Items, Admissible, world, disk
<1>6. CASE RenderDeterministic
  BY <1>5, <1>6 DEF RenderDeterministic
<1>7. CASE RenderAccepted
  BY <1>5, <1>7 DEF RenderAccepted
<1>8. CASE RenderFallback
  BY <1>5, <1>8 DEF RenderFallback
<1>9. CASE Write
  <2>1. /\ UNCHANGED <<world, hash, file, decision>>
        /\ pc = "writing" /\ pc' = "auditing"
        /\ block' = [block EXCEPT ![file] = Written]
    BY <1>9 DEF Write, Continue, config, file
  <2>2. \A f \in Files : block'[f] = IF f = file THEN Written ELSE block[f]
    BY <2>1 DEF TypeInv, TypeOK
  <2>3. BlocksAdmissible'
    BY <2>1, <2>2, WrittenBlock DEF BlocksAdmissible, Items, Admissible, world
  <2>4. HashMeansWritten'
    BY <2>1, <2>2, WrittenBlock DEF HashMeansWritten
  <2>5. CleanMeansWritten'
    BY <2>1, <2>2, WrittenBlock DEF CleanMeansWritten
  <2> QED
    BY <1>0, <2>1, <2>3, <2>4, <2>5
       DEF FactsAdmissible, BodyAdmissible, PrevIsCurrent, HealingIsEmpty
<1>10. CASE WriteSidecar \/ EnrichSidecar
  <2>1. /\ UNCHANGED <<world, block, hash, file, decision>>
        /\ pc \in {"auditing", "enriching"} /\ pc' \in {"enriching", "hashing"}
    BY <1>10 DEF WriteSidecar, EnrichSidecar, Continue, config, file, target
  <2> QED
    BY <1>0, <2>1
       DEF BlocksAdmissible, FactsAdmissible, BodyAdmissible, PrevIsCurrent, HealingIsEmpty,
           HashMeansWritten, CleanMeansWritten, Items, Admissible, world
<1>11. CASE PersistHash
  <2>1. UNCHANGED <<world, block>> /\ pc = "hashing" /\ pc' = "target"
    BY <1>11 DEF PersistHash, NextTarget
  <2>2. \/ decision = "accepted" /\ hash' = [hash EXCEPT ![file] = facts]
        \/ hash' = hash
    BY <1>11 DEF PersistHash
  <2>3. HashMeansWritten'
    BY <2>1, <2>2 DEF HashMeansWritten, CleanMeansWritten, TypeInv, TypeOK
  <2> QED
    BY <1>0, <2>1, <2>3
       DEF BlocksAdmissible, FactsAdmissible, BodyAdmissible, PrevIsCurrent, HealingIsEmpty,
           CleanMeansWritten, Items, Admissible, world
<1>12. CASE \/ SkipFrozen \/ SkipBeyond \/ SkipRegression \/ SkipUnchanged
            \/ RenderRefused \/ WriteFails
  BY <1>0, <1>12, SafeAtRest
     DEF SkipFrozen, SkipBeyond, SkipRegression, SkipUnchanged, RenderRefused, WriteFails,
         NextTarget
<1>13. CASE EndRun \/ Crash
  BY <1>0, <1>13, SafeAtRest DEF EndRun, Crash, ForgetRun
<1>14. ASSUME NEW w \in Work, Happen(w)
       PROVE  SafeInv'
  <2>1. UNCHANGED <<mode, block, hash, file, pc, slot, facts, prev, body, decision>>
    BY <1>14 DEF Happen, disk, config, target, file
  <2>2. happened \subseteq happened'
    BY <1>14 DEF Happen
  <2>3. \A f : Admissible(f) \subseteq Admissible(f)'
    BY <2>1, <2>2 DEF Admissible
  <2>4. BlocksAdmissible' /\ FactsAdmissible'
    BY <2>1, <2>3 DEF BlocksAdmissible, FactsAdmissible, Items
  <2> QED
    BY <1>0, <2>1, <2>4
       DEF BodyAdmissible, PrevIsCurrent, HealingIsEmpty, HashMeansWritten,
           CleanMeansWritten, Items
<1>15. CASE Midnight \/ UNCHANGED vars
  <2>1. UNCHANGED <<mode, happened, block, hash, file, pc, slot, facts, prev, body, decision>>
    BY <1>15 DEF Midnight, vars, disk, config, target, file
  <2> QED
    BY <1>0, <2>1
       DEF BlocksAdmissible, FactsAdmissible, BodyAdmissible, PrevIsCurrent, HealingIsEmpty,
           HashMeansWritten, CleanMeansWritten, Items, Admissible
<1> QED
  BY <1>1, <1>2, <1>3, <1>4, <1>6, <1>7, <1>8, <1>9, <1>10, <1>11, <1>12, <1>13, <1>14, <1>15
     DEF Next, Compile

\* Where files can be read back, the safety argument holds in every reachable state.
THEOREM Safe ==
    ASSUME Misreads = FALSE
    PROVE  Spec => []SafeInv
<1>1. SafeInv /\ [Next]_vars => SafeInv'
  BY SafeStep
<1> QED
  BY <1>1, SafeInit, PTL DEF Spec

\* Anti-backdating: for every calendar, policy and pattern of failures, what a
\* business-day file reports is work that the filing rule sends to that file.
THEOREM NeverBackdated ==
    ASSUME Misreads = FALSE
    PROVE  Spec => []NoBackdating
<1>1. SafeInv => NoBackdating
  <2> SUFFICES ASSUME SafeInv, NEW f \in Files \cap BusinessDay, NEW w \in Items(block[f])
               PROVE  FilingDate(mode, DayOf[w]) = f
    BY DEF NoBackdating
  <2>1. w \in happened /\ DayOf[w] \in Claims(mode, f)
    BY DEF SafeInv, BlocksAdmissible, Admissible
  <2>2. mode \in Modes /\ DayOf[w] \in Day
    BY <2>1, DailyRunsAssumption DEF DailyRunsAssumption, SafeInv, TypeInv, TypeOK
  <2> QED
    BY <2>1, <2>2, WindowsPartitionDays
<1> QED
  BY <1>1, Safe, PTL

\* The dirty check only ever skips files that were written.
THEOREM HashesAreOfWrittenFiles ==
    ASSUME Misreads = FALSE
    PROVE  Spec => []HashMeansWritten
<1>1. SafeInv => HashMeansWritten
  BY DEF SafeInv
<1> QED
  BY <1>1, Safe, PTL

\* No step but Write changes a block, and Write only the current target's.
LEMMA OnlyWriteWrites ==
    ASSUME [Next]_vars, block' # block
    PROVE  Write
  BY DEF Next, vars, Compile, Begin, SkipFrozen, OpenWindow, SkipBeyond, Gather,
         SkipRegression, SkipUnchanged, ReadExisting, RenderDeterministic, RenderAccepted,
         RenderFallback, RenderWith, RenderRefused, WriteFails, WriteSidecar, EnrichSidecar,
         PersistHash, EndRun, Crash, Happen, Midnight, disk

\* A filled block is final: the self-heal slot never rewrites one.
THEOREM FilledBlocksAreFinal ==
    ASSUME Misreads = FALSE
    PROVE  Spec => FrozenIsFinal
<1> DEFINE Final == \A f \in Files : block[f] # None /\ block'[f] # block[f] => f = targets[1]
<1>1. SafeInv /\ [Next]_vars => [Final]_vars
  <2> SUFFICES ASSUME SafeInv, [Next]_vars, NEW f \in Files,
                      block[f] # None, block'[f] # block[f]
               PROVE  f = targets[1]
    OBVIOUS
  <2>1. Write
    BY OnlyWriteWrites
  <2>2. f = file /\ pc = "writing"
    BY <2>1 DEF Write, SafeInv, TypeInv, TypeOK
  <2>3. slot = 1
    BY <2>2 DEF SafeInv, HealingIsEmpty
  <2> QED
    BY <2>2, <2>3 DEF file
<1> QED
  BY <1>1, Safe, PTL DEF Spec, FrozenIsFinal

(***************************************************************************)
(* Refinement: the pipeline implements the ledger.                          *)
(***************************************************************************)

\* The ledger's calendar is the pipeline's.
LEMMA SameClaims == \A m, f : Ledger!Claims(m, f) = Claims(m, f)
<1>1. \A f : Ledger!PrevBusinessDayBefore(f) = PrevBusinessDayBefore(f)
  BY DEF Ledger!PrevBusinessDayBefore, PrevBusinessDayBefore, Ledger!IsWeekend, IsWeekend,
         Ledger!Weekday, Weekday
<1> QED
  BY <1>1 DEF Ledger!Claims, Claims, Ledger!WindowStart, WindowStart,
              Ledger!LastClaimable, LastClaimable

LEMMA MergeKeeps ==
    ASSUME NEW new, NEW old
    PROVE  Ledger!Keeps(old, Accumulate(new, old))
  BY DEF Ledger!Keeps, Accumulate

LEMMA LedgerInit == Init => Ledger!LedgerInit
<1> SUFFICES ASSUME Init PROVE Ledger!LedgerInit
  OBVIOUS
<1>1. \A f \in Files : Items(block[f]) = {}
  BY DEF Init, Items
<1>2. [f \in Files |-> Items(block[f])] = [f \in Files |-> {}]
  BY <1>1
<1>3. mode \in Modes /\ happened = {}
  BY DailyRunsAssumption DEF DailyRunsAssumption, Init
<1> QED
  BY <1>2, <1>3 DEF Ledger!LedgerInit, Ledger!Modes, Modes

LEMMA LedgerStep ==
    ASSUME SafeInv, [Next]_vars
    PROVE  [Ledger!LedgerNext]_(Ledger!ledgerVars)
<1> DEFINE ledger == [f \in Files |-> Items(block[f])]
<1>1. CASE Write
  <2>1. /\ UNCHANGED <<mode, happened>> /\ pc = "writing"
        /\ block' = [block EXCEPT ![file] = Written]
    BY <1>1 DEF Write, world
  <2>2. /\ file \in Files
        /\ Items(Written) = Accumulate(body, Items(block[file]))
        /\ Items(Written) \subseteq Admissible(file)
    BY <2>1, WrittenBlock
  <2>3. ledger' = [ledger EXCEPT ![file] = Items(Written)]
    BY <2>1, <2>2 DEF SafeInv, TypeInv, TypeOK, Items
  <2>4. Items(Written) \subseteq Ledger!Admissible(file)
    <3>1. \A f : Ledger!Admissible(f) = Admissible(f)
      BY SameClaims DEF Admissible, Ledger!Admissible
    <3> QED
      BY <2>2, <3>1
  <2>5. Ledger!Keeps(ledger[file], Items(Written))
    BY <2>2, MergeKeeps
  <2>6. Ledger!Publish(file, Items(Written))
    BY <2>1, <2>3, <2>4, <2>5 DEF Ledger!Publish
  <2>7. Items(Written) \in SUBSET Work
    BY <2>2 DEF Admissible, SafeInv, TypeInv, TypeOK
  <2> QED
    BY <2>2, <2>6, <2>7 DEF Ledger!LedgerNext
<1>2. ASSUME NEW w \in Work, Happen(w)
      PROVE  Ledger!LedgerNext
  <2>1. Ledger!Happen(w)
    BY <1>2 DEF Happen, disk, Ledger!Happen, Items
  <2> QED
    BY <2>1 DEF Ledger!LedgerNext
<1>3. CASE ~Write /\ ~ \E w \in Work : Happen(w)
  <2>1. UNCHANGED <<mode, happened>>
    BY <1>3 DEF Next, vars, Compile, Begin, SkipFrozen, OpenWindow, SkipBeyond, Gather,
         SkipRegression, SkipUnchanged, ReadExisting, RenderDeterministic, RenderAccepted,
         RenderFallback, RenderWith, RenderRefused, WriteFails, WriteSidecar, EnrichSidecar,
         PersistHash, EndRun, Crash, Midnight, world
  <2>2. UNCHANGED block
    BY <1>3, OnlyWriteWrites
  <2> QED
    BY <2>1, <2>2 DEF Ledger!ledgerVars, Items
<1> QED
  BY <1>1, <1>2, <1>3

\* Whatever fails inside it, every sequence of compiles is a behaviour of the ledger:
\* it publishes only work its file may claim, and forgets only what the new body covers.
THEOREM ImplementsLedger ==
    ASSUME Misreads = FALSE
    PROVE  Spec => KeepsTheLedger
<1>1. SafeInv /\ [Next]_vars => [Ledger!LedgerNext]_(Ledger!ledgerVars)
  BY LedgerStep
<1> QED
  BY <1>1, Safe, LedgerInit, PTL DEF Spec, KeepsTheLedger, Ledger!LedgerSpec

(***************************************************************************)
(* The text, for any tickets and any keys that contain each other           *)
(***************************************************************************)

LEMMA NamedTickets ==
    ASSUME NEW g \in Gathered, NEW text, text = g.notes \/ text = g.conv
    PROVE  /\ \A line \in text : line \in TextLine
           /\ TicketsOf(text) \subseteq Tickets
<1>1. g.notes \subseteq TextLine
  <2>1. g.notes \in UNION {kSubset(n, TextLine) : n \in 0 .. MaxNotes}
    BY DEF Gathered
  <2> QED
    BY <2>1 DEF kSubset
<1>2. g.conv \subseteq TextLine
  <2>1. g.conv \in {{}} \cup {{line} : line \in [flagged : {FALSE}, tickets : SUBSET Tickets]}
    BY DEF Gathered
  <2> QED
    BY <2>1 DEF TextLine
<1> QED
  BY <1>1, <1>2 DEF TicketsOf, TextLine

\* What survives the scrub is not known to be committed elsewhere only.
LEMMA ScrubbedIsUnknown ==
    ASSUME NEW g \in Gathered, NEW text, text = g.notes \/ text = g.conv,
           NEW t \in TicketsOf(Scrub(g, text))
    PROVE  /\ t \in Tickets /\ t \in TicketsOf(text)
           /\ t \in TicketsOf(g.notes) => g.days[t] # {"outside"}
<1>1. PICK line \in Scrub(g, text) : t \in line.tickets
  BY DEF TicketsOf
<1>2. line \in text /\ \A u \in Forbidden(g) \cup CoveredTickets(g) : ~Mentions(line, u)
  BY <1>1 DEF Scrub
<1>3. Mentions(line, t)
  BY <1>1 DEF Mentions
<1>4. t \notin Forbidden(g) /\ t \notin g.facts
  BY <1>2, <1>3 DEF CoveredTickets
<1>5. t \in TicketsOf(text)
  BY <1>1, <1>2 DEF TicketsOf
<1> QED
  BY <1>4, <1>5, NamedTickets DEF Forbidden

\* An accepted body names facts only; what the deterministic one adds survived the scrub.
LEMMA LateIsNotAdded == KnownLateIsNotAdded
<1> SUFFICES ASSUME NEW g \in Gathered, NEW named \in Rendered(g),
                    NEW t \in named \cap KnownLate(g), t \notin Told(g)
             PROVE  FALSE
  BY DEF KnownLateIsNotAdded
<1>1. t \notin g.facts
  BY DEF Told
<1>2. named = DeterministicBody(g)
  BY <1>1 DEF Rendered, Accepted
<1>3. \E text \in {g.notes, g.conv} : t \in TicketsOf(Scrub(g, text))
  BY <1>2 DEF DeterministicBody
<1> QED
  BY <1>3, ScrubbedIsUnknown DEF KnownLate

\* Whatever was gathered, and however it was rendered, neither a note nor the session digest
\* brings in a ticket that a note names and git knows of other days only.
THEOREM NothingIsBackdatedByNotes == Spec => []NotesDoNotBackdate
<1>1. NotesDoNotBackdate
  BY LateIsNotAdded DEF NotesDoNotBackdate
<1> QED
  BY <1>1, PTL

LEMMA NotesTold == NotesAreTold
<1> SUFFICES ASSUME NEW g \in Gathered, NEW line \in g.notes, NEW t \in line.tickets,
                    ~line.flagged, t \notin DeterministicBody(g)
             PROVE  \/ \E u \in Told(g) : Mentions(line, u)
                    \/ \E u \in Tickets : Mentions(line, u) /\ g.days[u] = {"outside"}
  BY DEF NotesAreTold
<1>1. line \notin Scrub(g, g.notes)
  BY DEF DeterministicBody, TicketsOf
<1>2. PICK u \in Forbidden(g) \cup CoveredTickets(g) : Mentions(line, u)
  BY <1>1 DEF Scrub
<1>3. CASE u \in Forbidden(g)
  BY <1>2, <1>3, NamedTickets DEF Forbidden
<1>4. CASE u \in CoveredTickets(g)
  BY <1>2, <1>4 DEF CoveredTickets, Told
<1> QED
  BY <1>2, <1>3, <1>4

\* What the scrub takes from the notes is told anyway, or was committed on another day only.
THEOREM WhatIsNotedIsTold == Spec => []NotedIsTold
<1>1. NotedIsTold
  BY NotesTold DEF NotedIsTold
<1> QED
  BY <1>1, PTL

(***************************************************************************)
(* The merge of two bodies                                                 *)
(***************************************************************************)

LEMMA BoundedSequences ==
    ASSUME NEW S, NEW n \in Nat, NEW s \in BoundedSeq(S, n)
    PROVE  s \in Seq(S)
<1>1. PICK m \in 0 .. n : s \in [1 .. m -> S]
  BY DEF BoundedSeq, SeqOf
<1>2. m \in Nat
  OBVIOUS
<1> QED
  BY <1>1, <1>2, SeqDef

LEMMA LinesTyped ==
    /\ \A line \in Line : line.words \in Seq(Words) /\ line.bullet \in BOOLEAN
    /\ \A text \in Bodies : text \in Seq(Line)
<1>1. MaxWords \in Nat /\ MaxLines \in Nat /\ 1 \in Nat
  BY BulletsAssumption
<1>2. ASSUME NEW line \in Line PROVE line.words \in Seq(Words) /\ line.bullet \in BOOLEAN
  <2>1. line.bullet \in BOOLEAN
        /\ (line.words \in BoundedSeq(Words, MaxWords) \/ line.words \in BoundedSeq(Words, 1))
    BY DEF Line
  <2> QED
    BY <1>1, <2>1, BoundedSequences
<1>3. ASSUME NEW text \in Bodies PROVE text \in Seq(Line)
  BY <1>1, BoundedSequences DEF Bodies
<1> QED
  BY <1>2, <1>3

\* The words of a needle that a line has are counted one by one.
LEMMA OverlapIsCount ==
    ASSUME NEW needle \in Seq(Words), NEW line \in Line
    PROVE  /\ Overlap(needle, line) \in Nat
           /\ Overlap(needle, line) = 0 <=>
                 \A i \in 1 .. Len(needle) : needle[i] \notin ToSet(line.words)
           /\ Overlap(needle, line)
                 = Cardinality({i \in 1 .. Len(needle) : needle[i] \in ToSet(line.words)})
           /\ line.words = needle => Overlap(needle, line) = Len(needle)
<1> DEFINE found == {i \in 1 .. Len(needle) : needle[i] \in ToSet(line.words)}
<1>1. line.words \in Seq(Words) /\ Len(needle) \in Nat /\ DOMAIN needle = 1 .. Len(needle)
  BY LinesTyped
<1>2. \A x : Contains(line.words, x) <=> x \in ToSet(line.words)
  BY <1>1 DEF Contains, ToSet
<1>3. {i \in DOMAIN needle : Contains(line.words, needle[i])} = found
  BY <1>1, <1>2
<1>4. Overlap(needle, line) = Cardinality(found)
  BY <1>3 DEF Overlap
<1>5. IsFiniteSet(found)
  <2>1. IsFiniteSet(1 .. Len(needle))
    BY <1>1, FS_Interval
  <2> QED
    BY <2>1, FS_Subset
<1>6. Cardinality(found) \in Nat /\ (Cardinality(found) = 0 <=> found = {})
  BY <1>5, FS_CardinalityType, FS_EmptySet
<1>7. ASSUME line.words = needle PROVE Cardinality(found) = Len(needle)
  <2>1. found = 1 .. Len(needle)
    BY <1>1, <1>7 DEF ToSet
  <2>2. Cardinality(1 .. Len(needle)) = Len(needle)
    <3> DEFINE n == Len(needle)
               one == 1
    <3>1. one \in Int /\ n \in Int /\ n >= 0
      BY <1>1
    <3> HIDE DEF n, one
    <3>2. Cardinality(one .. n) = IF one > n THEN 0 ELSE n - one + 1
      BY <3>1, FS_Interval
    <3> QED
      BY <3>1, <3>2 DEF n, one
  <2> HIDE DEF found
  <2> QED
    BY <2>1, <2>2
<1> QED
  BY <1>4, <1>6, <1>7

BestOne(needle, text, n, best) ==
    IF Overlap(needle, text[n]) >= best THEN Overlap(needle, text[n]) ELSE best

\* best_match: no line has more of the needle's words, and if it has any, some line has as many.
LEMMA BestOverlapIsMaximum ==
    ASSUME NEW needle \in Seq(Words), NEW text \in Seq(Line)
    PROVE  /\ BestOverlap(needle, text) \in Nat
           /\ \A i \in 1 .. Len(text) : Overlap(needle, text[i]) <= BestOverlap(needle, text)
           /\ \/ BestOverlap(needle, text) = 0
              \/ \E i \in 1 .. Len(text) : BestOverlap(needle, text) = Overlap(needle, text[i])
<1> DEFINE N == Len(text)
           step == [n \in 1 .. N |-> [best \in Nat |-> BestOne(needle, text, n, best)]]
           Loop(f) == [n \in 0 .. N |-> IF n = 0 THEN 0 ELSE BestOne(needle, text, n, f[n - 1])]
           upTo == CHOOSE f : f = Loop(f)
<1>1. N \in Nat /\ \A n \in 1 .. N : text[n] \in Line
  OBVIOUS
<1>2. \A n \in 1 .. N : Overlap(needle, text[n]) \in Nat
  BY <1>1, OverlapIsCount
<1>3. step \in [1 .. N -> [Nat -> Nat]]
  BY <1>2 DEF BestOne
<1>4. BestOverlap(needle, text) = upTo[N]
  BY DEF BestOverlap, BestOne
<1> HIDE DEF N
<1>5. PICK f \in [0 .. N -> Nat] : f = Values(N, 0, step, f)
  <2> HIDE DEF step, Loop, upTo
  <2> QED
    BY <1>1, <1>3, IteratesNumbers
<1>6. f = Loop(f)
  <2>1. ASSUME NEW n \in 0 .. N PROVE f[n] = Loop(f)[n]
    <3>1. f[n] = IF n = 0 THEN 0 ELSE step[n][f[n - 1]]
      <4> HIDE DEF step
      <4> QED
        BY <1>5 DEF Values
    <3>2. n # 0 => n \in 1 .. N /\ n - 1 \in 0 .. N
      BY <1>1
    <3>3. n # 0 => f[n - 1] \in Nat
      BY <1>5, <3>2
    <3> QED
      BY <3>1, <3>2, <3>3
  <2> QED
    BY <1>5, <2>1
<1>7. upTo = Loop(upTo)
  <2> HIDE DEF Loop
  <2> QED
    BY <1>6
<1> HIDE DEF upTo
<1> DEFINE IsBest(n, best) ==
               /\ best \in Nat
               /\ \A i \in 1 .. n : Overlap(needle, text[i]) <= best
               /\ best = 0 \/ \E i \in 1 .. n : best = Overlap(needle, text[i])
           P == {n \in 0 .. N : IsBest(n, upTo[n])}
<1>8. 0 \in P
  BY <1>1, <1>7
<1>9. ASSUME NEW n \in 0 .. N - 1, n \in P PROVE n + 1 \in P
  <2>1. n + 1 \in 1 .. N /\ n + 1 \in 0 .. N /\ n + 1 # 0 /\ (n + 1) - 1 = n
    BY <1>1
  <2>2. upTo[n + 1] = BestOne(needle, text, n + 1, upTo[n])
    BY <1>7, <2>1
  <2>3. IsBest(n, upTo[n])
    BY <1>9
  <2>4. Overlap(needle, text[n + 1]) \in Nat
    BY <1>2, <2>1
  <2>5. \A i \in 1 .. n + 1 : i \in 1 .. n \/ i = n + 1
    OBVIOUS
  <2>6. \A i \in 1 .. n : i \in 1 .. N /\ i \in 1 .. n + 1
    BY <1>1
  <2>7. IsBest(n + 1, upTo[n + 1])
    BY <1>2, <2>1, <2>2, <2>3, <2>4, <2>5, <2>6 DEF BestOne
  <2> HIDE DEF IsBest
  <2> QED
    BY <2>1, <2>7
<1>10. N \in P
  <2>1. N \in 0 .. N
    BY <1>1
  <2> HIDE DEF P
  <2> QED
    BY <1>1, <1>8, <1>9, <2>1, Upward
<1> QED
  BY <1>4, <1>10 DEF N

\* covered: some line has half of the words.
LEMMA CoveredMeans ==
    ASSUME NEW line \in Line, NEW text \in Seq(Line)
    PROVE  /\ Covered(line.words, text) => \E other \in ToSet(text) : SaysHalf(line, other)
           /\ line.words # <<>> /\ line \in ToSet(text) => Covered(line.words, text)
<1> DEFINE needle == line.words
           best == BestOverlap(needle, text)
<1>1. needle \in Seq(Words) /\ Len(needle) \in Nat /\ (needle # <<>> => Len(needle) > 0)
  BY LinesTyped
<1>2. ToSet(text) = {text[i] : i \in 1 .. Len(text)} /\ \A i \in 1 .. Len(text) : text[i] \in Line
  BY DEF ToSet
<1>3. /\ best \in Nat
      /\ \A i \in 1 .. Len(text) : Overlap(needle, text[i]) <= best
      /\ best = 0 \/ \E i \in 1 .. Len(text) : best = Overlap(needle, text[i])
  BY <1>1, BestOverlapIsMaximum
<1>4. ASSUME Covered(needle, text) PROVE \E other \in ToSet(text) : SaysHalf(line, other)
  <2>1. 2 * best >= Len(needle) /\ Len(needle) > 0
    BY <1>1, <1>4 DEF Covered
  <2>2. best # 0
    BY <1>1, <1>3, <2>1
  <2>3. PICK i \in 1 .. Len(text) : best = Overlap(needle, text[i])
    BY <1>3, <2>2
  <2> HIDE DEF needle, best
  <2>4. /\ best = Cardinality({j \in 1 .. Len(needle) : needle[j] \in ToSet(text[i].words)})
        /\ {j \in 1 .. Len(needle) : needle[j] \in ToSet(text[i].words)} # {}
    BY <1>1, <1>2, <2>2, <2>3, OverlapIsCount
  <2>5. SaysHalf(line, text[i])
    BY <2>1, <2>4 DEF SaysHalf, needle
  <2> QED
    BY <1>2, <2>5
<1>5. ASSUME needle # <<>>, line \in ToSet(text) PROVE Covered(needle, text)
  <2>1. PICK i \in 1 .. Len(text) : text[i] = line
    BY <1>2, <1>5
  <2>2. Overlap(needle, text[i]) = Len(needle)
    BY <1>1, <2>1, OverlapIsCount
  <2>3. best >= Len(needle)
    BY <1>3, <2>2
  <2> HIDE DEF needle, best
  <2>4. 2 * best >= Len(needle)
    BY <1>1, <1>3, <2>3
  <2> QED
    BY <1>5, <2>4 DEF Covered, best
<1> QED
  BY <1>4, <1>5

LEMMA CopiesAreTimes == \A x, s : Copies(x, s) = Times(x, s)
BY DEF Copies, Times

\* What a selection makes of a line that all places with it are in, or none is.
LEMMA SelectedCopies ==
    ASSUME NEW S, NEW s \in Seq(S), NEW places, NEW x
    PROVE  /\ (\A i \in 1 .. Len(s) : s[i] = x => i \in places)
                 => Copies(x, Selected(s, places)) = Copies(x, s)
           /\ (\A i \in 1 .. Len(s) : s[i] = x => i \notin places)
                 => Copies(x, Selected(s, places)) = 0
<1> DEFINE At == {i \in Nat : i \in places /\ s[i] = x}
<1>1. Len(s) \in Nat
  OBVIOUS
<1>2. Copies(x, Selected(s, places)) = Cardinality(At \cap (1 .. Len(s)))
  <2>1. Times(x, Selected(s, places)) = Count({i \in Nat : i \in places /\ s[i] = x}, Len(s))
    BY SelectedKeeps
  <2> QED
    BY <2>1, CopiesAreTimes DEF Count
<1>3. ASSUME \A i \in 1 .. Len(s) : s[i] = x => i \in places
      PROVE  Copies(x, Selected(s, places)) = Copies(x, s)
  <2>1. At \cap (1 .. Len(s)) = {i \in 1 .. Len(s) : s[i] = x}
    BY <1>1, <1>3
  <2> QED
    BY <1>2, <2>1 DEF Copies
<1>4. ASSUME \A i \in 1 .. Len(s) : s[i] = x => i \notin places
      PROVE  Copies(x, Selected(s, places)) = 0
  <2>1. At \cap (1 .. Len(s)) = {}
    BY <1>1, <1>4
  <2> QED
    BY <1>2, <2>1, FS_EmptySet
<1> QED
  BY <1>3, <1>4

\* A line is there as long as there are copies of it.
LEMMA CopiesAreThere ==
    ASSUME NEW S, NEW s \in Seq(S), NEW x
    PROVE  Copies(x, s) \in Nat /\ (x \in ToSet(s) <=> Copies(x, s) # 0)
<1> DEFINE At == {i \in 1 .. Len(s) : s[i] = x}
<1>1. Len(s) \in Nat /\ ToSet(s) = {s[i] : i \in 1 .. Len(s)}
  BY DEF ToSet
<1>2. IsFiniteSet(At)
  <2>1. IsFiniteSet(1 .. Len(s))
    BY <1>1, FS_Interval
  <2> QED
    BY <2>1, FS_Subset
<1>3. Cardinality(At) \in Nat /\ (Cardinality(At) = 0 <=> At = {})
  BY <1>2, FS_CardinalityType, FS_EmptySet
<1>4. x \in ToSet(s) <=> At # {}
  BY <1>1
<1> QED
  BY <1>3, <1>4 DEF Copies

\* The copies of a previous bullet after the merge: those of the render, and its own unless
\* the render covers it.
LEMMA MergedCopies ==
    ASSUME NEW new \in Bodies, NEW old \in Bodies, NEW line \in ToSet(BulletsOf(old))
    PROVE  /\ line \in Line /\ Copies(line, new) \in Nat /\ Copies(line, old) \in Nat
           /\ ~Covered(line.words, new) =>
                 Copies(line, AccumulateLines(new, old)) = Copies(line, new) + Copies(line, old)
           /\ Covered(line.words, new) =>
                 Copies(line, AccumulateLines(new, old)) = Copies(line, new)
<1> DEFINE bullets == BulletsOf(old)
           kept == {i \in DOMAIN bullets : ~Covered(bullets[i].words, new)}
           back == Selected(bullets, kept)
<1>1. new \in Seq(Line) /\ old \in Seq(Line) /\ DOMAIN old = 1 .. Len(old)
  BY LinesTyped
<1>2. bullets \in Seq(Line)
  BY <1>1, SelectedKeeps DEF BulletsOf
<1>3. back \in Seq(Line)
  <2> HIDE DEF bullets, kept
  <2> QED
    BY <1>2, SelectedKeeps
<1>4. /\ line \in Line /\ Copies(line, bullets) # 0
      /\ \A i \in 1 .. Len(bullets) : bullets[i] = line => (i \in kept <=> ~Covered(line.words, new))
  <2>1. DOMAIN bullets = 1 .. Len(bullets)
    BY <1>2
  <2>2. line \in ToSet(bullets)
    OBVIOUS
  <2> HIDE DEF bullets
  <2>3. line \in Line
    BY <1>2, <2>1, <2>2 DEF ToSet
  <2>4. Copies(line, bullets) # 0
    BY <1>2, <2>2, CopiesAreThere
  <2> QED
    BY <2>1, <2>3, <2>4
<1>5. line.bullet
  <2>1. line.bullet \in BOOLEAN
    BY <1>4, LinesTyped
  <2>2. ~line.bullet => Copies(line, bullets) = 0
    BY <1>1, SelectedCopies DEF BulletsOf
  <2> QED
    BY <1>4, <2>1, <2>2
<1>6. Copies(line, bullets) = Copies(line, old)
  <2>1. \A i \in 1 .. Len(old) : old[i] = line => i \in {j \in DOMAIN old : old[j].bullet}
    BY <1>1, <1>5
  <2> QED
    BY <1>1, <2>1, SelectedCopies DEF BulletsOf
<1>7. Copies(line, new \o back) = Copies(line, new) + Copies(line, back)
  <2> HIDE DEF back
  <2> QED
    BY <1>1, <1>3, TimesOfConcat, CopiesAreTimes
<1>8. AccumulateLines(new, old) = new \o back
  BY DEF AccumulateLines
<1>9. Copies(line, new) \in Nat /\ Copies(line, old) \in Nat
  BY <1>1, CopiesAreThere
<1> HIDE DEF bullets, kept
<1>10. ~Covered(line.words, new) => Copies(line, back) = Copies(line, bullets)
  BY <1>2, <1>4, SelectedCopies
<1>11. Covered(line.words, new) => Copies(line, back) = 0
  BY <1>2, <1>4, SelectedCopies
<1> HIDE DEF back
<1> QED
  BY <1>4, <1>6, <1>7, <1>8, <1>9, <1>10, <1>11

LEMMA RenderComesFirst ==
    ASSUME NEW new \in Bodies, NEW old \in Bodies
    PROVE  IsPrefix(new, AccumulateLines(new, old))
<1> DEFINE bullets == BulletsOf(old)
           back == Selected(bullets, {i \in DOMAIN bullets : ~Covered(bullets[i].words, new)})
<1>1. new \in Seq(Line) /\ old \in Seq(Line)
  BY LinesTyped
<1>2. bullets \in Seq(Line)
  BY <1>1, SelectedKeeps DEF BulletsOf
<1>3. back \in Seq(Line)
  <2> HIDE DEF bullets
  <2> QED
    BY <1>2, SelectedKeeps
<1>4. AccumulateLines(new, old) = new \o back
  BY DEF AccumulateLines
<1> HIDE DEF back
<1> DEFINE merged == new \o back
           N == Len(new)
<1>5. /\ merged \in Seq(Line) /\ N \in Nat /\ N <= Len(merged)
      /\ \A i \in 1 .. N : merged[i] = new[i]
  BY <1>1, <1>3
<1>6. SubSeq(merged, 1, N) = SubSeq(new, 1, N)
  <2> HIDE DEF merged
  <2>1. /\ SubSeq(merged, 1, N) \in Seq(Line) /\ Len(SubSeq(merged, 1, N)) = N
        /\ \A i \in 1 .. N : SubSeq(merged, 1, N)[i] = merged[i]
    BY <1>5
  <2>2. /\ SubSeq(new, 1, N) \in Seq(Line) /\ Len(SubSeq(new, 1, N)) = N
        /\ \A i \in 1 .. N : SubSeq(new, 1, N)[i] = new[i]
    BY <1>1, <1>5
  <2> QED
    BY <1>5, <2>1, <2>2, SeqEqual
<1> QED
  BY <1>4, <1>5, <1>6 DEF IsPrefix

\* CompileText!NoBulletLost: for bodies of any length over any words, the render comes out
\* as it was, and every previous bullet as often as before, but for those that one line of
\* the render says half of.
THEOREM NoBulletIsLost == Spec => []NoBulletLost
<1>1. BulletsAreKept
  <2> SUFFICES ASSUME NEW new \in Bodies, NEW old \in Bodies
               PROVE  /\ IsPrefix(new, AccumulateLines(new, old))
                      /\ \A line \in ToSet(BulletsOf(old)) :
                            ~ (\E other \in ToSet(new) : SaysHalf(line, other)) =>
                                Copies(line, AccumulateLines(new, old))
                                  = Copies(line, new) + Copies(line, old)
    BY DEF BulletsAreKept
  <2>1. ASSUME NEW line \in ToSet(BulletsOf(old)),
               ~ (\E other \in ToSet(new) : SaysHalf(line, other))
        PROVE  Copies(line, AccumulateLines(new, old)) = Copies(line, new) + Copies(line, old)
    <3>1. line \in Line /\ new \in Seq(Line)
      BY MergedCopies, LinesTyped
    <3>2. ~Covered(line.words, new)
      BY <2>1, <3>1, CoveredMeans
    <3> QED
      BY <3>2, MergedCopies
  <2> QED
    BY <2>1, RenderComesFirst
<1> QED
  BY <1>1, PTL DEF NoBulletLost

\* CompileText!CopiesDoNotGrow: for bodies of any length over any words, a bullet with a
\* significant word is in the merged body no more often than in the render or before.
THEOREM BulletsDoNotMultiply == Spec => []CopiesDoNotGrow
<1>1. CopiesAreKept
  <2> SUFFICES ASSUME NEW new \in Bodies, NEW old \in Bodies,
                      NEW line \in ToSet(BulletsOf(old)), line.words # <<>>
               PROVE  \/ Copies(line, AccumulateLines(new, old)) <= Copies(line, new)
                      \/ Copies(line, AccumulateLines(new, old)) <= Copies(line, old)
    BY DEF CopiesAreKept
  <2>1. /\ line \in Line /\ new \in Seq(Line)
        /\ Copies(line, new) \in Nat /\ Copies(line, old) \in Nat
    BY MergedCopies, LinesTyped
  <2>2. CASE Covered(line.words, new)
    BY <2>1, <2>2, MergedCopies
  <2>3. CASE ~Covered(line.words, new)
    <3>1. line \notin ToSet(new)
      BY <2>1, <2>3, CoveredMeans
    <3>2. Copies(line, new) = 0
      BY <2>1, <3>1, CopiesAreThere
    <3> QED
      BY <2>1, <2>3, <3>2, MergedCopies
  <2> QED
    BY <2>2, <2>3
<1> QED
  BY <1>1, PTL DEF CopiesDoNotGrow

=============================================================================
