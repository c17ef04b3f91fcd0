------------------------- MODULE StandupFile_proofs -------------------------
(***************************************************************************)
(* What the standup file keeps, for any number of compiles, items,         *)
(* regenerations and inodes, with any faults and however an add_manual,    *)
(* which takes no lock, crosses the others; and what an edit keeps of the  *)
(* lines behind the regions, however many there are.                       *)
(***************************************************************************)
EXTENDS StandupLayout, Induction, SequenceTheorems

-----------------------------------------------------------------------------
(* Types *)

\* The two ways a text is read are texts.
LEMMA ReadTyped ==
    ASSUME TypeOK
    PROVE  /\ Bytes \in {Blank} \cup Texts
           /\ Parsed \in Texts
           /\ \A r \in Resolutions : TextOf(base[r]) \in Texts
<1>1. NoText \in Texts
  BY DEF NoText, Texts
<1>2. Bytes \in {Blank} \cup Texts
  BY DEF TypeOK, Bytes
<1>3. \A b \in {Blank} \cup Texts : TextOf(b) \in Texts
  BY <1>1 DEF TextOf
<1> QED BY <1>2, <1>3 DEF Parsed, TypeOK

LEMMA TextFields ==
    ASSUME NEW t \in Texts
    PROVE  /\ t.auto \subseteq Work /\ t.peer \in BOOLEAN /\ t.manual \subseteq Manuals
           /\ \A a \in SUBSET Work : /\ [t EXCEPT !.auto = a] \in Texts
                                     /\ [t EXCEPT !.auto = a].auto = a
                                     /\ [t EXCEPT !.auto = a].peer = t.peer
                                     /\ [t EXCEPT !.auto = a].manual = t.manual
           /\ \A m \in SUBSET Manuals : /\ [t EXCEPT !.manual = m] \in Texts
                                        /\ [t EXCEPT !.manual = m].manual = m
                                        /\ [t EXCEPT !.manual = m].peer = t.peer
                                        /\ [t EXCEPT !.manual = m].auto = t.auto
BY DEF Texts

LEMMA OverlayTyped ==
    ASSUME NEW t \in Texts, NEW b \in {Blank} \cup Texts
    PROVE  /\ Overlay(t, b) \subseteq Texts
           /\ Overlay(t, Blank) = {t}
<1>1. b # Blank => [t EXCEPT !.manual = b.manual] \in Texts
  BY TextFields
<1> QED BY <1>1 DEF Overlay

\* A resolution's body is work, and so is a compile's.
LEMMA BodyTyped ==
    ASSUME TypeOK, NEW w \in Writers PROVE Body(w) \in SUBSET Work
<1>1. CASE w \in Compiles
  BY <1>1 DEF TypeOK, Body, Work
<1>2. CASE w \notin Compiles
  BY <1>2, TextFields DEF TypeOK, Body
<1> QED BY <1>1, <1>2

LEMMA ChoiceTyped ==
    ASSUME TypeOK, NEW r \in Resolutions, NEW body \in Picks(r)
    PROVE  body \in SUBSET Work /\ [NoText EXCEPT !.auto = body] \in Texts
<1>1. Shown(r) \subseteq Work
  BY ReadTyped, TextFields DEF Shown
<1>2. body \in SUBSET Work
  BY <1>1 DEF Picks, Work
<1> QED BY <1>2, TextFields DEF NoText, Texts

LEMMA TypeStep == TypeOK /\ [Next]_vars => TypeOK'
<1> SUFFICES ASSUME TypeOK, [Next]_vars PROVE TypeOK'
  OBVIOUS
<1> USE DEF Goto, Resting, Critical, PCs
<1>1. CASE UNCHANGED vars
  BY <1>1 DEF TypeOK, vars
<1>2. ASSUME NEW w \in Writers, Step(w) PROVE TypeOK'
  <2>1. CASE ReadAutoBody(w)
    BY <2>1, ReadTyped, TextFields DEF ReadAutoBody, TypeOK, MayMisread
  <2>2. CASE SetAuto(w)
    <3>1. [Parsed EXCEPT !.auto = Body(w)] \in Texts
      BY ReadTyped, TextFields, BodyTyped
    <3> QED BY <2>2, <3>1 DEF SetAuto, TypeOK, MayCross, Others, MayMisread
  <2>3. CASE AddManual(w)
    <3>1. [Parsed EXCEPT !.manual = @ \cup {w}] \in Texts
      BY <2>3, ReadTyped, TextFields DEF AddManual
    <3> QED BY <2>3, <3>1 DEF AddManual, TypeOK, MayCross, Others, MayMisread
  <2>4. CASE Preview(w)
    BY <2>4, ReadTyped DEF Preview, TypeOK, history
  <2>5. CASE PreviewEnds(w)
    BY <2>5 DEF PreviewEnds, TypeOK, locals, history
  <2>6. CASE Expire(w)
    BY <2>6 DEF Expire, TypeOK, locals, history
  <2>7. CASE KeepCurrent(w)
    BY <2>7 DEF KeepCurrent, TypeOK, locals, history
  <2>8. CASE Resolve(w)
    <3>1. PICK body \in Picks(w) : draft' = [draft EXCEPT ![w] = [NoText EXCEPT !.auto = body]]
      BY <2>8 DEF Resolve
    <3>2. [NoText EXCEPT !.auto = body] \in Texts
      BY <2>8, <3>1, ChoiceTyped DEF Resolve
    <3> QED BY <2>8, <3>1, <3>2 DEF Resolve, TypeOK, MayMisread
  <2>9. CASE RemovePending(w)
    BY <2>9 DEF RemovePending, TypeOK, locals, history
  <2>10. CASE Create(w)
    BY <2>10, StandupFileAssumption DEF Create, TypeOK, history
  <2>11. CASE Fill(w)
    <3>1. fd[w] \in Inodes
      BY <2>11 DEF Fill, TypeOK
    <3>2. PICK t \in Overlay(draft[w], inode[fd[w]]) : inode' = [inode EXCEPT ![fd[w]] = t]
      BY <2>11 DEF Fill
    <3>3. t \in Texts
      BY <3>1, <3>2, OverlayTyped DEF TypeOK
    <3> QED BY <2>11, <3>2, <3>3 DEF Fill, TypeOK, history
  <2>12. CASE Rename(w)
    <3>1. CASE tmp = None
      BY <2>12, <3>1 DEF Rename, After, TypeOK, locals
    <3>2. CASE tmp # None
      <4>1. w \in Resolutions => Shown(w) \subseteq Work
        BY ReadTyped, TextFields DEF Shown
      <4>2. dropped' \subseteq Work
        BY <2>12, <3>2, <4>1 DEF Rename, TypeOK
      <4> QED BY <2>12, <3>2, <4>2 DEF Rename, TypeOK, locals
    <3> QED BY <3>1, <3>2
  <2> QED BY <1>2, <2>1, <2>2, <2>3, <2>4, <2>5, <2>6, <2>7, <2>8, <2>9, <2>10, <2>11,
             <2>12 DEF Step
<1>3. ASSUME NEW w \in Writers, WriteError(w) PROVE TypeOK'
  BY <1>3 DEF WriteError, InCriticalSection, After, TypeOK, history
<1>4. CASE Crash
  <2>1. pc' \in [Writers -> PCs]
    BY <1>4 DEF Crash, After, TypeOK
  <2>2. \A w \in Writers : pc'[w] # "filling"
    BY <1>4 DEF Crash, After, TypeOK
  <2> QED BY <1>4, <2>1, <2>2 DEF Crash, TypeOK, history
<1> QED BY <1>1, <1>2, <1>3, <1>4 DEF Next

LEMMA TypeInit == Init => TypeOK
<1> SUFFICES ASSUME Init PROVE TypeOK
  OBVIOUS
<1>1. NoText \in Texts /\ [NoText EXCEPT !.peer = TRUE] \in Texts
  BY DEF NoText, Texts
<1>2. inode \in [Inodes -> {Blank} \cup Texts] /\ file \in {None} \cup Inodes
  BY <1>1 DEF Init
<1> QED BY <1>1, <1>2 DEF Init, TypeOK, PCs, Resting

\* Every step of a writer of fileops.rs or regeneration.rs, a fault included, leaves the
\* file system, the writers and their texts in their types, overlapping or not.
THEOREM TypeCorrect == Spec => []TypeOK
BY TypeInit, TypeStep, PTL DEF Spec

-----------------------------------------------------------------------------
(* Who may be between its read and its rename                              *)

AtWork(w) == pc[w] \notin Resting

OneWorker == \A v, w \in Work : AtWork(v) /\ AtWork(w) => v = w
OnlyWorkRenders ==
    \A w \in Writers : /\ pc[w] = "rendering" => w \in Compiles
                       /\ pc[w] = "applying" => w \in Resolutions
UncrossedAlone ==
    \A v, w \in Writers : InCriticalSection(v) /\ InCriticalSection(w) /\ v # w => w \in crossed

LockInv == TypeOK /\ OneWorker /\ OnlyWorkRenders /\ UncrossedAlone /\ OnlyManualsCross

LEMMA Kinds ==
    /\ \A w \in Writers : w \in Compiles \/ w \in Resolutions \/ w \in Manuals
    /\ \A w \in Manuals : w \notin Compiles /\ w \notin Resolutions /\ w \notin Work
    /\ \A w \in Compiles : w \notin Resolutions /\ w \in Work /\ w \in Writers
    /\ \A w \in Resolutions : w \notin Compiles /\ w \in Work /\ w \in Writers
BY StandupFileAssumption DEF Writers, Work

\* A step of one writer leaves the others where they are, with what they have.
LEMMA StepFrame ==
    ASSUME TypeOK, NEW w \in Writers, Step(w) \/ WriteError(w), NEW v \in Writers \ {w}
    PROVE  /\ pc'[v] = pc[v] /\ draft'[v] = draft[v] /\ fd'[v] = fd[v]
           /\ v \in Compiles => prev'[v] = prev[v]
           /\ v \in Resolutions => base'[v] = base[v]
<1> USE DEF Goto, TypeOK
<1>1. CASE ReadAutoBody(w) \/ SetAuto(w) \/ AddManual(w)
  BY <1>1 DEF ReadAutoBody, SetAuto, AddManual
<1>2. CASE Preview(w) \/ PreviewEnds(w) \/ Expire(w) \/ KeepCurrent(w) \/ RemovePending(w)
  BY <1>2 DEF Preview, PreviewEnds, Expire, KeepCurrent, RemovePending, locals
<1>3. CASE Resolve(w)
  BY <1>3 DEF Resolve
<1>4. CASE Create(w)
  BY <1>4 DEF Create
<1>5. CASE Fill(w) \/ WriteError(w)
  BY <1>5 DEF Fill, WriteError
<1>6. CASE Rename(w)
  BY <1>6 DEF Rename, locals
<1> QED BY <1>1, <1>2, <1>3, <1>4, <1>5, <1>6 DEF Step

\* A write is begun by the two that read the file for it, and by nobody else.
Starts(w) == SetAuto(w) \/ AddManual(w)

LEMMA Moves ==
    ASSUME TypeOK, NEW w \in Writers, Step(w) \/ WriteError(w)
    PROVE  /\ Starts(w) \/ (crossed' = crossed /\ (InCriticalSection(w)' => InCriticalSection(w)))
           /\ w \in Work /\ AtWork(w)' => AtWork(w) \/ LockIsFree
           /\ pc'[w] = "rendering" => w \in Compiles
           /\ pc'[w] = "applying" => w \in Resolutions
<1> USE DEF Goto, TypeOK, AtWork, InCriticalSection, Critical, Resting, Starts
<1>1. CASE ReadAutoBody(w)
  BY <1>1, Kinds DEF ReadAutoBody
<1>2. CASE Starts(w)
  BY <1>2, Kinds DEF SetAuto, AddManual
<1>3. CASE Preview(w) \/ PreviewEnds(w) \/ Expire(w) \/ KeepCurrent(w) \/ RemovePending(w)
  BY <1>3, Kinds DEF Preview, PreviewEnds, Expire, KeepCurrent, RemovePending, history
<1>4. CASE Resolve(w)
  BY <1>4, Kinds DEF Resolve
<1>5. CASE Create(w) \/ Fill(w)
  BY <1>5 DEF Create, Fill, history
<1>6. CASE Rename(w)
  BY <1>6 DEF Rename, After, history
<1>7. CASE WriteError(w)
  BY <1>7 DEF WriteError, After, history
<1> QED BY <1>1, <1>2, <1>3, <1>4, <1>5, <1>6, <1>7 DEF Step

LEMMA LockStep == LockInv /\ [Next]_vars => LockInv'
<1> SUFFICES ASSUME LockInv, [Next]_vars PROVE LockInv'
  OBVIOUS
<1>1. TypeOK'
  BY TypeStep DEF LockInv
<1>2. ASSUME crossed' = crossed,
             \A w \in Writers : pc'[w] = pc[w] \/ pc'[w] \in Resting
      PROVE  LockInv'
  <2>1. \A w \in Writers : /\ AtWork(w)' => AtWork(w)
                           /\ InCriticalSection(w)' => InCriticalSection(w)
                           /\ pc'[w] \in {"rendering", "applying"} => pc'[w] = pc[w]
    BY <1>2 DEF AtWork, InCriticalSection, Resting, Critical
  <2> QED BY <1>1, <1>2, <2>1, Kinds
          DEF LockInv, OneWorker, OnlyWorkRenders, UncrossedAlone, OnlyManualsCross, Writers
<1>3. ASSUME NEW w \in Writers, Step(w) \/ WriteError(w) PROVE LockInv'
  <2>1. /\ \A v \in Writers \ {w} : pc'[v] = pc[v]
        /\ \A v \in Writers \ {w} : AtWork(v)' = AtWork(v)
        /\ \A v \in Writers \ {w} : InCriticalSection(v)' = InCriticalSection(v)
    BY <1>3, StepFrame DEF LockInv, AtWork, InCriticalSection
  <2>2. OneWorker'
    BY <1>3, <2>1, Moves DEF LockInv, OneWorker, LockIsFree, AtWork, Writers
  <2>3. OnlyWorkRenders'
    BY <1>3, <2>1, Moves DEF LockInv, OnlyWorkRenders
  <2>4. \A v, u \in Work : InCriticalSection(v)' /\ InCriticalSection(u)' => v = u
    BY <2>2 DEF OneWorker, AtWork, InCriticalSection, Resting, Critical
  <2>5. CASE ~Starts(w)
    <3>1. crossed' = crossed /\ \A v \in Writers : InCriticalSection(v)' => InCriticalSection(v)
      BY <1>3, <2>1, <2>5, Moves DEF LockInv
    <3> QED BY <1>1, <2>2, <2>3, <2>4, <3>1
            DEF LockInv, UncrossedAlone, OnlyManualsCross
  <2>6. CASE Starts(w)
    <3>1. MayCross(w) /\ pc'[w] = "creating"
      BY <2>6 DEF Starts, SetAuto, AddManual, Goto, LockInv, TypeOK
    <3>2. CASE Others(w) = {}
      <4>1. crossed' = crossed /\ \A v \in Writers \ {w} : ~InCriticalSection(v)
        BY <3>1, <3>2 DEF MayCross, Others
      <4> QED BY <1>1, <2>1, <2>2, <2>3, <2>4, <4>1
              DEF LockInv, UncrossedAlone, OnlyManualsCross
    <3>3. CASE Others(w) # {}
      <4>1. crossed' = crossed \cup Others(w) \cup {w}
        BY <3>1, <3>3 DEF MayCross
      <4>2. UncrossedAlone'
        BY <2>1, <4>1 DEF LockInv, UncrossedAlone, Others
      <4>3. PICK v \in Writers \ {w} : InCriticalSection(v)
        BY <3>3 DEF Others
      <4>4. InCriticalSection(v)' /\ InCriticalSection(w)'
        BY <2>1, <3>1, <4>3 DEF InCriticalSection, Critical
      <4>5. v \in Manuals \/ w \in Manuals
        BY <2>4, <4>4 DEF Writers
      <4>6. crossed' \cap Manuals # {}
        BY <4>1, <4>3, <4>5 DEF Others
      <4> QED BY <1>1, <2>2, <2>3, <2>4, <4>2, <4>6 DEF LockInv, OnlyManualsCross
    <3> QED BY <3>2, <3>3
  <2> QED BY <2>5, <2>6
<1>4. CASE Crash
  BY <1>2, <1>4 DEF Crash, After, Resting, history
<1>5. CASE UNCHANGED vars
  BY <1>2, <1>5 DEF vars
<1> QED BY <1>3, <1>4, <1>5 DEF Next

LEMMA LockInit == Init => LockInv
<1> SUFFICES ASSUME Init PROVE LockInv
  OBVIOUS
<1>1. \A w \in Writers : pc[w] = "idle"
  BY DEF Init
<1> QED BY <1>1, TypeInit DEF LockInv, OneWorker, OnlyWorkRenders, UncrossedAlone,
        OnlyManualsCross, AtWork, Resting, InCriticalSection, Critical, Init, Writers

\* The run lock serialises those that take it, whatever fails or dies: a write is crossed
\* only where an add_manual is one of the two (fileops.rs:99 takes no lock).
THEOREM OnlyItemsCross == Spec => []OnlyManualsCross
<1>1. LockInv => OnlyManualsCross
  BY DEF LockInv
<1> QED BY <1>1, LockInit, LockStep, PTL DEF Spec

-----------------------------------------------------------------------------
(* The names and the inodes                                                *)

\* What a step that is none of Create, Fill and Rename leaves of the files.
Elsewhere ==
    /\ UNCHANGED <<inode, file, tmp, dropped>>
    /\ \A w \in Writers : /\ fd'[w] \in {fd[w], None}
                          /\ pc'[w] = "filling" => pc[w] = "filling" /\ fd'[w] = fd[w]
                          /\ pc'[w] = "renaming" => pc[w] = "renaming"
                          /\ pc'[w] = "done" => pc[w] \in {"syncing", "done"}
                          /\ pc'[w] = "syncing" => pc[w] = "syncing"

Publishes(w) == Rename(w) /\ tmp # None

LEMMA ElsewhereSteps ==
    ASSUME TypeOK, [Next]_vars,
           \A w \in Writers : ~Create(w) /\ ~Fill(w) /\ ~Publishes(w)
    PROVE  Elsewhere
<1> USE DEF Goto, TypeOK, Elsewhere, history, locals
<1>1. CASE UNCHANGED vars
  BY <1>1 DEF vars
<1>2. CASE Crash
  BY <1>2 DEF Crash, After, Resting
<1>3. ASSUME NEW w \in Writers, Step(w) \/ WriteError(w) PROVE Elsewhere
  <2>1. \A v \in Writers \ {w} : pc'[v] = pc[v] /\ fd'[v] = fd[v]
    BY <1>3, StepFrame
  <2>2. CASE ReadAutoBody(w) \/ SetAuto(w) \/ AddManual(w)
    BY <2>1, <2>2 DEF ReadAutoBody, SetAuto, AddManual
  <2>3. CASE Preview(w) \/ PreviewEnds(w) \/ Expire(w) \/ KeepCurrent(w) \/ RemovePending(w)
    BY <2>1, <2>3 DEF Preview, PreviewEnds, Expire, KeepCurrent, RemovePending
  <2>4. CASE Resolve(w)
    BY <2>1, <2>4 DEF Resolve
  <2>5. CASE WriteError(w)
    BY <2>1, <2>5 DEF WriteError, After
  <2>6. CASE Rename(w)
    BY <2>1, <2>6 DEF Rename, After, Publishes
  <2> QED BY <1>3, <2>2, <2>3, <2>4, <2>5, <2>6 DEF Step
<1> QED BY <1>1, <1>2, <1>3 DEF Next

\* The temporary file of a writer that nobody crosses is its own.
FileApart == file # None => file # tmp
TmpOwned(w) ==
    /\ pc[w] = "filling" => fd[w] = tmp /\ tmp # None /\ inode[tmp] = Blank
    /\ pc[w] = "renaming" => tmp # None /\ inode[tmp] = draft[w]

FileInv == LockInv /\ FileApart /\ \A w \in Writers \ crossed : TmpOwned(w)

\* What the three steps that touch a file do, as far as the invariants need it.
LEMMA Creates ==
    ASSUME FileInv, NEW w \in Writers, Create(w)
    PROVE  /\ tmp' \in Inodes /\ tmp' # file /\ inode' = [inode EXCEPT ![tmp'] = Blank]
           /\ tmp # None => tmp' = tmp
           /\ tmp = None => \A v \in Writers : fd[v] # tmp'
           /\ fd' = [fd EXCEPT ![w] = tmp'] /\ fd'[w] = tmp'
           /\ tmp' # None /\ inode'[tmp'] = Blank
           /\ \A i \in Inodes \ {tmp'} : inode'[i] = inode[i]
           /\ pc[w] = "creating" /\ pc' = [pc EXCEPT ![w] = "filling"]
           /\ file' = file /\ Bytes' = Bytes /\ Parsed' = Parsed /\ Torn' = Torn
           /\ UNCHANGED <<prev, base, draft, dropped, crossed, misread>>
<1> USE DEF FileInv, LockInv
<1>1. PICK i \in Inodes : /\ IF tmp = None THEN Free(i) ELSE i = tmp
                          /\ tmp' = i
                          /\ inode' = [inode EXCEPT ![i] = Blank]
                          /\ fd' = [fd EXCEPT ![w] = i]
  BY DEF Create
<1>2. /\ pc[w] = "creating" /\ pc' = [pc EXCEPT ![w] = "filling"]
      /\ UNCHANGED <<file, prev, base, draft, dropped, crossed, misread>>
  BY DEF Create, Goto, history
<1>3. i # file
  BY <1>1 DEF Free, FileApart, TypeOK
<1>4. inode'[i] = Blank /\ fd'[w] = i /\ i # None /\ \A j \in Inodes \ {i} : inode'[j] = inode[j]
  BY <1>1, StandupFileAssumption DEF TypeOK
<1>5. file # None => inode'[file] = inode[file]
  BY <1>1, <1>3, <1>4 DEF TypeOK
<1>6. Bytes' = Bytes /\ Parsed' = Parsed /\ Torn' = Torn
  BY <1>2, <1>5 DEF Bytes, Parsed, Torn
<1> QED BY <1>1, <1>2, <1>3, <1>4, <1>6 DEF Free

LEMMA Fills ==
    ASSUME FileInv, NEW w \in Writers, Fill(w)
    PROVE  /\ fd[w] \in Inodes /\ draft[w] \in Texts
           /\ \E t \in Overlay(draft[w], inode[fd[w]]) : inode' = [inode EXCEPT ![fd[w]] = t]
           /\ inode'[fd[w]] \in Overlay(draft[w], inode[fd[w]])
           /\ inode'[fd[w]] \in Texts /\ inode'[fd[w]] # Blank
           /\ \A i \in Inodes \ {fd[w]} : inode'[i] = inode[i]
           /\ fd' = [fd EXCEPT ![w] = None]
           /\ pc[w] = "filling" /\ pc' = [pc EXCEPT ![w] = "renaming"]
           /\ UNCHANGED <<file, tmp, prev, base, draft, dropped, crossed, misread>>
           /\ fd[w] # file => Bytes' = Bytes /\ Parsed' = Parsed /\ Torn' = Torn
           /\ w \notin crossed => fd[w] = tmp /\ fd[w] # file /\ inode'[tmp] = draft[w]
<1> USE DEF FileInv, LockInv
<1>1. /\ pc[w] = "filling" /\ pc' = [pc EXCEPT ![w] = "renaming"]
      /\ fd' = [fd EXCEPT ![w] = None]
      /\ UNCHANGED <<file, tmp, prev, base, draft, dropped, crossed, misread>>
  BY DEF Fill, Goto, history
<1>2. fd[w] \in Inodes /\ draft[w] \in Texts
  BY <1>1 DEF TypeOK
<1>3. PICK t \in Overlay(draft[w], inode[fd[w]]) : inode' = [inode EXCEPT ![fd[w]] = t]
  BY DEF Fill
<1>4. t \in Texts /\ t # Blank
  BY <1>2, <1>3, OverlayTyped, StandupFileAssumption DEF TypeOK
<1>5. inode'[fd[w]] = t /\ \A i \in Inodes \ {fd[w]} : inode'[i] = inode[i]
  BY <1>2, <1>3 DEF TypeOK
<1>6. fd[w] # file => Bytes' = Bytes /\ Parsed' = Parsed /\ Torn' = Torn
  BY <1>1, <1>5 DEF TypeOK, Bytes, Parsed, Torn
<1>7. w \notin crossed => fd[w] = tmp /\ fd[w] # file /\ inode'[tmp] = draft[w]
  BY <1>1, <1>2, <1>3, <1>5, OverlayTyped DEF TmpOwned, FileApart
<1> QED BY <1>1, <1>2, <1>3, <1>4, <1>5, <1>6, <1>7

LEMMA Renames ==
    ASSUME FileInv, NEW w \in Writers, Publishes(w)
    PROVE  /\ pc[w] = "renaming" /\ tmp \in Inodes /\ file' = tmp /\ tmp' = None
           /\ file' # None
           /\ pc' = [pc EXCEPT ![w] = IF w \in Resolutions THEN "syncing" ELSE "done"]
           /\ UNCHANGED <<inode, prev, base, draft, fd, crossed, misread>>
           /\ dropped' = IF w \in Resolutions THEN (dropped \cup Shown(w)) \ draft[w].auto
                                             ELSE dropped
           /\ Torn' <=> inode[tmp] = Blank
           /\ ~Torn' => Parsed' = inode[tmp]
           /\ w \notin crossed => ~Torn' /\ inode[tmp] = draft[w] /\ Parsed' = draft[w]
<1> USE DEF FileInv, LockInv, Publishes
<1>1. /\ pc[w] = "renaming" /\ tmp \in Inodes /\ file' = tmp /\ tmp' = None
      /\ pc' = [pc EXCEPT ![w] = IF w \in Resolutions THEN "syncing" ELSE "done"]
      /\ UNCHANGED <<inode, prev, base, draft, fd, crossed, misread>>
      /\ dropped' = IF w \in Resolutions THEN (dropped \cup Shown(w)) \ draft[w].auto
                                        ELSE dropped
  BY DEF Rename, Goto, locals, TypeOK
<1>2. file' # None
  BY <1>1, StandupFileAssumption
<1>3. (Torn' <=> inode[tmp] = Blank) /\ (~Torn' => Parsed' = inode[tmp])
  BY <1>1, <1>2 DEF Torn, Parsed, Bytes, TextOf
<1>4. w \notin crossed => inode[tmp] = draft[w]
  BY <1>1 DEF TmpOwned
<1>5. draft[w] # Blank
  BY StandupFileAssumption DEF TypeOK
<1> QED BY <1>1, <1>2, <1>3, <1>4, <1>5

LEMMA StaysElsewhere ==
    ASSUME Elsewhere
    PROVE  Bytes' = Bytes /\ Parsed' = Parsed /\ Torn' = Torn
BY DEF Elsewhere, Bytes, Parsed, Torn

\* Nobody is crossed that was, and a writer that is not is alone.
LEMMA Alone ==
    ASSUME LockInv, [Next]_vars
    PROVE  /\ crossed \subseteq crossed'
           /\ misread => misread'
           /\ \A v, w \in Writers : InCriticalSection(v) /\ w # v /\ w \notin crossed
                                        => pc[w] \notin Critical
<1>1. ASSUME NEW w \in Writers, Step(w)
      PROVE  crossed \subseteq crossed' /\ (misread => misread')
  <2>1. CASE ReadAutoBody(w) \/ Resolve(w)
    BY <2>1 DEF ReadAutoBody, Resolve, MayMisread
  <2>2. CASE SetAuto(w) \/ AddManual(w)
    BY <2>2 DEF SetAuto, AddManual, MayCross, MayMisread
  <2>3. CASE \/ Preview(w) \/ PreviewEnds(w) \/ Expire(w) \/ KeepCurrent(w)
             \/ RemovePending(w) \/ Create(w) \/ Fill(w) \/ Rename(w)
    BY <2>3 DEF Preview, PreviewEnds, Expire, KeepCurrent, RemovePending, Create, Fill,
                Rename, history
  <2> QED BY <1>1, <2>1, <2>2, <2>3 DEF Step
<1>2. crossed \subseteq crossed' /\ (misread => misread')
  BY <1>1 DEF Next, WriteError, Crash, vars, history
<1> QED BY <1>2 DEF LockInv, UncrossedAlone, InCriticalSection

LEMMA OnlyTornIsMisread ==
    ASSUME [Next]_vars PROVE misread' => misread \/ Torn
<1>1. ASSUME NEW w \in Writers, Step(w) PROVE misread' => misread \/ Torn
  <2>1. CASE ReadAutoBody(w) \/ Resolve(w) \/ SetAuto(w) \/ AddManual(w)
    BY <2>1 DEF ReadAutoBody, Resolve, SetAuto, AddManual, MayMisread
  <2>2. CASE \/ Preview(w) \/ PreviewEnds(w) \/ Expire(w) \/ KeepCurrent(w)
             \/ RemovePending(w) \/ Create(w) \/ Fill(w) \/ Rename(w)
    BY <2>2 DEF Preview, PreviewEnds, Expire, KeepCurrent, RemovePending, Create, Fill,
                Rename, history
  <2> QED BY <1>1, <2>1, <2>2 DEF Step
<1> QED BY <1>1 DEF Next, WriteError, Crash, vars, history

LEMMA FileStep == FileInv /\ [Next]_vars => FileInv'
<1> SUFFICES ASSUME FileInv, [Next]_vars PROVE FileInv'
  OBVIOUS
<1>1. LockInv /\ LockInv' /\ TypeOK /\ crossed \subseteq crossed'
  BY LockStep, Alone DEF FileInv, LockInv
<1>2. ASSUME NEW w \in Writers, Create(w) PROVE FileInv'
  <2>1. FileApart'
    BY <1>2, Creates DEF FileApart
  <2>2. ASSUME NEW v \in Writers \ crossed' PROVE TmpOwned(v)'
    <3>1. CASE v = w
      BY <1>1, <1>2, <3>1, Creates DEF TmpOwned, TypeOK
    <3>2. CASE v # w
      <4>1. pc'[v] = pc[v] /\ pc[v] \notin Critical
        BY <1>1, <1>2, <2>2, <3>2, Creates, Alone DEF InCriticalSection, Critical, TypeOK
      <4> QED BY <4>1 DEF TmpOwned, Critical
    <3> QED BY <3>1, <3>2
  <2> QED BY <1>1, <2>1, <2>2 DEF FileInv
<1>3. ASSUME NEW w \in Writers, Fill(w) PROVE FileInv'
  <2>1. FileApart'
    BY <1>3, Fills DEF FileInv, FileApart
  <2>2. ASSUME NEW v \in Writers \ crossed' PROVE TmpOwned(v)'
    <3>1. CASE v = w
      BY <1>1, <1>3, <2>2, <3>1, Fills DEF FileInv, TmpOwned, TypeOK
    <3>2. CASE v # w
      <4>1. pc'[v] = pc[v] /\ pc[v] \notin Critical
        BY <1>1, <1>3, <2>2, <3>2, Fills, Alone DEF InCriticalSection, Critical, TypeOK
      <4> QED BY <4>1 DEF TmpOwned, Critical
    <3> QED BY <3>1, <3>2
  <2> QED BY <1>1, <2>1, <2>2 DEF FileInv
<1>4. ASSUME NEW w \in Writers, Publishes(w) PROVE FileInv'
  <2>1. FileApart'
    BY <1>4, Renames DEF FileApart
  <2>2. ASSUME NEW v \in Writers \ crossed' PROVE TmpOwned(v)'
    <3>1. pc'[v] \notin Critical
      BY <1>1, <1>4, <2>2, Renames, Alone DEF InCriticalSection, Critical, TypeOK
    <3> QED BY <3>1 DEF TmpOwned, Critical
  <2> QED BY <1>1, <2>1, <2>2 DEF FileInv
<1>5. CASE Elsewhere
  <2>1. FileApart'
    BY <1>5 DEF FileInv, FileApart, Elsewhere
  <2>2. ASSUME NEW v \in Writers \ crossed', pc'[v] = "renaming" PROVE draft'[v] = draft[v]
    <3>1. CASE UNCHANGED vars \/ Crash
      BY <3>1 DEF vars, Crash
    <3>2. ASSUME NEW w \in Writers, Step(w) \/ WriteError(w) PROVE draft'[v] = draft[v]
      <4>1. CASE v # w
        BY <1>1, <3>2, <4>1, StepFrame
      <4>2. CASE v = w
        BY <1>1, <2>2, <3>2, <4>2
           DEF Step, ReadAutoBody, SetAuto, AddManual, Preview, PreviewEnds, Expire,
               KeepCurrent, Resolve, RemovePending, Create, Fill, Rename, WriteError, Goto,
               TypeOK, locals
      <4> QED BY <4>1, <4>2
    <3> QED BY <3>1, <3>2 DEF Next
  <2>3. \A v \in Writers \ crossed' : TmpOwned(v)'
    BY <1>1, <1>5, <2>2 DEF FileInv, TmpOwned, Elsewhere
  <2> QED BY <1>1, <2>1, <2>3 DEF FileInv
<1> QED BY <1>1, <1>2, <1>3, <1>4, <1>5, ElsewhereSteps

LEMMA FileInit == Init => FileInv
<1> SUFFICES ASSUME Init PROVE FileInv
  OBVIOUS
<1>1. \A w \in Writers : pc[w] = "idle"
  BY DEF Init
<1> QED BY <1>1, LockInit, StandupFileAssumption DEF FileInv, FileApart, TmpOwned, Init

-----------------------------------------------------------------------------
(* The file is empty only where writers crossed                            *)

\* A writer that will rename the temporary file without filling it again, and what must
\* then be the reason if that file is empty: another has truncated it under its name.
Exposed(w) == pc[w] = "renaming" \/ (pc[w] = "filling" /\ fd[w] # tmp)

Emptied(w) ==
    /\ w \in crossed
    /\ pc[w] \notin {"renaming", "syncing", "done"}
    /\ pc[w] = "filling" => fd[w] = tmp

EmptyIsEmptied ==
    (\E v \in Writers : Exposed(v)) /\ tmp # None /\ inode[tmp] = Blank
        => \E w \in Writers : Emptied(w)

TornInv == FileInv /\ EmptyIsEmptied /\ NeverTorn /\ (misread => crossed # {})

LEMMA TornStep == TornInv /\ [Next]_vars => TornInv'
<1> SUFFICES ASSUME TornInv, [Next]_vars PROVE TornInv'
  OBVIOUS
<1>1. /\ FileInv /\ FileInv' /\ LockInv /\ TypeOK /\ TypeOK'
      /\ crossed \subseteq crossed' /\ crossed \subseteq Writers
  BY FileStep, Alone DEF TornInv, FileInv, LockInv, TypeOK
<1>2. ASSUME NEW w \in Writers, Create(w) PROVE EmptyIsEmptied' /\ NeverTorn'
  <2>1. EmptyIsEmptied'
    <3> SUFFICES ASSUME NEW v \in Writers, Exposed(v)' PROVE Emptied(w)'
      BY DEF EmptyIsEmptied
    <3>1. pc'[w] = "filling" /\ fd'[w] = tmp' /\ InCriticalSection(w)
      BY <1>1, <1>2, Creates DEF TypeOK, InCriticalSection, Critical
    <3>2. v # w
      BY <3>1 DEF Exposed
    <3>3. InCriticalSection(v)
      BY <1>1, <1>2, <3>2, Creates DEF Exposed, TypeOK, InCriticalSection, Critical
    <3>4. w \in crossed
      BY <1>1, <3>1, <3>2, <3>3 DEF LockInv, UncrossedAlone
    <3> QED BY <1>1, <3>1, <3>4 DEF Emptied
  <2>2. NeverTorn'
    BY <1>1, <1>2, Creates DEF TornInv, NeverTorn, TypeOK
  <2> QED BY <2>1, <2>2
<1>3. ASSUME NEW w \in Writers, Fill(w) PROVE EmptyIsEmptied' /\ NeverTorn'
  <2>1. EmptyIsEmptied'
    <3> SUFFICES ASSUME NEW v \in Writers, Exposed(v)', tmp' # None, inode'[tmp'] = Blank
                 PROVE  \E u \in Writers : Emptied(u)'
      BY DEF EmptyIsEmptied
    <3>1. tmp' = tmp /\ fd[w] # tmp /\ pc[w] = "filling"
      BY <1>1, <1>3, Fills
    <3>2. inode[tmp] = Blank
      BY <1>1, <1>3, <3>1, Fills DEF TypeOK
    <3>3. PICK u \in Writers : Emptied(u)
      BY <3>1, <3>2 DEF TornInv, EmptyIsEmptied, Exposed
    <3>4. u # w
      BY <3>1, <3>3 DEF Emptied
    <3>5. pc'[u] = pc[u] /\ fd'[u] = fd[u] /\ crossed' = crossed
      BY <1>1, <1>3, <3>4, Fills DEF TypeOK
    <3> QED BY <3>1, <3>3, <3>5 DEF Emptied
  <2>2. NeverTorn'
    <3>1. CASE fd[w] = file
      BY <1>1, <1>3, <3>1, Fills DEF Torn, NeverTorn
    <3>2. CASE fd[w] # file
      <4>1. /\ Torn' = Torn /\ crossed' = crossed
            /\ \A u \in Writers : pc'[u] \in {"syncing", "done"} => pc[u] \in {"syncing", "done"}
        BY <1>1, <1>3, <3>2, Fills DEF TypeOK
      <4> QED BY <1>1, <4>1 DEF TornInv, NeverTorn
    <3> QED BY <3>1, <3>2
  <2> QED BY <2>1, <2>2
<1>4. ASSUME NEW w \in Writers, Publishes(w) PROVE EmptyIsEmptied' /\ NeverTorn'
  <2>1. EmptyIsEmptied'
    BY <1>1, <1>4, Renames DEF EmptyIsEmptied
  <2>2. NeverTorn'
    <3> SUFFICES ASSUME Torn' PROVE \E u \in crossed' : pc'[u] \notin {"syncing", "done"}
      BY DEF NeverTorn
    <3>1. inode[tmp] = Blank /\ tmp # None /\ Exposed(w)
      BY <1>1, <1>4, Renames DEF Publishes, Exposed
    <3>2. PICK u \in Writers : Emptied(u)
      BY <3>1 DEF TornInv, EmptyIsEmptied
    <3>3. u # w
      BY <1>1, <1>4, <3>2, Renames DEF Emptied
    <3>4. pc'[u] = pc[u]
      BY <1>1, <1>4, <3>3, Renames DEF TypeOK
    <3> QED BY <1>1, <3>2, <3>4 DEF Emptied
  <2> QED BY <2>1, <2>2
<1>5. ASSUME Elsewhere PROVE EmptyIsEmptied' /\ NeverTorn'
  <2>1. \A v \in Writers : (Exposed(v)' => Exposed(v)) /\ (Emptied(v) => Emptied(v)')
    BY <1>1, <1>5 DEF Elsewhere, Exposed, Emptied
  <2>2. EmptyIsEmptied'
    BY <1>5, <2>1 DEF TornInv, EmptyIsEmptied, Elsewhere
  <2>3. NeverTorn'
    BY <1>1, <1>5, StaysElsewhere DEF TornInv, NeverTorn, Elsewhere
  <2> QED BY <2>2, <2>3
<1>6. EmptyIsEmptied' /\ NeverTorn'
  BY <1>1, <1>2, <1>3, <1>4, <1>5, ElsewhereSteps
<1>7. misread' => misread \/ Torn
  BY OnlyTornIsMisread
<1>8. misread' => crossed' # {}
  BY <1>1, <1>7 DEF TornInv, NeverTorn
<1> QED BY <1>1, <1>6, <1>8 DEF TornInv

LEMMA TornInit == Init => TornInv
<1> SUFFICES ASSUME Init PROVE TornInv
  OBVIOUS
<1>1. \A w \in Writers : pc[w] = "idle"
  BY DEF Init
<1>2. ~Torn
  <2>1. [NoText EXCEPT !.peer = TRUE] \in Texts
    BY DEF NoText, Texts
  <2>2. file # None => inode[file] \in Texts
    BY <2>1 DEF Init
  <2> QED BY <2>2, StandupFileAssumption DEF Torn
<1> QED BY <1>1, <1>2, FileInit DEF TornInv, EmptyIsEmptied, Exposed, NeverTorn, Init

\* 05-security.md's "atomic write-then-rename", for any number of writers, crossing each
\* other or not: whoever is cut off, and wherever, the file is never left empty by writers
\* that did not cross, and where two crossed only until both have written.
THEOREM FileIsNeverTorn == Spec => []NeverTorn
<1>1. TornInv => NeverTorn
  BY DEF TornInv
<1> QED BY <1>1, TornInit, TornStep, PTL DEF Spec

-----------------------------------------------------------------------------
(* What writers carry from step to step                                    *)

Kept(w) ==
    /\ draft'[w] = draft[w]
    /\ w \in Compiles => prev'[w] = prev[w]
    /\ w \in Resolutions => base'[w] = base[w]

Carries(w) ==
    /\ InCriticalSection(w)' => Starts(w) \/ (InCriticalSection(w) /\ Kept(w))
    /\ pc'[w] = "rendering" => ReadAutoBody(w) \/ (pc[w] = "rendering" /\ Kept(w))
    /\ pc'[w] = "applying" => Resolve(w) \/ (pc[w] = "applying" /\ Kept(w))
    /\ pc'[w] = "syncing" => \/ Publishes(w) /\ w \in Resolutions
                             \/ pc[w] = "syncing" /\ Kept(w)
    /\ pc'[w] = "done" => \/ Publishes(w) /\ w \notin Resolutions
                          \/ pc[w] \in {"syncing", "done"} /\ Kept(w)
    /\ pc[w] = "done" => pc'[w] = "done"

LEMMA WritersCarry == ASSUME TypeOK, [Next]_vars, NEW w \in Writers PROVE Carries(w)
<1> USE DEF TypeOK, Goto, Carries, Kept, InCriticalSection, Critical
<1>1. CASE UNCHANGED vars
  BY <1>1 DEF vars
<1>2. CASE Crash
  BY <1>2 DEF Crash, After, Resting
<1>3. ASSUME NEW v \in Writers \ {w}, Step(v) \/ WriteError(v) PROVE Carries(w)
  BY <1>3, StepFrame
<1>4. CASE WriteError(w)
  BY <1>4 DEF WriteError, After
<1>5. CASE Step(w)
  <2>1. CASE ReadAutoBody(w)
    BY <2>1 DEF ReadAutoBody
  <2>2. CASE Starts(w)
    BY <2>2 DEF Starts, SetAuto, AddManual
  <2>3. CASE Preview(w) \/ PreviewEnds(w) \/ Expire(w) \/ KeepCurrent(w)
    BY <2>3 DEF Preview, PreviewEnds, Expire, KeepCurrent
  <2>4. CASE Resolve(w)
    BY <2>4 DEF Resolve
  <2>5. CASE RemovePending(w)
    BY <2>5, Kinds DEF RemovePending, locals
  <2>6. CASE Create(w) \/ Fill(w)
    BY <2>6 DEF Create, Fill
  <2>7. CASE Rename(w)
    BY <2>7 DEF Rename, Publishes, After, locals
  <2> QED BY <1>5, <2>1, <2>2, <2>3, <2>4, <2>5, <2>6, <2>7 DEF Step, Starts
<1> QED BY <1>1, <1>2, <1>3, <1>4, <1>5 DEF Next

\* The bytes of the file change where a writer renames, and where one that was crossed
\* fills the file through a descriptor of its former temporary file.
LEMMA FileMoves ==
    ASSUME FileInv, [Next]_vars
    PROVE  \/ Bytes' = Bytes /\ Parsed' = Parsed /\ Torn' = Torn
           \/ \E w \in Writers : Publishes(w)
           \/ \E w \in crossed : Fill(w) /\ fd[w] = file
<1>1. TypeOK
  BY DEF FileInv, LockInv
<1>2. ASSUME NEW w \in Writers, Fill(w), fd[w] = file PROVE w \in crossed
  BY <1>2, Fills
<1> QED BY <1>1, <1>2, Creates, Fills, ElsewhereSteps, StaysElsewhere

-----------------------------------------------------------------------------
(* Writes that are not crossed are edits                                   *)

\* What an uncrossed writer is about to write is the file, but for its own region.
DraftExtends(w) ==
    /\ draft[w].peer = Parsed.peer
    /\ w \in Manuals => /\ draft[w].auto = Parsed.auto
                        /\ draft[w].manual = Parsed.manual \cup {w}
    /\ w \in Work => draft[w].manual = Parsed.manual

\* The body it writes is the merged or the chosen one.
BodyIsPicked(w) ==
    /\ w \in Compiles /\ InCriticalSection(w) => draft[w].auto = prev[w] \cup {w}
    /\ w \in Resolutions /\ (pc[w] = "applying" \/ InCriticalSection(w))
           => draft[w].auto \in Picks(w)

\* The run lock keeps what a worker has read current, as long as nobody crosses anybody.
ReadIsCurrent(w) ==
    /\ w \in Compiles /\ (pc[w] = "rendering" \/ InCriticalSection(w))
           => prev[w] = Parsed.auto
    /\ w \in Resolutions /\ (pc[w] = "applying" \/ InCriticalSection(w))
           => Shown(w) = Parsed.auto

HasRead(w) == pc[w] \in {"rendering", "applying"} \/ InCriticalSection(w)

DraftInv ==
    /\ FileInv
    /\ \A w \in Writers \ crossed : InCriticalSection(w) => DraftExtends(w)
    /\ \A w \in Writers : BodyIsPicked(w)
    /\ crossed = {} => \A w \in Writers : ReadIsCurrent(w)
    /\ \A w \in Writers : pc[w] = "syncing" => w \in Resolutions

\* The draft a write is begun with.
LEMMA StartsWith ==
    ASSUME TypeOK, OnlyWorkRenders, NEW w \in Writers, Starts(w)
    PROVE  /\ ~InCriticalSection(w) /\ pc'[w] = "creating"
           /\ pc[w] \in {"idle", "rendering", "applying"}
           /\ MayCross(w) /\ MayMisread
           /\ UNCHANGED <<inode, file, tmp, prev, base, fd, dropped>>
           /\ \A v \in Writers \ {w} : pc'[v] = pc[v]
           /\ draft'[w].peer = Parsed.peer
           /\ w \in Manuals => /\ draft'[w].auto = Parsed.auto
                               /\ draft'[w].manual = Parsed.manual \cup {w}
           /\ w \in Work => /\ draft'[w].manual = Parsed.manual
                            /\ draft'[w].auto = Body(w)
           /\ w \in Compiles => pc[w] = "rendering"
           /\ w \in Resolutions => pc[w] = "applying"
<1> USE DEF Goto, TypeOK
<1>1. Parsed \in Texts
  BY ReadTyped
<1>2. CASE SetAuto(w)
  <2>1. /\ pc[w] \in {"rendering", "applying"} /\ w \in Work
        /\ w \in Compiles => pc[w] = "rendering"
        /\ w \in Resolutions => pc[w] = "applying"
    BY <1>2, Kinds DEF SetAuto, OnlyWorkRenders
  <2>2. draft'[w] = [Parsed EXCEPT !.auto = Body(w)]
    BY <1>2 DEF SetAuto
  <2>3. draft'[w].peer = Parsed.peer /\ draft'[w].manual = Parsed.manual /\ draft'[w].auto = Body(w)
    BY <1>1, <2>2, BodyTyped, TextFields
  <2> QED BY <1>2, <2>1, <2>3, Kinds DEF SetAuto, InCriticalSection, Critical
<1>3. CASE AddManual(w)
  <2>1. draft'[w] = [Parsed EXCEPT !.manual = @ \cup {w}] /\ w \in Manuals
    BY <1>3 DEF AddManual
  <2>2. /\ draft'[w].peer = Parsed.peer /\ draft'[w].auto = Parsed.auto
        /\ draft'[w].manual = Parsed.manual \cup {w}
    BY <1>1, <2>1, TextFields
  <2> QED BY <1>3, <2>1, <2>2, Kinds DEF AddManual, InCriticalSection, Critical
<1> QED BY <1>2, <1>3 DEF Starts

LEMMA DraftStep == DraftInv /\ [Next]_vars => DraftInv'
<1> SUFFICES ASSUME DraftInv, [Next]_vars PROVE DraftInv'
  OBVIOUS
<1>1. /\ FileInv /\ FileInv' /\ LockInv /\ LockInv' /\ TypeOK /\ TypeOK' /\ OnlyWorkRenders
      /\ crossed \subseteq crossed' /\ crossed \subseteq Writers
  BY FileStep, Alone DEF DraftInv, FileInv, LockInv, TypeOK
<1>2. \A w \in Writers : Carries(w)
  BY <1>1, WritersCarry
<1>3. ASSUME NEW w \in Writers \ crossed', InCriticalSection(w)' PROVE DraftExtends(w)'
  <2>1. CASE Starts(w)
    <3>1. Parsed' = Parsed
      BY <1>1, <2>1, StartsWith DEF Parsed, Bytes
    <3> QED BY <1>1, <2>1, <3>1, StartsWith DEF DraftExtends
  <2>2. CASE InCriticalSection(w) /\ Kept(w)
    <3>1. DraftExtends(w) /\ w \notin crossed /\ draft'[w] = draft[w]
      BY <1>1, <1>3, <2>2 DEF DraftInv, Kept
    <3>2. ~ \E v \in Writers : Publishes(v)
      <4> SUFFICES ASSUME NEW v \in Writers, Publishes(v) PROVE FALSE
        OBVIOUS
      <4>1. InCriticalSection(v) /\ ~InCriticalSection(v)'
        BY <1>1, Renames DEF TypeOK, InCriticalSection, Critical
      <4> QED BY <1>1, <1>3, <2>2, <3>1, <4>1, Alone DEF InCriticalSection
    <3>3. ~ \E v \in crossed : Fill(v) /\ fd[v] = file
      <4> SUFFICES ASSUME NEW v \in crossed, Fill(v) PROVE FALSE
        OBVIOUS
      <4>1. InCriticalSection(v)
        BY <1>1, Fills DEF InCriticalSection, Critical
      <4> QED BY <1>1, <2>2, <3>1, <4>1, Alone DEF InCriticalSection
    <3>4. Parsed' = Parsed
      BY <1>1, <3>2, <3>3, FileMoves
    <3> QED BY <3>1, <3>4 DEF DraftExtends
  <2> QED BY <1>2, <1>3, <2>1, <2>2 DEF Carries
<1>4. ASSUME NEW w \in Writers PROVE BodyIsPicked(w)'
  <2>1. ASSUME w \in Compiles, InCriticalSection(w)' PROVE draft'[w].auto = prev'[w] \cup {w}
    <3>1. CASE Starts(w)
      BY <1>1, <2>1, <3>1, StartsWith, Kinds DEF Body
    <3>2. CASE InCriticalSection(w) /\ Kept(w)
      BY <2>1, <3>2 DEF DraftInv, BodyIsPicked, Kept
    <3> QED BY <1>2, <2>1, <3>1, <3>2 DEF Carries
  <2>2. ASSUME w \in Resolutions, pc'[w] = "applying" \/ InCriticalSection(w)'
        PROVE  draft'[w].auto \in Picks(w)'
    <3>1. CASE Starts(w)
      <4>1. draft'[w].auto = draft[w].auto /\ base' = base /\ pc[w] = "applying"
        BY <1>1, <2>2, <3>1, StartsWith, Kinds DEF Body
      <4> QED BY <2>2, <4>1 DEF DraftInv, BodyIsPicked, Picks, Shown
    <3>2. CASE Kept(w) /\ (InCriticalSection(w) \/ pc[w] = "applying")
      BY <2>2, <3>2 DEF DraftInv, BodyIsPicked, Picks, Shown, Kept
    <3>3. CASE Resolve(w)
      <4>1. PICK body \in Picks(w) : draft' = [draft EXCEPT ![w] = [NoText EXCEPT !.auto = body]]
        BY <3>3 DEF Resolve
      <4>2. draft'[w].auto = body /\ base' = base
        BY <1>1, <3>3, <4>1 DEF Resolve, TypeOK, NoText
      <4> QED BY <4>2 DEF Picks, Shown
    <3> QED BY <1>2, <2>2, <3>1, <3>2, <3>3 DEF Carries
  <2> QED BY <2>1, <2>2 DEF BodyIsPicked
<1>5. ASSUME crossed' = {}, NEW w \in Writers PROVE ReadIsCurrent(w)'
  <2>1. crossed = {} /\ ReadIsCurrent(w)
    BY <1>1, <1>5 DEF DraftInv
  <2>2. ASSUME w \in Work, HasRead(w), HasRead(w)' PROVE Parsed'.auto = Parsed.auto
    <3>1. CASE Parsed' = Parsed
      BY <3>1
    <3>2. ASSUME NEW v \in Writers, Publishes(v) PROVE Parsed'.auto = Parsed.auto
      <4>1. /\ InCriticalSection(v) /\ AtWork(v) /\ ~HasRead(v)' /\ AtWork(w)
            /\ Parsed' = draft[v]
        BY <1>1, <2>1, <2>2, <3>2, Renames
           DEF TypeOK, InCriticalSection, Critical, AtWork, Resting, HasRead
      <4>2. CASE v \in Manuals
        BY <2>1, <4>1, <4>2 DEF DraftInv, DraftExtends
      <4>3. CASE v \in Work
        BY <1>1, <2>2, <4>1, <4>3 DEF LockInv, OneWorker
      <4> QED BY <4>2, <4>3 DEF Writers
    <3> QED BY <1>1, <2>1, <3>1, <3>2, FileMoves
  <2>3. CASE Starts(w)
    <3>1. Parsed' = Parsed /\ prev' = prev /\ base' = base
      BY <1>1, <2>3, StartsWith DEF Parsed, Bytes
    <3> QED BY <1>1, <2>1, <2>3, <3>1, StartsWith DEF ReadIsCurrent, Shown
  <2>4. CASE ReadAutoBody(w)
    <3>1. Parsed' = Parsed /\ prev'[w] = Parsed.auto /\ w \in Compiles
      BY <1>1, <2>4 DEF ReadAutoBody, Parsed, Bytes, TypeOK
    <3> QED BY <3>1, Kinds DEF ReadIsCurrent
  <2>5. CASE Resolve(w)
    <3>1. Parsed' = Parsed /\ base'[w] = Bytes /\ w \in Resolutions
      BY <1>1, <2>5 DEF Resolve, Parsed, Bytes, TypeOK
    <3> QED BY <3>1, Kinds DEF ReadIsCurrent, Shown, Parsed
  <2>6. CASE HasRead(w) /\ Kept(w)
    <3>1. HasRead(w)' /\ w \in Work => Parsed'.auto = Parsed.auto
      BY <2>2, <2>6
    <3> QED BY <2>1, <2>6, <3>1, <1>1, Kinds
            DEF ReadIsCurrent, Shown, Kept, HasRead, LockInv, OnlyWorkRenders
  <2> QED BY <1>2, <2>3, <2>4, <2>5, <2>6 DEF Carries, HasRead, ReadIsCurrent
<1>6. ASSUME NEW w \in Writers, pc'[w] = "syncing" PROVE w \in Resolutions
  BY <1>2, <1>6 DEF Carries, DraftInv
<1> QED BY <1>1, <1>3, <1>4, <1>5, <1>6 DEF DraftInv

LEMMA DraftInit == Init => DraftInv
<1> SUFFICES ASSUME Init PROVE DraftInv
  OBVIOUS
<1>1. \A w \in Writers : pc[w] = "idle"
  BY DEF Init
<1> QED BY <1>1, FileInit
        DEF DraftInv, BodyIsPicked, ReadIsCurrent, InCriticalSection, Critical

Saved == {w \in Compiles \cup Manuals : pc[w] = "done"}

\* A text that differs from another in one region is an edit of it.
LEMMA OneRegion ==
    ASSUME NEW s \in Texts, NEW t \in Texts, s.peer = t.peer
    PROVE  /\ s.manual = t.manual => s = [t EXCEPT !.auto = s.auto]
           /\ s.auto = t.auto => s = [t EXCEPT !.manual = s.manual]
BY DEF Texts

\* Whoever renames is reported, and nobody else.
LEMMA SavedGrows ==
    ASSUME DraftInv, [Next]_vars
    PROVE  /\ \A w \in Writers : Publishes(w) => /\ Saved' = Saved \cup ({w} \ Resolutions)
                                                 /\ w \notin Saved /\ crossed' = crossed
           /\ (~ \E w \in Writers : Publishes(w)) => Saved' = Saved
<1>1. TypeOK /\ FileInv
  BY DEF DraftInv, FileInv, LockInv
<1>2. ASSUME NEW w \in Writers, Publishes(w)
      PROVE  Saved' = Saved \cup ({w} \ Resolutions) /\ w \notin Saved /\ crossed' = crossed
  BY <1>1, <1>2, Renames, Kinds DEF Saved, TypeOK, Writers
<1>3. ASSUME ~ \E w \in Writers : Publishes(w) PROVE Saved' = Saved
  <2>1. ASSUME NEW w \in Compiles \cup Manuals PROVE pc'[w] = "done" <=> pc[w] = "done"
    <3>1. w \in Writers /\ w \notin Resolutions
      BY Kinds DEF Writers
    <3> QED BY <1>1, <1>3, <3>1, WritersCarry DEF Carries, DraftInv
  <2> QED BY <2>1 DEF Saved
<1> QED BY <1>2, <1>3

\* The rename of a writer that is not crossed is its edit of the text that was there.
LEMMA RenameIsEdit ==
    ASSUME DraftInv, [Next]_vars, NEW w \in Writers \ crossed, Publishes(w)
    PROVE  Edits!EditsNext
<1>1. TypeOK /\ FileInv /\ InCriticalSection(w)
  BY Renames DEF DraftInv, FileInv, LockInv, InCriticalSection, Critical
<1>2. /\ Parsed' = draft[w] /\ draft[w] \in Texts /\ Parsed \in Texts
      /\ DraftExtends(w) /\ BodyIsPicked(w) /\ (crossed = {} => ReadIsCurrent(w))
      /\ w \notin Saved /\ Saved' = Saved \cup ({w} \ Resolutions) /\ crossed' = crossed
  BY <1>1, Renames, ReadTyped, SavedGrows DEF DraftInv, TypeOK
<1>3. CASE w \in Compiles
  <2>1. draft[w].auto = prev[w] \cup {w} /\ draft[w].manual = Parsed.manual
    BY <1>1, <1>2, <1>3, Kinds DEF DraftExtends, BodyIsPicked
  <2>2. draft[w] = [Parsed EXCEPT !.auto = draft[w].auto]
    BY <1>2, <2>1, OneRegion DEF DraftExtends
  <2>3. prev[w] \in Edits!Bullets
    BY <1>1, <1>2, <1>3 DEF Edits!Bullets, ReadIsCurrent, TypeOK, Work
  <2>4. Saved' = Saved \cup {w}
    BY <1>2, <1>3, Kinds
  <2>5. draft[w] = [Parsed EXCEPT !.auto = prev[w] \cup {w}]
    BY <2>1, <2>2
  <2> QED BY <1>2, <1>3, <2>3, <2>4, <2>5 DEF Edits!EditsNext, Edits!Compile, Saved
<1>4. CASE w \in Manuals
  <2>1. draft[w].auto = Parsed.auto /\ draft[w].manual = Parsed.manual \cup {w}
    BY <1>2, <1>4 DEF DraftExtends
  <2>2. draft[w] = [Parsed EXCEPT !.manual = draft[w].manual]
    BY <1>2, <2>1, OneRegion DEF DraftExtends
  <2>3. draft[w] = [Parsed EXCEPT !.manual = @ \cup {w}]
    BY <2>1, <2>2
  <2>4. Saved' = Saved \cup {w}
    BY <1>2, <1>4, Kinds
  <2> QED BY <1>2, <1>4, <2>3, <2>4 DEF Edits!EditsNext, Edits!AddItem, Saved
<1>5. CASE w \in Resolutions
  <2>1. draft[w].auto \in SUBSET (Shown(w) \cup {w}) \ {{}} /\ draft[w].manual = Parsed.manual
    BY <1>1, <1>2, <1>5, Kinds DEF DraftExtends, BodyIsPicked, Picks
  <2>2. draft[w] = [Parsed EXCEPT !.auto = draft[w].auto]
    BY <1>2, <2>1, OneRegion DEF DraftExtends
  <2>3. Shown(w) \in Edits!Bullets
    <3>1. Shown(w) \subseteq Work
      BY <1>1, <1>5, ReadTyped, TextFields DEF Shown
    <3> QED BY <1>1, <1>2, <1>5, <3>1 DEF Edits!Bullets, ReadIsCurrent, Work
  <2>4. Saved' = Saved
    BY <1>2, <1>5
  <2> QED BY <1>2, <1>5, <2>1, <2>2, <2>3, <2>4 DEF Edits!EditsNext, Edits!Choose, Saved
<1> QED BY <1>3, <1>4, <1>5, Kinds

\* Where writers meet, one of them is an item and at most one holds the run lock.
LEMMA StartIsCross ==
    ASSUME DraftInv, [Next]_vars, NEW w \in Writers, Starts(w), crossed' # crossed
    PROVE  Edits!EditsNext
<1>1. LockInv /\ LockInv' /\ TypeOK /\ FileInv
  BY LockStep DEF DraftInv, FileInv, LockInv
<1>2. crossed' = crossed \cup Others(w) \cup {w}
  BY <1>1, StartsWith DEF MayCross, LockInv
<1>3. Parsed' = Parsed /\ Saved' = Saved
  <2>1. Parsed' = Parsed
    BY <1>1, StartsWith DEF Parsed, Bytes, LockInv
  <2>2. ~ \E v \in Writers : Publishes(v)
    <3>1. \A v \in Writers : Publishes(v) => crossed' = crossed
      BY SavedGrows
    <3> QED BY <3>1
  <2> QED BY <2>1, <2>2, SavedGrows
<1>4. crossed' \cap Manuals # {}
  BY <1>1, <1>2 DEF LockInv, OnlyManualsCross
<1>5. ASSUME NEW u \in crossed' \ (crossed \cup Manuals), NEW v \in crossed' \ (crossed \cup Manuals)
      PROVE  u = v
  <2>1. \A x \in {u, v} : x \in Writers /\ x \in Work /\ InCriticalSection(x)'
    <3> SUFFICES ASSUME NEW x \in {u, v} PROVE x \in Writers /\ x \in Work /\ InCriticalSection(x)'
      OBVIOUS
    <3>1. x \in Others(w) \cup {w} /\ x \notin Manuals
      BY <1>2
    <3>2. x \in Writers /\ x \in Work
      BY <3>1 DEF Others, Writers
    <3> QED BY <1>1, <3>1, <3>2, StartsWith DEF Others, InCriticalSection, Critical, LockInv
  <2> QED BY <1>1, <2>1 DEF LockInv, OnlyManualsCross
<1> QED BY <1>2, <1>3, <1>4, <1>5 DEF Edits!EditsNext, Edits!Cross, Saved

LEMMA OnlyStartsCross ==
    ASSUME TypeOK, [Next]_vars, ~ \E w \in Writers : Starts(w) PROVE crossed' = crossed
<1>1. \A w \in Writers : Step(w) \/ WriteError(w) => crossed' = crossed
  BY Moves
<1> QED BY <1>1 DEF Next, Crash, vars, history

LEMMA EditsStep == DraftInv /\ [Next]_vars => [Edits!EditsNext]_(Edits!editVars)
<1> SUFFICES ASSUME DraftInv, [Next]_vars
             PROVE  \/ Edits!EditsNext
                    \/ Parsed' = Parsed /\ Saved' = Saved /\ crossed' = crossed
  BY DEF Edits!editVars, Saved
<1>1. TypeOK /\ FileInv /\ crossed \subseteq Writers
  BY DEF DraftInv, FileInv, LockInv, TypeOK
<1>2. ASSUME NEW w \in Writers, Publishes(w) PROVE Edits!EditsNext
  <2>1. CASE w \notin crossed
    BY <1>2, <2>1, RenameIsEdit
  <2>2. CASE w \in crossed
    BY <1>2, <2>2, SavedGrows DEF Edits!EditsNext, Edits!Garble, Saved
  <2> QED BY <2>1, <2>2
<1>3. ASSUME ~ \E w \in Writers : Publishes(w), NEW v \in crossed, Fill(v)
      PROVE  Edits!EditsNext
  <2>1. Saved' = Saved /\ crossed' = crossed
    BY <1>1, <1>3, SavedGrows, Fills
  <2> QED BY <2>1 DEF Edits!EditsNext, Edits!Garble, Saved
<1>4. ASSUME ~ \E w \in Writers : Publishes(w), Parsed' = Parsed
      PROVE  \/ Edits!EditsNext
             \/ Parsed' = Parsed /\ Saved' = Saved /\ crossed' = crossed
  <2>1. Saved' = Saved
    BY <1>4, SavedGrows
  <2> QED BY <1>1, <1>4, <2>1, OnlyStartsCross, StartIsCross
<1> QED BY <1>1, <1>2, <1>3, <1>4, FileMoves

\* fileops.rs:14 and the locks around it make every write that is not crossed one edit:
\* whatever is interleaved, fails or dies, the file goes from the text before the edit to
\* the text after it, on what is there at that instant, and what is reported as written is
\* exactly what was; only writers that an add_manual has crossed leave anything else.
THEOREM WritesAreEdits == Spec => EditsAreAtomic
<1>1. Init => Edits!EditsInit
  <2> SUFFICES ASSUME Init PROVE Edits!EditsInit
    OBVIOUS
  <2>1. Saved = {} /\ crossed = {}
    BY DEF Init, Saved, Writers, Work
  <2>2. \E p \in BOOLEAN : Parsed = [auto |-> {}, peer |-> p, manual |-> {}]
    <3>1. CASE file = None
      BY <3>1 DEF Parsed, Bytes, TextOf, NoText
    <3>2. CASE file # None
      <4>1. inode[file] = [NoText EXCEPT !.peer = TRUE] /\ [NoText EXCEPT !.peer = TRUE] \in Texts
        BY <3>2 DEF Init, NoText, Texts
      <4> QED BY <3>2, <4>1, StandupFileAssumption DEF Parsed, Bytes, TextOf, NoText
    <3> QED BY <3>1, <3>2
  <2> QED BY <2>1, <2>2 DEF Edits!EditsInit, Saved
<1> QED BY <1>1, DraftInit, DraftStep, EditsStep, PTL DEF Spec, EditsAreAtomic, Edits!EditsSpec

-----------------------------------------------------------------------------
(* What was acknowledged stays                                             *)

\* Everything uncrossed writers were told is written and no user has taken off, and the
\* texts that have it all.
Settled(w) == w \notin crossed /\ pc[w] \in {"syncing", "done"}
Owed == {x \in Writers \ dropped : \E w \in Writers : Settled(w) /\ x \in Acknowledged(w)}
Holds(t) == Owed \cap Work \subseteq t.auto /\ Owed \cap Manuals \subseteq t.manual

\* A compile that has rendered, and a resolution that is applied, know of the work it is
\* to keep; so does every draft, but for what a user is about to take off.
ReadHolds(w) ==
    /\ pc[w] = "rendering" => Owed \cap Work \subseteq prev[w]
    /\ pc[w] = "applying" => Owed \cap Work \subseteq Shown(w)
DraftHolds(w) ==
    InCriticalSection(w) =>
        /\ Owed \cap Manuals \subseteq draft[w].manual
        /\ Owed \cap Work \subseteq draft[w].auto \cup (IF w \in Resolutions THEN Shown(w) ELSE {})

\* So does whatever a compile or an item may find in the shared temporary file, or in what
\* it has opened as such.
TmpHolds(w) ==
    /\ w \notin Resolutions /\ pc[w] \in {"filling", "renaming"} /\ tmp # None /\ inode[tmp] # Blank
           => Holds(inode[tmp])
    /\ pc[w] = "filling" /\ inode[fd[w]] # Blank => Holds(inode[fd[w]])

Calm == ~misread /\ crossed \cap Resolutions = {}

AllHold ==
    /\ ~Torn => Holds(Parsed)
    /\ \A w \in Writers : ReadHolds(w) /\ DraftHolds(w) /\ TmpHolds(w)

KeptInv == DraftInv /\ (Calm => AllHold)

LEMMA AcknowledgedTyped ==
    ASSUME TypeOK, NEW w \in Writers PROVE Acknowledged(w) \subseteq Writers
<1>1. draft[w].auto \subseteq Writers
  BY TextFields DEF TypeOK, Writers
<1> QED BY <1>1 DEF Acknowledged

\* But for a rename nothing more is owed.
LEMMA OwedShrinks ==
    ASSUME DraftInv, [Next]_vars, ~ \E w \in Writers : Publishes(w)
    PROVE  Owed' \subseteq Owed
<1>1. TypeOK /\ crossed \subseteq crossed'
  BY Alone DEF DraftInv, FileInv, LockInv
<1>2. dropped' = dropped
  BY <1>1, Creates, Fills, ElsewhereSteps DEF DraftInv, Elsewhere
<1>3. ASSUME NEW w \in Writers, Settled(w)'
      PROVE  Settled(w) /\ Acknowledged(w)' = Acknowledged(w)
  <2>1. pc[w] \in {"syncing", "done"} /\ Kept(w)
    BY <1>1, <1>3, WritersCarry DEF Settled, Carries
  <2> QED BY <1>1, <1>3, <2>1 DEF Settled, Kept, Acknowledged
<1> QED BY <1>2, <1>3 DEF Owed

\* What a compile or an item writes has what is owed, whatever it writes over.
LEMMA FilledHolds ==
    ASSUME DraftInv, Calm, AllHold, NEW w \in Writers \ Resolutions, Fill(w)
    PROVE  Holds(inode'[fd[w]])
<1>1. /\ inode'[fd[w]] \in Overlay(draft[w], inode[fd[w]]) /\ draft[w] \in Texts
      /\ InCriticalSection(w) /\ pc[w] = "filling"
  BY Fills DEF DraftInv, InCriticalSection, Critical
<1>2. Holds(draft[w])
  BY <1>1 DEF AllHold, DraftHolds, Holds
<1>3. inode[fd[w]] # Blank => Holds(inode[fd[w]]) /\ inode[fd[w]] \in Texts
  <2>1. fd[w] \in Inodes /\ TypeOK
    BY Fills DEF DraftInv, FileInv, LockInv
  <2> QED BY <1>1, <2>1 DEF AllHold, TmpHolds, TypeOK
<1>4. ASSUME inode[fd[w]] # Blank PROVE Holds([draft[w] EXCEPT !.manual = inode[fd[w]].manual])
  BY <1>1, <1>2, <1>3, <1>4, TextFields DEF Holds
<1> QED BY <1>1, <1>2, <1>4 DEF Overlay

LEMMA KeptStep == KeptInv /\ [Next]_vars => KeptInv'
<1> SUFFICES ASSUME KeptInv, [Next]_vars, Calm' PROVE AllHold'
  BY DraftStep DEF KeptInv
<1>1. /\ DraftInv /\ DraftInv' /\ FileInv /\ LockInv /\ TypeOK /\ TypeOK' /\ OnlyWorkRenders
      /\ crossed \subseteq crossed' /\ crossed \subseteq Writers
  BY DraftStep, Alone DEF KeptInv, DraftInv, FileInv, LockInv, TypeOK
<1>2. Calm /\ AllHold
  BY <1>1, Alone DEF KeptInv, Calm
<1>3. \A w \in Writers : Carries(w)
  BY <1>1, WritersCarry
<1>4. ASSUME NEW w \in Writers, Publishes(w) PROVE AllHold'
  <2>1. /\ pc[w] = "renaming" /\ InCriticalSection(w) /\ tmp' = None /\ tmp # None
        /\ UNCHANGED <<inode, prev, base, draft, fd, crossed, misread>>
        /\ pc' = [pc EXCEPT ![w] = IF w \in Resolutions THEN "syncing" ELSE "done"]
        /\ dropped' = IF w \in Resolutions THEN (dropped \cup Shown(w)) \ draft[w].auto
                                           ELSE dropped
        /\ ~Torn' => Parsed' = inode[tmp] /\ inode[tmp] # Blank
    BY <1>1, <1>4, Renames DEF InCriticalSection, Critical, Publishes
  <2>2. \A v \in Writers \ {w} : pc'[v] = pc[v]
    BY <1>1, <2>1 DEF TypeOK
  <2>3. pc'[w] \notin Critical \cup {"rendering", "applying"}
    BY <1>1, <2>1 DEF TypeOK, Critical
  <2>4. \A v \in Writers : Acknowledged(v)' = Acknowledged(v)
    BY <2>1 DEF Acknowledged
  <2>5. CASE w \in crossed
    <3>1. w \notin Resolutions
      BY <1>2, <2>5 DEF Calm
    <3>2. \A v \in Writers : Settled(v)' => Settled(v)
      BY <2>1, <2>2, <2>5 DEF Settled
    <3>3. Owed' \subseteq Owed
      BY <2>1, <2>4, <3>1, <3>2 DEF Owed
    <3>4. ~Torn' => Holds(Parsed)'
      BY <1>2, <1>4, <2>1, <3>1, <3>3 DEF AllHold, TmpHolds, Holds
    <3>5. ASSUME NEW v \in Writers PROVE ReadHolds(v)' /\ DraftHolds(v)' /\ TmpHolds(v)'
      <4>1. CASE v = w
        BY <2>1, <2>3, <4>1 DEF ReadHolds, DraftHolds, TmpHolds, InCriticalSection, Critical
      <4>2. CASE v # w
        <5>1. pc'[v] = pc[v]
          BY <2>2, <4>2
        <5>2. ReadHolds(v)'
          BY <1>2, <2>1, <3>3, <5>1 DEF AllHold, ReadHolds, Shown
        <5>3. DraftHolds(v)'
          BY <1>2, <2>1, <3>3, <5>1 DEF AllHold, DraftHolds, Shown, InCriticalSection
        <5>4. TmpHolds(v)'
          BY <1>2, <2>1, <3>3, <5>1 DEF AllHold, TmpHolds, Holds
        <5> QED BY <5>2, <5>3, <5>4
      <4> QED BY <4>1, <4>2
    <3> QED BY <3>4, <3>5 DEF AllHold
  <2>6. CASE w \notin crossed
    <3>1. ~Torn' /\ Parsed' = draft[w] /\ draft[w] \in Texts
      BY <1>1, <1>4, <2>6, Renames DEF TypeOK
    <3>2. Acknowledged(w) \subseteq draft[w].auto \cup draft[w].manual
      BY <1>1, <2>1, <2>6, Kinds DEF Acknowledged, DraftInv, DraftExtends, BodyIsPicked
    <3>3. \A v \in Writers \ {w} : Settled(v)' => Settled(v)
      BY <2>1, <2>2 DEF Settled
    <3>4. Owed' \subseteq ((Owed \cup Acknowledged(w) \cup draft[w].auto) \ dropped')
      <4> SUFFICES ASSUME NEW x \in Owed'
                   PROVE  x \in Owed \cup Acknowledged(w) \cup draft[w].auto
        BY DEF Owed
      <4>1. PICK v \in Writers : Settled(v)' /\ x \in Acknowledged(v) /\ x \notin dropped'
        BY <2>4 DEF Owed
      <4>2. v # w => Settled(v)
        BY <3>3, <4>1
      <4>3. x \in dropped => x \in draft[w].auto
        BY <2>1, <4>1
      <4> QED BY <4>1, <4>2, <4>3 DEF Owed
    <3>5. Holds(Parsed)'
      <4>1. Owed' \cap Work \subseteq draft[w].auto
        <5>1. draft[w].manual \cap Work = {}
          BY <3>1, TextFields, StandupFileAssumption
        <5>2. Owed \cap Work \subseteq draft[w].auto \cup dropped'
          BY <1>2, <2>1 DEF AllHold, DraftHolds
        <5> QED BY <3>2, <3>4, <5>1, <5>2
      <4>2. Owed' \cap Manuals \subseteq draft[w].manual
        <5>1. draft[w].auto \cap Manuals = {}
          BY <3>1, TextFields, StandupFileAssumption
        <5>2. Owed \cap Manuals \subseteq draft[w].manual
          BY <1>2, <2>1 DEF AllHold, DraftHolds
        <5> QED BY <3>2, <3>4, <5>1, <5>2
      <4> QED BY <3>1, <4>1, <4>2 DEF Holds
    <3>6. ASSUME NEW v \in Writers PROVE ReadHolds(v)' /\ DraftHolds(v)' /\ TmpHolds(v)'
      <4>1. pc'[v] \notin Critical
        BY <1>1, <2>1, <2>2, <2>3, <2>6, Alone DEF InCriticalSection
      <4>2. ReadHolds(v)'
        <5>1. SUFFICES ASSUME pc[v] \in {"rendering", "applying"}, v # w PROVE ReadHolds(v)'
          BY <2>2, <2>3 DEF ReadHolds
        <5>2. v \in Work /\ AtWork(v) /\ AtWork(w)
          BY <1>1, <2>1, <5>1, Kinds DEF OnlyWorkRenders, AtWork, Resting
        <5>3. w \in Manuals
          BY <1>1, <5>1, <5>2 DEF LockInv, OneWorker, Writers
        <5>4. Owed' \cap Work \subseteq Owed \cap Work
          <6>1. Acknowledged(w) \cap Work = {} /\ w \notin Resolutions
            BY <5>3, Kinds DEF Acknowledged
          <6>2. Owed' \subseteq Owed \cup Acknowledged(w)
            BY <2>1, <2>4, <3>3, <6>1 DEF Owed
          <6> QED BY <6>1, <6>2
        <5> QED BY <1>2, <2>1, <2>2, <5>1, <5>4 DEF AllHold, ReadHolds, Shown
      <4> QED BY <4>1, <4>2 DEF DraftHolds, TmpHolds, InCriticalSection, Critical
    <3> QED BY <3>5, <3>6 DEF AllHold
  <2> QED BY <2>5, <2>6
<1>5. ASSUME ~ \E w \in Writers : Publishes(w) PROVE AllHold'
  <2>1. Owed' \subseteq Owed
    BY <1>1, <1>5, OwedShrinks
  <2>2. MayMisread => ~Torn /\ Holds(Parsed)
    BY <1>2 DEF MayMisread, Calm, AllHold
  <2>3. ASSUME NEW w \in Writers PROVE ReadHolds(w)' /\ DraftHolds(w)'
    <3>1. ASSUME pc'[w] = "rendering" PROVE Owed' \cap Work \subseteq prev'[w]
      <4>1. CASE ReadAutoBody(w)
        BY <1>1, <2>1, <2>2, <4>1 DEF ReadAutoBody, TypeOK, Holds
      <4>2. CASE pc[w] = "rendering" /\ Kept(w)
        BY <1>1, <1>2, <2>1, <4>2 DEF AllHold, ReadHolds, Kept, OnlyWorkRenders
      <4> QED BY <1>3, <3>1, <4>1, <4>2 DEF Carries
    <3>2. ASSUME pc'[w] = "applying" PROVE Owed' \cap Work \subseteq Shown(w)'
      <4>1. CASE Resolve(w)
        BY <1>1, <2>1, <2>2, <4>1 DEF Resolve, TypeOK, Holds, Shown, Parsed
      <4>2. CASE pc[w] = "applying" /\ Kept(w)
        BY <1>1, <1>2, <2>1, <4>2 DEF AllHold, ReadHolds, Kept, OnlyWorkRenders, Shown
      <4> QED BY <1>3, <3>2, <4>1, <4>2 DEF Carries
    <3>3. ASSUME InCriticalSection(w)' PROVE DraftHolds(w)'
      <4>1. CASE Starts(w)
        <5>1. Holds(Parsed) /\ ReadHolds(w)
          BY <1>1, <1>2, <2>2, <4>1, StartsWith DEF AllHold
        <5>2. base' = base /\ prev' = prev
          BY <1>1, <4>1, StartsWith
        <5>3. Owed \cap Manuals \subseteq draft'[w].manual
          BY <1>1, <4>1, <5>1, StartsWith DEF Holds, Writers
        <5>4. CASE w \in Manuals
          BY <1>1, <2>1, <4>1, <5>1, <5>3, <5>4, StartsWith DEF DraftHolds, Holds
        <5>5. CASE w \in Compiles
          BY <1>1, <2>1, <4>1, <5>1, <5>3, <5>5, StartsWith, Kinds
             DEF DraftHolds, ReadHolds, Body
        <5>6. CASE w \in Resolutions
          BY <1>1, <2>1, <4>1, <5>1, <5>2, <5>3, <5>6, StartsWith, Kinds
             DEF DraftHolds, ReadHolds, Shown
        <5> QED BY <5>4, <5>5, <5>6, Kinds
      <4>2. CASE InCriticalSection(w) /\ Kept(w)
        BY <1>2, <2>1, <4>2 DEF AllHold, DraftHolds, Kept, Shown
      <4> QED BY <1>3, <3>3, <4>1, <4>2 DEF Carries
    <3> QED BY <3>1, <3>2, <3>3 DEF ReadHolds, DraftHolds
  <2>4. ~Torn' => Holds(Parsed)'
    <3>1. ASSUME NEW w \in crossed, Fill(w), fd[w] = file PROVE Holds(Parsed)'
      <4>1. w \in Writers \ Resolutions
        BY <1>1, <1>2 DEF Calm
      <4>2. Parsed' = inode'[fd[w]]
        BY <1>1, <3>1, <4>1, Fills, StandupFileAssumption DEF Parsed, Bytes, TextOf
      <4> QED BY <1>1, <1>2, <2>1, <3>1, <4>1, <4>2, FilledHolds DEF Holds
    <3>2. CASE Parsed' = Parsed /\ Torn' = Torn
      BY <1>2, <2>1, <3>2 DEF AllHold, Holds
    <3> QED BY <1>1, <1>5, <3>1, <3>2, FileMoves
  <2>5. ASSUME NEW v \in Writers PROVE TmpHolds(v)'
    <3>1. CASE Elsewhere
      BY <1>1, <1>2, <2>1, <3>1 DEF Elsewhere, AllHold, TmpHolds, Holds
    <3>2. ASSUME NEW w \in Writers, Create(w) PROVE TmpHolds(v)'
      <4>1. inode'[tmp'] = Blank
        BY <1>1, <3>2, Creates
      <4>2. ASSUME pc'[v] = "filling", inode'[fd'[v]] # Blank PROVE Holds(inode[fd[v]])'
        <5>1. v # w /\ fd'[v] = fd[v] /\ pc[v] = "filling" /\ fd[v] \in Inodes \ {tmp'}
          BY <1>1, <3>2, <4>1, <4>2, Creates DEF TypeOK
        <5>2. inode'[fd[v]] = inode[fd[v]]
          BY <1>1, <3>2, <5>1, Creates
        <5> QED BY <1>2, <2>1, <4>2, <5>1, <5>2 DEF AllHold, TmpHolds, Holds
      <4> QED BY <4>1, <4>2 DEF TmpHolds
    <3>3. ASSUME NEW w \in Writers, Fill(w) PROVE TmpHolds(v)'
      <4>1. /\ pc[w] = "filling" /\ InCriticalSection(w) /\ tmp' = tmp /\ fd[w] \in Inodes
            /\ pc' = [pc EXCEPT ![w] = "renaming"] /\ fd' = [fd EXCEPT ![w] = None]
            /\ \A i \in Inodes \ {fd[w]} : inode'[i] = inode[i]
        BY <1>1, <3>3, Fills DEF InCriticalSection, Critical
      <4>2. w \notin Resolutions => Holds(inode'[fd[w]])
        BY <1>1, <1>2, <3>3, FilledHolds
      <4>3. ASSUME v # w, pc[v] \in {"filling", "renaming"} PROVE w \notin Resolutions
        BY <1>1, <1>2, <4>1, <4>3, Alone DEF Calm, InCriticalSection, Critical
      <4>4. ASSUME v \notin Resolutions, pc'[v] \in {"filling", "renaming"}, tmp' # None,
                   inode'[tmp'] # Blank
            PROVE  Holds(inode[tmp])'
        <5>1. pc[v] \in {"filling", "renaming"} /\ w \notin Resolutions
          BY <1>1, <4>1, <4>3, <4>4 DEF TypeOK
        <5>2. CASE fd[w] = tmp
          BY <2>1, <4>1, <4>2, <5>1, <5>2 DEF Holds
        <5>3. CASE fd[w] # tmp
          <6>1. inode'[tmp] = inode[tmp]
            BY <1>1, <4>1, <4>4, <5>3 DEF TypeOK
          <6> QED BY <1>2, <2>1, <4>1, <4>4, <5>1, <6>1 DEF AllHold, TmpHolds, Holds
        <5> QED BY <5>2, <5>3
      <4>5. ASSUME pc'[v] = "filling", inode'[fd'[v]] # Blank PROVE Holds(inode[fd[v]])'
        <5>1. v # w /\ fd'[v] = fd[v] /\ pc[v] = "filling" /\ fd[v] \in Inodes
          BY <1>1, <4>1, <4>5 DEF TypeOK
        <5>2. CASE fd[v] = fd[w]
          BY <2>1, <4>2, <4>3, <5>1, <5>2 DEF Holds
        <5>3. CASE fd[v] # fd[w]
          BY <1>2, <2>1, <4>1, <4>5, <5>1, <5>3 DEF AllHold, TmpHolds, Holds
        <5> QED BY <5>2, <5>3
      <4> QED BY <4>4, <4>5 DEF TmpHolds
    <3> QED BY <1>1, <1>5, <3>1, <3>2, <3>3, ElsewhereSteps
  <2> QED BY <2>3, <2>4, <2>5 DEF AllHold
<1> QED BY <1>4, <1>5

LEMMA KeptInit == Init => KeptInv
<1> SUFFICES ASSUME Init PROVE KeptInv
  OBVIOUS
<1>1. \A w \in Writers : pc[w] = "idle"
  BY DEF Init
<1>2. Owed = {}
  BY <1>1 DEF Owed, Settled
<1> QED BY <1>1, <1>2, DraftInit
        DEF KeptInv, AllHold, Holds, ReadHolds, DraftHolds, TmpHolds, InCriticalSection, Critical

\* fileops.rs:44-112 and regeneration.rs:243: what an uncrossed compile, item or resolution
\* was told is written stays in the file, through every later write, crash and crossing of
\* compiles and items, until a user who was shown it takes it off; as long as nobody starts
\* from a torn file and no regeneration is crossed.
THEOREM AcknowledgedIsKept == Spec => []NoUpdateLost
<1>1. KeptInv => NoUpdateLost
  <2> SUFFICES ASSUME KeptInv, Calm, ~Torn, NEW w \in Writers \ crossed, pc[w] = "done"
               PROVE  Acknowledged(w) \subseteq Parsed.auto \cup Parsed.manual \cup dropped
    BY DEF NoUpdateLost, Calm
  <2>1. Acknowledged(w) \subseteq Owed \cup dropped
    BY AcknowledgedTyped DEF Owed, Settled, KeptInv, DraftInv, FileInv, LockInv
  <2>2. Owed \subseteq Work \cup Manuals
    BY DEF Owed, Writers
  <2>3. Holds(Parsed)
    BY DEF KeptInv, AllHold
  <2> QED BY <2>1, <2>2, <2>3 DEF Holds
<1> QED BY <1>1, KeptInit, KeptStep, PTL DEF Spec

-----------------------------------------------------------------------------
(* The other host's block stays                                            *)

TmpHasPeer(w) ==
    /\ pc[w] \in {"filling", "renaming"} /\ tmp # None /\ inode[tmp] # Blank => inode[tmp].peer
    /\ pc[w] = "filling" /\ inode[fd[w]] # Blank => inode[fd[w]].peer

AllHavePeer ==
    /\ ~Torn => Parsed.peer
    /\ \A w \in Writers : (InCriticalSection(w) => draft[w].peer) /\ TmpHasPeer(w)

PeerInv == FileInv /\ (~misread => AllHavePeer)

LEMMA PeerStep == PeerInv /\ [Next]_vars => PeerInv'
<1> SUFFICES ASSUME PeerInv, [Next]_vars, ~misread' PROVE AllHavePeer'
  BY FileStep DEF PeerInv
<1>1. /\ FileInv /\ TypeOK /\ TypeOK' /\ OnlyWorkRenders /\ AllHavePeer
      /\ crossed \subseteq Writers
  BY FileStep, Alone DEF PeerInv, FileInv, LockInv, TypeOK
<1>2. ASSUME NEW v \in Writers, InCriticalSection(v)' PROVE draft'[v].peer
  <2>1. CASE Starts(v)
    <3>1. ~Torn
      BY <1>1, <2>1, StartsWith DEF MayMisread
    <3> QED BY <1>1, <2>1, <3>1, StartsWith DEF AllHavePeer
  <2>2. CASE InCriticalSection(v) /\ Kept(v)
    BY <1>1, <2>2 DEF AllHavePeer, Kept
  <2> QED BY <1>1, <1>2, <2>1, <2>2, WritersCarry DEF Carries
<1>3. ASSUME NEW w \in Writers, Create(w)
      PROVE  (~Torn' => Parsed'.peer) /\ \A v \in Writers : TmpHasPeer(v)'
  <2>1. ~Torn' => Parsed'.peer
    BY <1>1, <1>3, Creates DEF AllHavePeer
  <2>2. ASSUME NEW v \in Writers, pc'[v] = "filling", inode'[fd'[v]] # Blank
        PROVE  inode'[fd'[v]].peer
    <3>1. v # w /\ fd'[v] = fd[v] /\ pc[v] = "filling" /\ fd[v] \in Inodes \ {tmp'}
      BY <1>1, <1>3, <2>2, Creates DEF TypeOK
    <3>2. inode'[fd[v]] = inode[fd[v]]
      BY <1>1, <1>3, <3>1, Creates
    <3> QED BY <1>1, <2>2, <3>1, <3>2 DEF AllHavePeer, TmpHasPeer
  <2> QED BY <1>1, <1>3, <2>1, <2>2, Creates DEF TmpHasPeer
<1>4. ASSUME NEW w \in Writers, Fill(w)
      PROVE  (~Torn' => Parsed'.peer) /\ \A v \in Writers : TmpHasPeer(v)'
  <2>1. /\ pc[w] = "filling" /\ draft[w].peer /\ tmp' = tmp /\ file' = file /\ fd[w] \in Inodes
        /\ pc' = [pc EXCEPT ![w] = "renaming"] /\ fd' = [fd EXCEPT ![w] = None]
        /\ \A i \in Inodes \ {fd[w]} : inode'[i] = inode[i]
    BY <1>1, <1>4, Fills DEF AllHavePeer, InCriticalSection, Critical
  <2>2. inode'[fd[w]] # Blank /\ inode'[fd[w]].peer
    <3>1. /\ inode'[fd[w]] \in Overlay(draft[w], inode[fd[w]]) /\ inode'[fd[w]] # Blank
          /\ inode[fd[w]] \in {Blank} \cup Texts /\ draft[w] \in Texts
      BY <1>1, <1>4, Fills DEF TypeOK
    <3>2. inode[fd[w]] # Blank
            => [draft[w] EXCEPT !.manual = inode[fd[w]].manual].peer = draft[w].peer
      BY <3>1, TextFields
    <3> QED BY <2>1, <3>1, <3>2 DEF Overlay
  <2>3. ~Torn' => Parsed'.peer
    <3>1. CASE fd[w] = file
      BY <2>1, <2>2, <3>1, StandupFileAssumption DEF Parsed, Bytes, TextOf
    <3>2. CASE fd[w] # file
      BY <1>1, <1>4, <3>2, Fills DEF AllHavePeer
    <3> QED BY <3>1, <3>2
  <2>4. ASSUME NEW v \in Writers, pc'[v] \in {"filling", "renaming"}, tmp' # None,
               inode'[tmp'] # Blank
        PROVE  inode'[tmp'].peer
    <3>1. CASE fd[w] = tmp
      BY <2>1, <2>2, <3>1
    <3>2. CASE fd[w] # tmp
      <4>1. inode'[tmp] = inode[tmp] /\ pc[v] \in {"filling", "renaming"}
        BY <1>1, <2>1, <2>4, <3>2 DEF TypeOK
      <4> QED BY <1>1, <2>1, <2>4, <4>1 DEF AllHavePeer, TmpHasPeer
    <3> QED BY <3>1, <3>2
  <2>5. ASSUME NEW v \in Writers, pc'[v] = "filling", inode'[fd'[v]] # Blank
        PROVE  inode'[fd'[v]].peer
    <3>1. v # w /\ fd'[v] = fd[v] /\ pc[v] = "filling" /\ fd[v] \in Inodes
      BY <1>1, <2>1, <2>5 DEF TypeOK
    <3> QED BY <1>1, <2>1, <2>2, <2>5, <3>1 DEF AllHavePeer, TmpHasPeer
  <2> QED BY <2>3, <2>4, <2>5 DEF TmpHasPeer
<1>5. ASSUME NEW w \in Writers, Publishes(w)
      PROVE  (~Torn' => Parsed'.peer) /\ \A v \in Writers : TmpHasPeer(v)'
  <2>1. /\ tmp # None /\ tmp' = None /\ pc[w] = "renaming" /\ UNCHANGED <<inode, fd>>
        /\ \A v \in Writers : pc'[v] = "filling" => pc[v] = "filling"
    BY <1>1, <1>5, Renames DEF Publishes, TypeOK
  <2>2. ~Torn' => Parsed'.peer
    BY <1>1, <1>5, <2>1, Renames DEF AllHavePeer, TmpHasPeer
  <2> QED BY <1>1, <2>1, <2>2 DEF AllHavePeer, TmpHasPeer
<1>6. ASSUME Elsewhere
      PROVE  (~Torn' => Parsed'.peer) /\ \A v \in Writers : TmpHasPeer(v)'
  BY <1>1, <1>6, StaysElsewhere DEF AllHavePeer, TmpHasPeer, Elsewhere
<1> QED BY <1>1, <1>2, <1>3, <1>4, <1>5, <1>6, ElsewhereSteps DEF AllHavePeer

LEMMA PeerInit == Init /\ Parsed.peer => PeerInv
<1> SUFFICES ASSUME Init, Parsed.peer PROVE PeerInv
  OBVIOUS
<1>1. \A w \in Writers : pc[w] = "idle"
  BY DEF Init
<1> QED BY <1>1, FileInit
        DEF PeerInv, AllHavePeer, TmpHasPeer, InCriticalSection, Critical

\* fileops.rs:44-112: no step of this host, a fault or a crossing included, takes another
\* host's block out of the file, unless a writer has started from a torn one.
THEOREM PeerIsKept == Spec => PeerUntouched
<1>1. PeerInv => Torn \/ misread \/ Parsed.peer
  BY DEF PeerInv, AllHavePeer
<1> QED BY <1>1, PeerInit, PeerStep, PTL DEF Spec, PeerUntouched

\* What the run lock and write_atomic come to until an add_manual crosses a writer: the
\* file is never empty, and has all that was acknowledged.
NothingCrossedIsSafe ==
    crossed = {} =>
        /\ ~Torn /\ ~misread
        /\ \A w \in Writers : pc[w] = "done" =>
              Acknowledged(w) \subseteq Parsed.auto \cup Parsed.manual \cup dropped

\* fileops.rs:14 and app.rs's run lock together: whatever fails, dies or is left behind, only
\* an add_manual that crosses another writer can leave the file empty or lose what one of
\* them was told is written; without one no history of runs and crashes does.
THEOREM Safe == Spec => []NothingCrossedIsSafe
<1>1. TornInv /\ NoUpdateLost => NothingCrossedIsSafe
  <2> SUFFICES ASSUME TornInv, NoUpdateLost, crossed = {} PROVE NothingCrossedIsSafe
    BY DEF NothingCrossedIsSafe
  <2>1. ~Torn /\ ~misread
    BY DEF TornInv, NeverTorn
  <2> QED BY <2>1 DEF NoUpdateLost, NothingCrossedIsSafe
<1> QED BY <1>1, TornInit, TornStep, AcknowledgedIsKept, PTL DEF Spec

-----------------------------------------------------------------------------
(***************************************************************************)
(* The lines behind the regions                                            *)
(***************************************************************************)

Names == Hosts \cup {"default"}
Marked == Names \cup {Manual}
FileLines == {Open(r) : r \in Marked} \cup {Close(r) : r \in Marked} \cup BodyLines
             \cup {Line("title"), Line("subtitle")}

\* What the parser may have read.
BlockTypes == [host : Names, body : Seq(FileLines)]
Parsers == [region : Marked \cup {Outside}, body : Seq(FileLines),
            blocks : Seq(BlockTypes), manual : Seq(FileLines)]

LEMMA NamesApart ==
    /\ Manual \notin Names /\ Outside \notin Marked /\ MaxBody \in Nat /\ MaxChunks \in Nat
    /\ \A x \in Lines : Line(x) # Empty
BY LayoutAssumption DEF Names, Marked, Manual, Outside, Line, Empty

LEMMA BoundedLists ==
    ASSUME NEW S, NEW n \in Nat, NEW s \in BoundedSeq(S, n)
    PROVE  s \in Seq(S)
<1>1. PICK m \in 0 .. n : s \in [1 .. m -> S]
  BY DEF BoundedSeq, SeqOf
<1>2. m \in Nat
  OBVIOUS
<1> QED
  BY <1>1, <1>2, SeqDef

LEMMA LineKinds ==
    /\ \A line \in FileLines : line[1] = "open" => \E r \in Marked : line = Open(r) /\ line[2] = r
    /\ \A r \in Marked : /\ Open(r) \in FileLines /\ Close(r) \in FileLines
                         /\ Open(r)[1] = "open" /\ Open(r)[2] = r /\ Close(r)[1] # "open"
    /\ \A line \in BodyLines : /\ line \in FileLines /\ line[1] # "open"
                               /\ \A r : line # Close(r)
    /\ Empty \in BodyLines
<1>1. \A x : Line(x)[1] = "line"
  BY DEF Line
<1>2. \A r : Open(r)[1] = "open" /\ Open(r)[2] = r /\ Close(r)[1] = "close"
  BY DEF Open, Close
<1>3. \A line \in BodyLines : line[1] = "line"
  BY <1>1 DEF BodyLines, Empty
<1>4. \A line \in FileLines :
         \/ \E r \in Marked : line = Open(r) \/ line = Close(r)
         \/ line \in BodyLines \/ line = Line("title") \/ line = Line("subtitle")
  BY DEF FileLines
<1>5. \A line \in BodyLines : line \in FileLines
  BY DEF FileLines
<1>6. \A r \in Marked : Open(r) \in FileLines /\ Close(r) \in FileLines
  BY DEF FileLines
<1>7. Empty \in BodyLines
  BY DEF BodyLines
<1> QED
  BY <1>1, <1>2, <1>3, <1>4, <1>5, <1>6, <1>7

LEMMA BlockFields ==
    ASSUME NEW h \in Names, NEW b \in Seq(FileLines)
    PROVE  [host |-> h, body |-> b] \in BlockTypes
BY DEF BlockTypes

LEMMA CollapseTyped ==
    ASSUME NEW bs \in Seq(BlockTypes), NEW block \in BlockTypes
    PROVE  Collapse(bs, block) \in Seq(BlockTypes)
<1>1. CASE \E i \in DOMAIN bs : bs[i].host = block.host
  <2> DEFINE new == [i \in DOMAIN bs |-> IF bs[i].host = block.host /\ bs[i].body = <<>>
                                            THEN block ELSE bs[i]]
  <2>1. DOMAIN bs = 1 .. Len(bs) /\ Len(bs) \in Nat /\ \A i \in DOMAIN bs : bs[i] \in BlockTypes
    OBVIOUS
  <2>2. new \in [1 .. Len(bs) -> BlockTypes]
    BY <2>1
  <2>3. new \in Seq(BlockTypes)
    <3> HIDE DEF new
    <3> QED
      BY <2>1, <2>2, SeqDef
  <2> QED
    BY <1>1, <2>3 DEF Collapse
<1>2. CASE ~ \E i \in DOMAIN bs : bs[i].host = block.host
  BY <1>2 DEF Collapse
<1> QED
  BY <1>1, <1>2

LEMMA FinishTyped ==
    ASSUME NEW p \in Parsers
    PROVE  /\ Finish(p) \in Parsers /\ Finish(p).region = Outside
           /\ p.region = Outside => Finish(p) = p
           /\ p.region = Manual => Finish(p).blocks = p.blocks /\ Finish(p).manual = p.body
           /\ p.region \in Names =>
                 /\ Finish(p).blocks = Collapse(p.blocks, [host |-> p.region, body |-> p.body])
                 /\ Finish(p).manual = p.manual
<1>1. /\ p.region \in Marked \cup {Outside} /\ p.body \in Seq(FileLines)
      /\ p.blocks \in Seq(BlockTypes) /\ p.manual \in Seq(FileLines)
  BY DEF Parsers
<1>2. CASE p.region = Outside
  BY <1>2, NamesApart DEF Finish, Marked
<1>3. CASE p.region = Manual
  <2>1. Finish(p) = [p EXCEPT !.region = Outside, !.manual = p.body]
    BY <1>3, NamesApart DEF Finish, Marked
  <2> QED
    BY <1>1, <1>3, <2>1, NamesApart DEF Parsers, Marked
<1>4. CASE p.region \in Names
  <2> DEFINE new == Collapse(p.blocks, [host |-> p.region, body |-> p.body])
  <2>1. new \in Seq(BlockTypes)
    BY <1>1, <1>4, BlockFields, CollapseTyped
  <2>2. Finish(p) = [p EXCEPT !.region = Outside, !.blocks = new]
    BY <1>4, NamesApart DEF Finish, Marked
  <2> HIDE DEF new
  <2>3. Finish(p) \in Parsers /\ Finish(p).region = Outside
        /\ Finish(p).blocks = new /\ Finish(p).manual = p.manual
    BY <1>1, <2>1, <2>2 DEF Parsers
  <2> QED
    BY <1>4, <2>3, NamesApart DEF new, Marked
<1> QED
  BY <1>1, <1>2, <1>3, <1>4 DEF Marked

LEMMA ConsumeTyped ==
    ASSUME NEW p \in Parsers, NEW line \in FileLines
    PROVE  Consume(p, line) \in Parsers
<1>1. /\ p.region \in Marked \cup {Outside} /\ p.body \in Seq(FileLines)
      /\ p.blocks \in Seq(BlockTypes) /\ p.manual \in Seq(FileLines)
  BY DEF Parsers
<1>2. CASE p.region = Outside /\ line[1] = "open"
  <2>1. line[2] \in Marked
    BY <1>2, LineKinds
  <2>2. Consume(p, line) = [p EXCEPT !.region = line[2], !.body = <<>>]
    BY <1>2 DEF Consume
  <2>3. <<>> \in Seq(FileLines)
    OBVIOUS
  <2> QED
    BY <1>1, <2>1, <2>2, <2>3 DEF Parsers
<1>3. CASE p.region = Outside /\ line[1] # "open"
  BY <1>3 DEF Consume
<1>4. CASE p.region # Outside /\ line = Close(p.region)
  BY <1>4, FinishTyped DEF Consume
<1>5. CASE p.region # Outside /\ line # Close(p.region)
  <2>1. Consume(p, line) = [p EXCEPT !.body = Grow(p.body, line)]
    BY <1>5 DEF Consume
  <2>2. Grow(p.body, line) \in Seq(FileLines)
    BY <1>1 DEF Grow
  <2> QED
    BY <1>1, <2>1, <2>2 DEF Parsers
<1> QED
  BY <1>2, <1>3, <1>4, <1>5

\* The loop over the lines goes from one state of the parser to the next.
Goes(f, p, lines) ==
    /\ f[0] = p
    /\ \A n \in 1 .. Len(lines) : f[n] = Consume(f[n - 1], lines[n])

LEMMA RunGoes ==
    ASSUME NEW p \in Parsers, NEW lines \in Seq(FileLines)
    PROVE  /\ \E f \in [0 .. Len(lines) -> Parsers] : Goes(f, p, lines)
           /\ \A f : Goes(f, p, lines) => Run(p, lines) = f[Len(lines)]
<1> DEFINE N == Len(lines)
           Q == Parsers
           step == [n \in 1 .. N |-> [q \in Q |-> Consume(q, lines[n])]]
           Loop(f) == [n \in 0 .. N |-> IF n = 0 THEN p ELSE Consume(f[n - 1], lines[n])]
           upTo == CHOOSE f : f = Loop(f)
<1>1. N \in Nat /\ p \in Q /\ \A n \in 1 .. N : lines[n] \in FileLines
  OBVIOUS
<1>2. ASSUME NEW n \in 1 .. N, NEW q \in Q PROVE Consume(q, lines[n]) \in Q
  BY <1>1, ConsumeTyped
<1>3. Run(p, lines) = upTo[N]
  BY DEF Run
<1> HIDE DEF N, Q
<1>4. step \in [1 .. N -> [Q -> Q]]
  BY <1>2
<1>5. PICK f \in [0 .. N -> Q] : f = Values(N, p, step, f)
  <2> HIDE DEF step
  <2> QED BY <1>1, <1>4, Iterates
<1>6. ASSUME NEW n \in 1 .. N
      PROVE  n - 1 \in 0 .. N /\ f[n] = Consume(f[n - 1], lines[n])
  <2>1. n - 1 \in 0 .. N /\ n \in 0 .. N /\ n # 0
    BY <1>1
  <2>2. f[n - 1] \in Q
    BY <1>5, <2>1
  <2>3. f[n] = step[n][f[n - 1]]
    <3> HIDE DEF step
    <3> QED BY <1>5, <2>1 DEF Values
  <2> QED BY <2>1, <2>2, <2>3
<1>7. f[0] = p
  <2>1. 0 \in 0 .. N
    BY <1>1
  <2> QED BY <1>5, <2>1 DEF Values
<1>8. f = Loop(f)
  <2>1. ASSUME NEW n \in 0 .. N PROVE f[n] = Loop(f)[n]
    <3>1. n = 0 \/ n \in 1 .. N
      BY <1>1
    <3> QED BY <1>6, <1>7, <3>1
  <2> QED BY <1>5, <2>1
<1>9. upTo = Loop(upTo)
  <2> HIDE DEF Loop
  <2> QED BY <1>8
<1> HIDE DEF upTo
<1>10. ASSUME NEW g, g[0] = p, \A n \in 1 .. N : g[n] = Consume(g[n - 1], lines[n])
       PROVE  upTo[N] = g[N]
  <2> DEFINE P == {n \in 0 .. N : upTo[n] = g[n]}
  <2>1. 0 \in P
    <3>1. 0 \in 0 .. N
      BY <1>1
    <3> QED BY <1>9, <1>10, <3>1
  <2>2. ASSUME NEW n \in 0 .. N - 1, n \in P PROVE n + 1 \in P
    <3>1. n + 1 \in 1 .. N /\ n + 1 \in 0 .. N /\ n + 1 # 0 /\ (n + 1) - 1 = n
      BY <1>1
    <3>2. upTo[n + 1] = Consume(upTo[n], lines[n + 1])
      BY <1>9, <3>1
    <3>3. g[n + 1] = Consume(g[n], lines[n + 1])
      BY <1>10, <3>1
    <3> QED BY <2>2, <3>1, <3>2, <3>3
  <2>3. N \in P
    <3>1. N \in 0 .. N
      BY <1>1
    <3> HIDE DEF P
    <3> QED BY <1>1, <2>1, <2>2, <3>1, Upward
  <2> QED BY <2>3
<1> QED BY <1>3, <1>5, <1>6, <1>7, <1>10 DEF N, Q, Goes

\* Line after line, and part after part.
LEMMA RunOne ==
    ASSUME NEW p \in Parsers, NEW line \in FileLines
    PROVE  Run(p, <<line>>) = Consume(p, line) /\ Run(p, <<>>) = p
<1>1. <<line>> \in Seq(FileLines) /\ Len(<<line>>) = 1 /\ <<line>>[1] = line
  OBVIOUS
<1>2. PICK f : Goes(f, p, <<line>>)
  BY <1>1, RunGoes
<1>3. Run(p, <<line>>) = f[1]
  BY <1>1, <1>2, RunGoes
<1>4. f[1] = Consume(p, line)
  <2>1. 1 \in 1 .. 1 /\ 1 - 1 = 0
    OBVIOUS
  <2> QED BY <1>1, <1>2, <2>1 DEF Goes
<1>5. Run(p, <<>>) = p
  <2>1. <<>> \in Seq(FileLines) /\ Len(<<>>) = 0
    OBVIOUS
  <2>2. PICK g : Goes(g, p, <<>>)
    BY <2>1, RunGoes
  <2>3. Run(p, <<>>) = g[Len(<<>>)]
    BY <2>1, <2>2, RunGoes
  <2>4. g[0] = p
    BY <2>2 DEF Goes
  <2> QED BY <2>1, <2>3, <2>4
<1> QED BY <1>3, <1>4, <1>5

LEMMA RunParts ==
    ASSUME NEW p \in Parsers, NEW a \in Seq(FileLines), NEW b \in Seq(FileLines)
    PROVE  Run(p, a) \in Parsers /\ Run(p, a \o b) = Run(Run(p, a), b)
<1> DEFINE M == Len(a)
           N == Len(b)
<1>1. /\ a \o b \in Seq(FileLines) /\ Len(a \o b) = M + N /\ M \in Nat /\ N \in Nat
      /\ \A n \in 1 .. M : (a \o b)[n] = a[n]
      /\ \A n \in M + 1 .. M + N : (a \o b)[n] = b[n - M]
  OBVIOUS
<1>2. PICK f \in [0 .. M -> Parsers] : Goes(f, p, a)
  BY RunGoes
<1>3. Run(p, a) = f[M] /\ Run(p, a) \in Parsers
  <2>1. M \in 0 .. M
    BY <1>1
  <2> QED BY <1>2, <2>1, RunGoes
<1>4. PICK g \in [0 .. N -> Parsers] : Goes(g, Run(p, a), b)
  BY <1>3, RunGoes
<1> DEFINE h == [n \in 0 .. M + N |-> IF n <= M THEN f[n] ELSE g[n - M]]
<1>5. h[0] = p /\ h[M + N] = g[N]
  <2>1. 0 \in 0 .. M + N /\ M + N \in 0 .. M + N /\ (M + N) - M = N /\ 0 <= M
        /\ (M + N <= M => N = 0 /\ M + N = M)
    BY <1>1
  <2> HIDE DEF M, N
  <2> QED BY <1>2, <1>3, <1>4, <2>1 DEF Goes
<1>6. ASSUME NEW n \in 1 .. M + N PROVE h[n] = Consume(h[n - 1], (a \o b)[n])
  <2>1. n \in 0 .. M + N /\ n - 1 \in 0 .. M + N
    BY <1>1
  <2>2. CASE n <= M
    <3>1. n \in 1 .. M /\ n - 1 <= M
      BY <1>1, <2>2
    <3>2. h[n] = f[n] /\ h[n - 1] = f[n - 1]
      BY <2>1, <2>2, <3>1
    <3>3. f[n] = Consume(f[n - 1], a[n])
      BY <1>2, <3>1 DEF Goes
    <3> QED BY <1>1, <3>1, <3>2, <3>3
  <2>3. CASE n > M
    <3>1. n \in M + 1 .. M + N /\ n - M \in 1 .. N /\ ~ (n <= M) /\ (n - 1) - M = (n - M) - 1
          /\ (n - 1 <= M => n - 1 = M /\ (n - M) - 1 = 0)
      BY <1>1, <2>3
    <3>2. h[n] = g[n - M]
      BY <2>1, <3>1
    <3>3. h[n - 1] = g[(n - M) - 1]
      <4>1. CASE n - 1 <= M
        BY <1>3, <1>4, <2>1, <3>1, <4>1 DEF Goes
      <4>2. CASE ~ (n - 1 <= M)
        BY <2>1, <3>1, <4>2
      <4> QED BY <4>1, <4>2
    <3>4. g[n - M] = Consume(g[(n - M) - 1], b[n - M])
      BY <1>4, <3>1 DEF Goes
    <3> QED BY <1>1, <3>1, <3>2, <3>3, <3>4
  <2> QED BY <1>1, <2>2, <2>3
<1>7. Goes(h, p, a \o b)
  <2> HIDE DEF h, M, N
  <2> QED BY <1>1, <1>5, <1>6 DEF Goes
<1>8. Run(p, a \o b) = h[M + N]
  <2> HIDE DEF h, M, N
  <2> QED BY <1>1, <1>7, RunGoes
<1>9. Run(Run(p, a), b) = g[N]
  BY <1>3, <1>4, RunGoes
<1> QED BY <1>3, <1>5, <1>8, <1>9

(***************************************************************************)
(* Bodies                                                                  *)
(***************************************************************************)

LEMMA FirstIs ==
    ASSUME NEW places, places \subseteq Nat, places # {}
    PROVE  First(places) \in places /\ \A j \in places : First(places) <= j
<1>1. \E i \in places : \A j \in places : i <= j
  BY Least
<1> QED
  BY <1>1 DEF First

LEMMA FirstUnique ==
    ASSUME NEW places, places \subseteq Nat, NEW i \in places, \A j \in places : i <= j
    PROVE  First(places) = i
<1>1. First(places) \in places /\ \A j \in places : First(places) <= j
  BY FirstIs
<1>2. First(places) \in Nat /\ i \in Nat /\ First(places) <= i /\ i <= First(places)
  BY <1>1
<1> HIDE DEF First
<1> QED
  BY <1>2

\* A body starts with a line that shows something, or has none.
IsTrimmed(body) == body = <<>> \/ body[1] # Empty

LEMMA TrimmedStarts ==
    ASSUME NEW body \in Seq(BodyLines)
    PROVE  /\ Trimmed(body) \in Seq(BodyLines)
           /\ IsTrimmed(Trimmed(body))
           /\ Trimmed(body) = <<>> <=> Visible(body) = {}
           /\ IsTrimmed(body) => Trimmed(body) = body
<1>1. Len(body) \in Nat /\ DOMAIN body = 1 .. Len(body) /\ Visible(body) \subseteq 1 .. Len(body)
  BY DEF Visible
<1>2. CASE Visible(body) = {}
  <2>1. Trimmed(body) = <<>>
    BY <1>2 DEF Trimmed
  <2>2. IsTrimmed(body) => body = <<>>
    <3>1. body # <<>> => 1 \in DOMAIN body
      BY <1>1
    <3> QED
      BY <1>2, <3>1 DEF IsTrimmed, Visible
  <2> QED
    BY <1>2, <2>1, <2>2 DEF IsTrimmed
<1>3. CASE Visible(body) # {}
  <2> DEFINE m == First(Visible(body))
  <2>1. m \in Visible(body) /\ \A j \in Visible(body) : m <= j
    BY <1>1, <1>3, FirstIs
  <2>2. m \in 1 .. Len(body) /\ body[m] # Empty
    BY <1>1, <2>1 DEF Visible
  <2>3. Trimmed(body) = SubSeq(body, m, Len(body))
    BY <1>3 DEF Trimmed
  <2>4. IsTrimmed(body) => m = 1
    <3>1. body # <<>> /\ 1 \in DOMAIN body
      BY <1>1, <2>2
    <3>2. IsTrimmed(body) => 1 \in Visible(body)
      BY <3>1 DEF IsTrimmed, Visible
    <3> QED
      BY <1>1, <2>1, <2>2, <3>2
  <2> HIDE DEF m
  <2>5. /\ SubSeq(body, m, Len(body)) \in Seq(BodyLines)
        /\ SubSeq(body, m, Len(body)) # <<>> /\ SubSeq(body, m, Len(body))[1] = body[m]
    BY <1>1, <2>2
  <2>6. m = 1 => SubSeq(body, m, Len(body)) = body
    BY <1>1
  <2> QED
    BY <1>3, <2>2, <2>3, <2>4, <2>5, <2>6 DEF IsTrimmed
<1> QED
  BY <1>2, <1>3

LEMMA TrimmedGrows ==
    ASSUME NEW body \in Seq(BodyLines), NEW line \in BodyLines
    PROVE  Trimmed(Append(body, line)) = Grow(Trimmed(body), line)
<1> DEFINE N == Len(body)
           longer == Append(body, line)
<1>1. /\ N \in Nat /\ DOMAIN body = 1 .. N /\ longer \in Seq(BodyLines)
      /\ Len(longer) = N + 1 /\ DOMAIN longer = 1 .. N + 1 /\ longer[N + 1] = line
      /\ \A i \in 1 .. N : longer[i] = body[i]
  OBVIOUS
<1>2. Visible(body) \subseteq 1 .. N
  BY <1>1 DEF Visible
<1>3. Visible(longer) = Visible(body) \cup (IF line = Empty THEN {} ELSE {N + 1})
  <2>1. \A i \in 1 .. N + 1 : i \in 1 .. N \/ i = N + 1
    BY <1>1
  <2>2. N + 1 \notin 1 .. N /\ \A i \in 1 .. N : i \in 1 .. N + 1
    BY <1>1
  <2> HIDE DEF longer, N
  <2> QED
    BY <1>1, <2>1, <2>2 DEF Visible
<1> HIDE DEF N
<1>4. CASE Visible(body) = {}
  <2>1. Trimmed(body) = <<>>
    BY <1>4 DEF Trimmed
  <2>2. CASE line = Empty
    <3>1. Visible(longer) = {}
      BY <1>3, <1>4, <2>2
    <3> QED
      BY <2>1, <2>2, <3>1 DEF Trimmed, Grow
  <2>3. CASE line # Empty
    <3> HIDE DEF longer
    <3>1. Visible(longer) = {N + 1}
      BY <1>3, <1>4, <2>3
    <3>2. First({N + 1}) = N + 1
      <4> DEFINE k == N + 1
                 only == {k}
      <4>1. only \subseteq Nat /\ k \in only /\ \A j \in only : k <= j
        BY <1>1
      <4> HIDE DEF k, only
      <4>2. First(only) = k
        BY <4>1, FirstUnique
      <4> QED
        BY <4>2 DEF k, only
    <3>3. Trimmed(longer) = SubSeq(longer, N + 1, N + 1)
      BY <1>1, <3>1, <3>2 DEF Trimmed
    <3>4. SubSeq(longer, N + 1, N + 1) = <<line>>
      <4> DEFINE k == N + 1
                 t == SubSeq(longer, k, k)
      <4>1. k \in Nat /\ k >= 1 /\ k = Len(longer) /\ longer[k] = line
        BY <1>1
      <4> HIDE DEF k
      <4>2. t \in Seq(BodyLines) /\ Len(t) = 1 /\ t[1] = line
        BY <1>1, <4>1
      <4> HIDE DEF t
      <4>3. t = <<line>>
        BY <4>2
      <4> QED
        BY <4>3 DEF k, t
    <3>5. Grow(Trimmed(body), line) = <<line>>
      BY <2>1, <2>3 DEF Grow
    <3> QED
      BY <3>3, <3>4, <3>5 DEF longer
  <2> QED
    BY <2>2, <2>3
<1>5. CASE Visible(body) # {}
  <2> DEFINE m == First(Visible(body))
  <2>1. m \in Visible(body) /\ \A j \in Visible(body) : m <= j
    BY <1>1, <1>2, <1>5, FirstIs
  <2>2. m \in 1 .. N /\ m <= N + 1
    BY <1>1, <1>2, <2>1
  <2>3. m \in Visible(longer) /\ \A j \in Visible(longer) : m <= j
    BY <1>3, <2>1, <2>2
  <2>4. Visible(longer) \subseteq Nat
    BY <1>1, <1>2, <1>3
  <2>5. First(Visible(longer)) = m
    <3> HIDE DEF m
    <3> QED
      BY <2>3, <2>4, FirstUnique
  <2>6. Visible(longer) # {}
    BY <2>3
  <2>7. Trimmed(longer) = SubSeq(longer, m, N + 1) /\ Trimmed(body) = SubSeq(body, m, N)
    BY <1>1, <1>5, <2>5, <2>6 DEF Trimmed, N
  <2> HIDE DEF m
  <2>8. SubSeq(longer, m, N + 1) = Append(SubSeq(body, m, N), line)
    BY <1>1, <2>2 DEF N
  <2>9. SubSeq(body, m, N) # <<>>
    <3>1. Len(SubSeq(body, m, N)) = N - m + 1 /\ N - m + 1 # 0
      BY <1>1, <2>2 DEF N
    <3> QED
      BY <3>1
  <2> QED
    BY <2>7, <2>8, <2>9 DEF Grow, longer
<1> QED
  BY <1>4, <1>5

\* The lines of a body, inside of a region.
LEMMA BodyIsRead ==
    ASSUME NEW p \in Parsers, p.region # Outside, p.body = <<>>, NEW body \in Seq(BodyLines)
    PROVE  /\ Run(p, body) = [p EXCEPT !.body = Trimmed(body)]
           /\ Run(p, body) \in Parsers
<1> DEFINE N == Len(body)
           Grown(n) == [p EXCEPT !.body = Trimmed(SubSeq(body, 1, n))]
<1>1. body \in Seq(FileLines)
  BY LineKinds, SeqDef
<1>2. PICK f \in [0 .. N -> Parsers] : Goes(f, p, body)
  BY <1>1, RunGoes
<1>3. N \in Nat /\ \A n \in 1 .. N : body[n] \in BodyLines
  OBVIOUS
<1> DEFINE P == {n \in 0 .. N : f[n] = Grown(n)}
<1>4. 0 \in P
  <2>1. SubSeq(body, 1, 0) = <<>> /\ <<>> \in Seq(BodyLines)
    OBVIOUS
  <2>2. Trimmed(<<>>) = <<>>
    BY <2>1, TrimmedStarts DEF IsTrimmed
  <2>3. [p EXCEPT !.body = <<>>] = p
    BY DEF Parsers
  <2>4. Grown(0) = p
    BY <2>1, <2>2, <2>3
  <2>5. f[0] = p /\ 0 \in 0 .. N
    BY <1>2, <1>3 DEF Goes
  <2> HIDE DEF Grown
  <2> QED
    BY <2>4, <2>5
<1>5. ASSUME NEW n \in 0 .. N - 1, n \in P PROVE n + 1 \in P
  <2> DEFINE s == SubSeq(body, 1, n)
             line == body[n + 1]
  <2>1. n + 1 \in 1 .. N /\ n + 1 \in 0 .. N /\ (n + 1) - 1 = n
    BY <1>3
  <2>2. s \in Seq(BodyLines) /\ line \in BodyLines /\ SubSeq(body, 1, n + 1) = Append(s, line)
    BY <1>3, <2>1
  <2>3. f[n + 1] = Consume(f[n], line)
    BY <1>2, <2>1 DEF Goes
  <2>4. f[n] = [p EXCEPT !.body = Trimmed(s)]
    BY <1>5
  <2> HIDE DEF s, line
  <2>5. f[n].region = p.region /\ f[n].body = Trimmed(s)
    BY <2>4 DEF Parsers
  <2>6. line # Close(p.region)
    BY <2>2, LineKinds
  <2>7. Consume(f[n], line) = [f[n] EXCEPT !.body = Grow(f[n].body, line)]
    BY <2>5, <2>6 DEF Consume
  <2>8. Grow(f[n].body, line) = Trimmed(Append(s, line))
    BY <2>2, <2>5, TrimmedGrows
  <2>9. [f[n] EXCEPT !.body = Trimmed(Append(s, line))] = [p EXCEPT !.body = Trimmed(Append(s, line))]
    BY <2>4 DEF Parsers
  <2>10. f[n + 1] = Grown(n + 1)
    BY <2>2, <2>3, <2>7, <2>8, <2>9
  <2> QED
    BY <2>1, <2>10
<1>6. f[N] = Grown(N)
  <2>1. N \in 0 .. N
    BY <1>3
  <2>2. N \in P
    <3> HIDE DEF P
    <3> QED
      BY <1>3, <1>4, <1>5, <2>1, Upward
  <2> QED
    BY <2>2
<1>7. SubSeq(body, 1, N) = body
  OBVIOUS
<1>8. Run(p, body) = f[N] /\ f[N] \in Parsers
  BY <1>1, <1>2, <1>3, RunGoes
<1> QED
  BY <1>6, <1>7, <1>8

(***************************************************************************)
(* Regions                                                                 *)
(***************************************************************************)

\* A region that is read whole, outside of any other.
LEMMA RegionIsRead ==
    ASSUME NEW p \in Parsers, p.region = Outside, NEW r \in Marked, NEW body \in Seq(BodyLines)
    PROVE  LET q == Run(p, RegionText(r, body))
           IN  /\ RegionText(r, body) \in Seq(FileLines)
               /\ q \in Parsers /\ q.region = Outside
               /\ r = Manual => q.blocks = p.blocks /\ q.manual = Trimmed(body)
               /\ r \in Names => /\ q.blocks = Collapse(p.blocks, [host |-> r, body |-> Trimmed(body)])
                                 /\ q.manual = p.manual
<1> DEFINE opened == [p EXCEPT !.region = r, !.body = <<>>]
           inside == [opened EXCEPT !.body = Trimmed(body)]
<1>1. /\ Open(r) \in FileLines /\ Close(r) \in FileLines
      /\ <<Open(r)>> \in Seq(FileLines) /\ <<Close(r)>> \in Seq(FileLines)
  BY LineKinds
<1>2. body \in Seq(FileLines)
  BY LineKinds, SeqDef
<1>3. Run(p, <<Open(r)>>) = opened
  <2>1. Consume(p, Open(r)) = opened
    BY LineKinds DEF Consume
  <2> QED
    BY <1>1, <2>1, RunOne
<1>4. opened \in Parsers /\ opened.region = r /\ opened.body = <<>>
      /\ opened.blocks = p.blocks /\ opened.manual = p.manual
  <2>1. <<>> \in Seq(FileLines)
    OBVIOUS
  <2> QED
    BY <2>1 DEF Parsers
<1>5. r # Outside
  BY NamesApart
<1> HIDE DEF opened
<1>6. Run(opened, body) = inside /\ inside \in Parsers
  BY <1>4, <1>5, BodyIsRead
<1>7. inside.region = r /\ inside.body = Trimmed(body)
      /\ inside.blocks = p.blocks /\ inside.manual = p.manual
  BY <1>4 DEF Parsers
<1> HIDE DEF inside
<1>8. Run(inside, <<Close(r)>>) = Finish(inside)
  <2>1. Consume(inside, Close(r)) = Finish(inside)
    BY <1>5, <1>7 DEF Consume
  <2> QED
    BY <1>1, <1>6, <2>1, RunOne
<1>9. <<Open(r)>> \o body \in Seq(FileLines)
  BY <1>1, <1>2
<1>10. Run(p, <<Open(r)>> \o body) = inside
  BY <1>1, <1>2, <1>3, <1>6, RunParts
<1>11. Run(p, RegionText(r, body)) = Finish(inside) /\ RegionText(r, body) \in Seq(FileLines)
  <2>1. Run(p, (<<Open(r)>> \o body) \o <<Close(r)>>) = Finish(inside)
    BY <1>1, <1>8, <1>9, <1>10, RunParts
  <2>2. (<<Open(r)>> \o body) \o <<Close(r)>> \in Seq(FileLines)
    BY <1>1, <1>9
  <2> QED
    BY <2>1, <2>2 DEF RegionText
<1>12. /\ Finish(inside) \in Parsers /\ Finish(inside).region = Outside
       /\ r = Manual => Finish(inside).blocks = p.blocks /\ Finish(inside).manual = Trimmed(body)
       /\ r \in Names =>
             /\ Finish(inside).blocks = Collapse(p.blocks, [host |-> r, body |-> Trimmed(body)])
             /\ Finish(inside).manual = p.manual
  BY <1>6, <1>7, FinishTyped
<1> QED
  BY <1>11, <1>12

\* A line of nobody.
LEMMA LooseIsSkipped ==
    ASSUME NEW p \in Parsers, p.region = Outside, NEW line \in BodyLines
    PROVE  Run(p, <<line>>) = p /\ <<line>> \in Seq(FileLines)
<1>1. line \in FileLines /\ line[1] # "open"
  BY LineKinds
<1>2. Consume(p, line) = p
  BY <1>1 DEF Consume
<1> QED
  BY <1>1, <1>2, RunOne

\* FlattenSeq puts one part after the other.
PutTogether(g, parts) ==
    /\ g[0] = <<>> /\ g[Len(parts)] = FlattenSeq(parts)
    /\ \A n \in 1 .. Len(parts) : g[n] = g[n - 1] \o parts[n]

LEMMA FlattenSteps ==
    ASSUME NEW S, NEW parts \in Seq(Seq(S))
    PROVE  \E g \in [0 .. Len(parts) -> Seq(S)] : PutTogether(g, parts)
<1> DEFINE N == Len(parts)
           Q == Seq(S)
           none == <<>>
           step == [n \in 1 .. N |-> [t \in Q |-> t \o parts[n]]]
           Loop(f) == [n \in 1 .. N |-> IF n = 1 THEN parts[n] ELSE f[n - 1] \o parts[n]]
           flatten == CHOOSE f : f = Loop(f)
<1>1. N \in Nat /\ none \in Q /\ \A n \in 1 .. N : parts[n] \in Q
  OBVIOUS
<1>2. ASSUME NEW n \in 1 .. N, NEW t \in Q PROVE t \o parts[n] \in Q
  BY <1>1
<1>3. /\ N = 0 => FlattenSeq(parts) = <<>>
      /\ N # 0 => FlattenSeq(parts) = flatten[N]
  BY DEF FlattenSeq
<1>4. \A t \in Q : none \o t = t
  OBVIOUS
<1> HIDE DEF N, Q, none
<1>5. step \in [1 .. N -> [Q -> Q]]
  BY <1>2
<1>6. PICK g \in [0 .. N -> Q] : g = Values(N, none, step, g)
  <2> HIDE DEF step
  <2> QED
    BY <1>1, <1>5, Iterates
<1>7. ASSUME NEW n \in 1 .. N PROVE n - 1 \in 0 .. N /\ g[n] = g[n - 1] \o parts[n]
  <2>1. n - 1 \in 0 .. N /\ n \in 0 .. N /\ n # 0
    BY <1>1
  <2>2. g[n - 1] \in Q
    BY <1>6, <2>1
  <2>3. g[n] = step[n][g[n - 1]]
    <3> HIDE DEF step
    <3> QED
      BY <1>6, <2>1 DEF Values
  <2> QED
    BY <2>1, <2>2, <2>3
<1>8. g[0] = none
  <2>1. 0 \in 0 .. N
    BY <1>1
  <2> QED
    BY <1>6, <2>1 DEF Values
<1>9. N # 0 => g[N] = flatten[N]
  <2> SUFFICES ASSUME N # 0 PROVE g[N] = flatten[N]
    OBVIOUS
  <2> DEFINE f == [n \in 1 .. N |-> g[n]]
  <2>1. ASSUME NEW n \in 1 .. N PROVE f[n] = Loop(f)[n]
    <3>1. CASE n = 1
      <4>1. n - 1 = 0
        BY <3>1
      <4>2. g[n] = none \o parts[n]
        BY <1>7, <1>8, <4>1
      <4> QED
        BY <1>1, <1>4, <3>1, <4>2
    <3>2. CASE n # 1
      <4>1. n - 1 \in 1 .. N
        BY <1>1, <3>2
      <4> QED
        BY <1>7, <3>2, <4>1
    <3> QED
      BY <3>1, <3>2
  <2>2. f = Loop(f)
    BY <2>1
  <2>3. flatten = Loop(flatten)
    <3> HIDE DEF Loop, f
    <3> QED
      BY <2>2
  <2> HIDE DEF flatten
  <2> DEFINE P == {n \in 0 .. N : n = 0 \/ flatten[n] = g[n]}
  <2>4. 0 \in P
    BY <1>1
  <2>5. ASSUME NEW n \in 0 .. N - 1, n \in P PROVE n + 1 \in P
    <3>1. n + 1 \in 1 .. N /\ n + 1 \in 0 .. N /\ (n + 1) - 1 = n /\ (n + 1 = 1 <=> n = 0)
      BY <1>1
    <3>2. flatten[n + 1] = IF n = 0 THEN parts[n + 1] ELSE flatten[n] \o parts[n + 1]
      BY <2>3, <3>1
    <3>3. g[n + 1] = g[n] \o parts[n + 1]
      BY <1>7, <3>1
    <3>4. n = 0 => g[n + 1] = parts[n + 1]
      BY <1>1, <1>4, <1>8, <3>1, <3>3
    <3> QED
      BY <2>5, <3>1, <3>2, <3>3, <3>4
  <2>6. N \in P
    <3>1. N \in 0 .. N
      BY <1>1
    <3> HIDE DEF P
    <3> QED
      BY <1>1, <2>4, <2>5, <3>1, Upward
  <2> QED
    BY <2>6
<1>10. g[N] = FlattenSeq(parts)
  BY <1>3, <1>8, <1>9 DEF none
<1> QED
  BY <1>6, <1>7, <1>8, <1>10 DEF N, Q, none, PutTogether

LEMMA Joined ==
    ASSUME NEW S, NEW a \in Seq(S), NEW b \in Seq(S)
    PROVE  /\ a \o b \in Seq(S) /\ Len(a \o b) = Len(a) + Len(b)
           /\ Len(a) \in Nat /\ Len(b) \in Nat
           /\ \A i \in 1 .. Len(a) : (a \o b)[i] = a[i]
           /\ \A i \in Len(a) + 1 .. Len(a) + Len(b) : (a \o b)[i] = b[i - Len(a)]
OBVIOUS

\* What a text leaves is what its lines after the first two leave.
LEMMA ParseOfText ==
    ASSUME NEW rest \in Seq(FileLines)
    PROVE  /\ Parse(Head3 \o rest) = Finish(Run(Start, rest))
           /\ Start \in Parsers /\ Start.region = Outside
           /\ Head3 \o rest # <<>>
<1>1. Start \in Parsers /\ Start.region = Outside
  <2>1. <<>> \in Seq(FileLines) /\ <<>> \in Seq(BlockTypes)
    OBVIOUS
  <2> QED
    BY <2>1 DEF Start, Parsers
<1>2. Len(Head3) = 3 /\ Head3[3] = Empty /\ Head3 \in Seq(FileLines) /\ Empty \in BodyLines
  <2>1. Line("title") \in FileLines /\ Line("subtitle") \in FileLines /\ Empty \in FileLines
    BY LineKinds DEF FileLines
  <2> QED
    BY <2>1, LineKinds DEF Head3
<1> DEFINE head == Head3
           text == head \o rest
<1>0. head \in Seq(FileLines) /\ Len(head) = 3 /\ head[3] = Empty /\ Len(rest) \in Nat
  BY <1>2
<1> HIDE DEF head
<1>a. /\ text \in Seq(FileLines) /\ Len(text) = Len(head) + Len(rest) /\ Len(rest) \in Nat
      /\ \A i \in 1 .. Len(head) : text[i] = head[i]
      /\ \A i \in Len(head) + 1 .. Len(head) + Len(rest) : text[i] = rest[i - Len(head)]
  <2>1. head \in Seq(FileLines)
    BY <1>0
  <2> QED
    BY <2>1, Joined
<1> HIDE DEF text
<1>3. text \in Seq(FileLines) /\ Len(text) = 3 + Len(rest) /\ Len(rest) \in Nat
  BY <1>0, <1>a
<1>4. \A i \in 4 .. 3 + Len(rest) : text[i] = rest[i - 3]
  BY <1>0, <1>a
<1>5. text[3] = Empty
  BY <1>0, <1>a
<1> HIDE DEF text
<1>6. SubSeq(text, 3, Len(text)) = <<Empty>> \o rest
  <2> DEFINE a == SubSeq(text, 3, Len(text))
             b == <<Empty>> \o rest
  <2>1. a \in Seq(FileLines) /\ Len(a) = 1 + Len(rest) /\ \A i \in 1 .. 1 + Len(rest) : a[i] = text[i + 2]
    BY <1>3
  <2>2. b \in Seq(FileLines) /\ Len(b) = 1 + Len(rest) /\ b[1] = Empty
        /\ \A i \in 2 .. 1 + Len(rest) : b[i] = rest[i - 1]
    BY <1>2, LineKinds
  <2> HIDE DEF a, b
  <2>3. ASSUME NEW i \in 1 .. 1 + Len(rest) PROVE a[i] = b[i]
    <3>1. CASE i = 1
      <4>1. a[1] = text[3]
        BY <1>3, <2>1
      <4> QED
        BY <1>5, <2>2, <3>1, <4>1
    <3>2. CASE i # 1
      <4>1. i \in 2 .. 1 + Len(rest) /\ i + 2 \in 4 .. 3 + Len(rest) /\ (i + 2) - 3 = i - 1
        BY <1>3, <3>2
      <4> QED
        BY <1>4, <2>1, <2>2, <4>1
    <3> QED
      BY <3>1, <3>2
  <2>4. a = b
    BY <2>1, <2>2, <2>3
  <2> QED
    BY <2>4 DEF a, b
<1>7. Run(Start, <<Empty>> \o rest) = Run(Start, rest)
  <2>1. Run(Start, <<Empty>>) = Start /\ <<Empty>> \in Seq(FileLines)
    BY <1>1, <1>2, LooseIsSkipped
  <2>2. Run(Start, <<Empty>> \o rest) = Run(Run(Start, <<Empty>>), rest)
    BY <1>1, <2>1, RunParts
  <2> QED
    BY <2>1, <2>2
<1>8. text # <<>>
  BY <1>3
<1> QED
  BY <1>1, <1>6, <1>7, <1>8 DEF Parse, text, head

(***************************************************************************)
(* Blocks                                                                  *)
(***************************************************************************)

\* A host has one block.
Distinct(bs) == \A i, j \in DOMAIN bs : bs[i].host = bs[j].host => i = j

\* What the edits work on; and what a text is parsed to.
Plain(p) ==
    /\ p \in Parsers /\ p.region = Outside /\ Distinct(p.blocks)
    /\ \A i \in DOMAIN p.blocks : p.blocks[i].body \in Seq(BodyLines)
    /\ p.manual \in Seq(BodyLines)

Tidy(p) ==
    /\ Plain(p) /\ IsTrimmed(p.manual)
    /\ \A i \in DOMAIN p.blocks : IsTrimmed(p.blocks[i].body)

LEMMA BlocksTyped ==
    ASSUME NEW p \in Parsers
    PROVE  /\ p.blocks \in Seq(BlockTypes) /\ Len(p.blocks) \in Nat
           /\ DOMAIN p.blocks = 1 .. Len(p.blocks)
           /\ \A i \in DOMAIN p.blocks : /\ p.blocks[i] \in BlockTypes
                                         /\ p.blocks[i].host \in Names
                                         /\ p.blocks[i].body \in Seq(FileLines)
<1>1. p.blocks \in Seq(BlockTypes)
  BY DEF Parsers
<1>2. \A i \in DOMAIN p.blocks : p.blocks[i] \in BlockTypes
  BY <1>1
<1>3. \A block \in BlockTypes : block.host \in Names /\ block.body \in Seq(FileLines)
  BY DEF BlockTypes
<1> HIDE DEF BlockTypes
<1> QED
  BY <1>1, <1>2, <1>3

LEMMA BodyOfIs ==
    ASSUME NEW p \in Parsers, Distinct(p.blocks)
    PROVE  /\ \A i \in DOMAIN p.blocks : BodyOf(p, p.blocks[i].host) = p.blocks[i].body
           /\ \A h : (\A i \in DOMAIN p.blocks : p.blocks[i].host # h) => BodyOf(p, h) = <<>>
<1>1. ASSUME NEW i \in DOMAIN p.blocks PROVE BodyOf(p, p.blocks[i].host) = p.blocks[i].body
  <2> DEFINE only == Blocks(p, p.blocks[i].host)
  <2>1. only = {i} /\ i \in Nat
    BY BlocksTyped DEF Blocks, Distinct
  <2>2. only \subseteq Nat /\ i \in only /\ \A j \in only : i <= j
    BY <2>1
  <2>3. First(only) = i
    <3> HIDE DEF only
    <3> QED
      BY <2>2, FirstUnique
  <2> QED
    BY <2>2, <2>3 DEF BodyOf
<1>2. ASSUME NEW h, \A i \in DOMAIN p.blocks : p.blocks[i].host # h PROVE BodyOf(p, h) = <<>>
  BY <1>2 DEF BodyOf, Blocks
<1> QED
  BY <1>1, <1>2

LEMMA SameBody ==
    ASSUME NEW p \in Parsers, NEW q \in Parsers, NEW k,
           \A i \in DOMAIN p.blocks :
              p.blocks[i].host = k => i \in DOMAIN q.blocks /\ q.blocks[i] = p.blocks[i],
           \A i \in DOMAIN q.blocks :
              q.blocks[i].host = k => i \in DOMAIN p.blocks /\ q.blocks[i] = p.blocks[i]
    PROVE  BodyOf(p, k) = BodyOf(q, k)
<1>1. Blocks(p, k) = Blocks(q, k) /\ Blocks(p, k) \subseteq Nat
  BY BlocksTyped DEF Blocks
<1>2. CASE Blocks(p, k) = {}
  BY <1>1, <1>2 DEF BodyOf
<1>3. CASE Blocks(p, k) # {}
  <2>1. First(Blocks(p, k)) \in Blocks(p, k)
    BY <1>1, <1>3, FirstIs
  <2>2. p.blocks[First(Blocks(p, k))] = q.blocks[First(Blocks(p, k))]
    BY <2>1 DEF Blocks
  <2> QED
    BY <1>1, <1>3, <2>2 DEF BodyOf
<1> QED
  BY <1>2, <1>3

LEMMA CollapseKeeps ==
    ASSUME NEW p, Tidy(p), NEW q \in Parsers, q.region = Outside, q.manual = p.manual,
           NEW h \in Names, NEW b \in Seq(BodyLines), IsTrimmed(b),
           q.blocks = Collapse(p.blocks, [host |-> h, body |-> b])
    PROVE  /\ Tidy(q)
           /\ BodyOf(q, h) = IF BodyOf(p, h) = <<>> THEN b ELSE BodyOf(p, h)
           /\ \A k : k # h => BodyOf(q, k) = BodyOf(p, k)
<1> DEFINE bs == p.blocks
           block == [host |-> h, body |-> b]
<1>1. /\ p \in Parsers /\ Distinct(bs)
      /\ \A i \in DOMAIN bs : bs[i].body \in Seq(BodyLines) /\ IsTrimmed(bs[i].body)
      /\ p.manual \in Seq(BodyLines) /\ IsTrimmed(p.manual)
  BY DEF Tidy, Plain
<1>2. /\ bs \in Seq(BlockTypes) /\ Len(bs) \in Nat /\ DOMAIN bs = 1 .. Len(bs)
  BY <1>1, BlocksTyped
<1>3. block.host = h /\ block.body = b
  OBVIOUS
<1> HIDE DEF bs, block
<1>4. q.blocks = Collapse(bs, block)
  BY DEF bs, block
<1>5. ASSUME Distinct(q.blocks),
             \A i \in DOMAIN q.blocks : q.blocks[i].body \in Seq(BodyLines)
                                        /\ IsTrimmed(q.blocks[i].body)
      PROVE  Tidy(q)
  BY <1>1, <1>5 DEF Tidy, Plain
<1>6. CASE \E i \in DOMAIN bs : bs[i].host = h
  <2>1. PICK m \in DOMAIN bs : bs[m].host = h
    BY <1>6
  <2>2. q.blocks = [i \in DOMAIN bs |->
                       IF bs[i].host = h /\ bs[i].body = <<>> THEN block ELSE bs[i]]
    BY <1>3, <1>4, <1>6 DEF Collapse
  <2>3. /\ DOMAIN q.blocks = DOMAIN bs
        /\ \A i \in DOMAIN bs :
              /\ q.blocks[i].host = bs[i].host
              /\ q.blocks[i].body = IF bs[i].host = h /\ bs[i].body = <<>> THEN b ELSE bs[i].body
    BY <1>3, <2>2
  <2>4. Distinct(q.blocks)
    BY <1>1, <2>3 DEF Distinct
  <2>5. Tidy(q)
    BY <1>1, <1>5, <2>3, <2>4
  <2>6. BodyOf(q, h) = q.blocks[m].body /\ BodyOf(p, h) = bs[m].body
    BY <1>1, <2>1, <2>3, <2>4, BodyOfIs DEF bs
  <2>7. BodyOf(q, h) = IF BodyOf(p, h) = <<>> THEN b ELSE BodyOf(p, h)
    BY <2>1, <2>3, <2>6
  <2>8. ASSUME NEW k, k # h PROVE BodyOf(q, k) = BodyOf(p, k)
    <3>1. \A i \in DOMAIN bs :
             q.blocks[i].host = k \/ bs[i].host = k => q.blocks[i] = bs[i]
      BY <2>2, <2>3, <2>8
    <3> QED
      BY <1>1, <2>3, <3>1, SameBody DEF bs
  <2> QED
    BY <2>5, <2>7, <2>8
<1>7. CASE ~ \E i \in DOMAIN bs : bs[i].host = h
  <2> DEFINE N == Len(bs)
  <2>1. q.blocks = Append(bs, block)
    BY <1>3, <1>4, <1>7 DEF Collapse
  <2>2. /\ DOMAIN q.blocks = 1 .. N + 1
        /\ q.blocks[N + 1] = block
        /\ \A i \in 1 .. N : q.blocks[i] = bs[i]
    BY <1>2, <2>1
  <2> HIDE DEF N
  <2>3. /\ \A i \in DOMAIN q.blocks : i \in DOMAIN bs \/ i = N + 1
        /\ \A i \in DOMAIN bs : i \in DOMAIN q.blocks /\ q.blocks[i] = bs[i] /\ i # N + 1
        /\ N + 1 \in DOMAIN q.blocks
    BY <1>2, <2>2 DEF N
  <2>4. Distinct(q.blocks)
    BY <1>1, <1>3, <1>7, <2>2, <2>3 DEF Distinct
  <2>5. Tidy(q)
    BY <1>1, <1>3, <1>5, <2>2, <2>3, <2>4
  <2>6. BodyOf(p, h) = <<>>
    BY <1>1, <1>7, BodyOfIs DEF bs
  <2>7. BodyOf(q, h) = b
    BY <1>3, <2>2, <2>3, <2>4, BodyOfIs
  <2>8. ASSUME NEW k, k # h PROVE BodyOf(q, k) = BodyOf(p, k)
    <3>1. \A i \in DOMAIN q.blocks :
             q.blocks[i].host = k => i \in DOMAIN bs /\ q.blocks[i] = bs[i]
      BY <1>3, <2>2, <2>3, <2>8
    <3> QED
      BY <1>1, <2>3, <3>1, SameBody DEF bs
  <2> QED
    BY <2>5, <2>6, <2>7, <2>8
<1> QED
  BY <1>6, <1>7

\* The edit of one block leaves the others, and MANUAL.
LEMMA WithBlockKeeps ==
    ASSUME NEW p, Plain(p), NEW h \in Names, NEW b \in Seq(BodyLines)
    PROVE  LET q == WithBlock(p, h, b)
           IN  /\ Plain(q) /\ q.manual = p.manual
               /\ BodyOf(q, h) = b
               /\ \A k : k # h => BodyOf(q, k) = BodyOf(p, k)
               /\ \E i \in DOMAIN q.blocks : q.blocks[i].host = h
               /\ \A i \in DOMAIN q.blocks :
                     q.blocks[i].host # h => i \in DOMAIN p.blocks /\ q.blocks[i] = p.blocks[i]
<1> DEFINE bs == p.blocks
           block == [host |-> h, body |-> b]
           new == IF \E i \in DOMAIN bs : bs[i].host = h
                  THEN [i \in DOMAIN bs |-> IF bs[i].host = h THEN [bs[i] EXCEPT !.body = b] ELSE bs[i]]
                  ELSE Append(bs, block)
           q == [p EXCEPT !.blocks = new]
<1>0. WithBlock(p, h, b) = q
  BY DEF WithBlock
<1>1. /\ p \in Parsers /\ Distinct(bs) /\ p.region = Outside
      /\ \A i \in DOMAIN bs : bs[i].body \in Seq(BodyLines)
      /\ p.manual \in Seq(BodyLines)
  BY DEF Plain
<1>2. /\ bs \in Seq(BlockTypes) /\ Len(bs) \in Nat /\ DOMAIN bs = 1 .. Len(bs)
      /\ \A i \in DOMAIN bs : bs[i] \in BlockTypes
  BY <1>1, BlocksTyped
<1>3. block.host = h /\ block.body = b /\ block \in BlockTypes
  <2>1. b \in Seq(FileLines)
    BY LineKinds, SeqDef
  <2> QED
    BY <2>1 DEF BlockTypes
<1>4. ASSUME NEW x \in BlockTypes, x.host = h PROVE [x EXCEPT !.body = b] = block
  BY <1>4 DEF BlockTypes
<1>5. (\E i \in DOMAIN bs : bs[i].host = h) =>
         new = [i \in DOMAIN bs |-> IF bs[i].host = h THEN block ELSE bs[i]]
  BY <1>2, <1>4
<1>6. (~ \E i \in DOMAIN bs : bs[i].host = h) => new = Append(bs, block)
  OBVIOUS
<1> HIDE DEF block, new, bs
<1>7. CASE \E i \in DOMAIN bs : bs[i].host = h
  <2>1. PICK m \in DOMAIN bs : bs[m].host = h
    BY <1>7
  <2>2. new \in Seq(BlockTypes)
    <3>1. new \in [1 .. Len(bs) -> BlockTypes]
      BY <1>2, <1>3, <1>5, <1>7
    <3> QED
      BY <1>2, <3>1, SeqDef
  <2>3. q \in Parsers /\ q.region = Outside /\ q.blocks = new /\ q.manual = p.manual
    BY <1>1, <2>2 DEF Parsers
  <2> HIDE DEF q
  <2>4. /\ DOMAIN q.blocks = DOMAIN bs
        /\ \A i \in DOMAIN bs :
              /\ q.blocks[i].host = bs[i].host
              /\ bs[i].host = h => q.blocks[i].body = b
              /\ bs[i].host # h => q.blocks[i] = bs[i]
    BY <1>3, <1>5, <1>7, <2>3
  <2>5. Distinct(q.blocks)
    BY <1>1, <2>4 DEF Distinct
  <2>6. Plain(q)
    BY <1>1, <2>3, <2>4, <2>5 DEF Plain
  <2>7. BodyOf(q, h) = b
    BY <2>1, <2>3, <2>4, <2>5, BodyOfIs
  <2>8. ASSUME NEW k, k # h PROVE BodyOf(q, k) = BodyOf(p, k)
    BY <1>1, <2>3, <2>4, <2>8, SameBody DEF bs
  <2> QED
    BY <1>0, <2>1, <2>3, <2>4, <2>6, <2>7, <2>8 DEF bs
<1>8. CASE ~ \E i \in DOMAIN bs : bs[i].host = h
  <2> DEFINE N == Len(bs)
  <2>1. new = Append(bs, block)
    BY <1>6, <1>8
  <2>2. new \in Seq(BlockTypes) /\ DOMAIN new = 1 .. N + 1 /\ new[N + 1] = block
        /\ \A i \in 1 .. N : new[i] = bs[i]
    BY <1>2, <1>3, <2>1
  <2>3. q \in Parsers /\ q.region = Outside /\ q.blocks = new /\ q.manual = p.manual
    BY <1>1, <2>2 DEF Parsers
  <2> HIDE DEF q, N
  <2>4. /\ \A i \in DOMAIN q.blocks : i \in DOMAIN bs \/ i = N + 1
        /\ \A i \in DOMAIN bs : i \in DOMAIN q.blocks /\ q.blocks[i] = bs[i] /\ i # N + 1
        /\ N + 1 \in DOMAIN q.blocks /\ q.blocks[N + 1] = block
    BY <1>2, <2>2, <2>3 DEF N
  <2>5. Distinct(q.blocks)
    BY <1>1, <1>3, <1>8, <2>4 DEF Distinct
  <2>6. Plain(q)
    BY <1>1, <1>3, <2>3, <2>4, <2>5 DEF Plain
  <2>7. BodyOf(q, h) = b
    BY <1>3, <2>3, <2>4, <2>5, BodyOfIs
  <2>8. ASSUME NEW k, k # h PROVE BodyOf(q, k) = BodyOf(p, k)
    BY <1>1, <1>3, <2>3, <2>4, <2>8, SameBody DEF bs
  <2> QED
    BY <1>0, <1>3, <2>3, <2>4, <2>6, <2>7, <2>8 DEF bs
<1> QED
  BY <1>7, <1>8

(***************************************************************************)
(* What is read again                                                      *)
(***************************************************************************)

TrimmedBlock(block) == [host |-> block.host, body |-> Trimmed(block.body)]

BlockLines(block) == RegionText(block.host, block.body) \o <<Empty>>

\* After the first n blocks of what is rendered.
ReadBack(p, q, n) ==
    /\ q \in Parsers /\ q.region = Outside /\ q.manual = <<>>
    /\ q.blocks = [i \in 1 .. n |-> TrimmedBlock(p.blocks[i])]

LEMMA OneMoreBack ==
    ASSUME NEW p, Plain(p), NEW n \in Nat, n + 1 \in DOMAIN p.blocks,
           NEW q, ReadBack(p, q, n)
    PROVE  ReadBack(p, Run(q, BlockLines(p.blocks[n + 1])), n + 1)
<1> DEFINE block == p.blocks[n + 1]
           r == Run(q, RegionText(block.host, block.body))
<1>1. /\ p \in Parsers /\ Distinct(p.blocks)
      /\ \A i \in DOMAIN p.blocks : p.blocks[i].body \in Seq(BodyLines)
  BY DEF Plain
<1>2. /\ q \in Parsers /\ q.region = Outside /\ q.manual = <<>>
      /\ q.blocks = [i \in 1 .. n |-> TrimmedBlock(p.blocks[i])]
  BY DEF ReadBack
<1>3. /\ block.host \in Names /\ block.body \in Seq(BodyLines)
      /\ \A i \in 1 .. n : i \in DOMAIN p.blocks /\ i # n + 1
  BY <1>1, BlocksTyped
<1>4. block.host # Manual /\ block.host \in Marked
  BY <1>3, NamesApart DEF Marked
<1>5. /\ RegionText(block.host, block.body) \in Seq(FileLines)
      /\ r \in Parsers /\ r.region = Outside /\ r.manual = q.manual
      /\ r.blocks = Collapse(q.blocks, TrimmedBlock(block))
  BY <1>2, <1>3, <1>4, RegionIsRead DEF TrimmedBlock
<1>6. \A i \in 1 .. n : p.blocks[i].host # block.host
  BY <1>1, <1>3 DEF Distinct
<1>7. r.blocks = Append(q.blocks, TrimmedBlock(block))
  <2>1. DOMAIN q.blocks = 1 .. n
    BY <1>2
  <2>2. \A i \in DOMAIN q.blocks : q.blocks[i].host # TrimmedBlock(block).host
    BY <1>2, <1>6, <2>1 DEF TrimmedBlock
  <2> HIDE DEF block, r
  <2> QED
    BY <1>5, <2>2 DEF Collapse
<1>8. Append(q.blocks, TrimmedBlock(block)) = [i \in 1 .. n + 1 |-> TrimmedBlock(p.blocks[i])]
  <2> DEFINE b == TrimmedBlock(block)
             t == Append(q.blocks, b)
             u == [i \in 1 .. n + 1 |-> TrimmedBlock(p.blocks[i])]
  <2>1. q.blocks \in Seq(BlockTypes) /\ Len(q.blocks) = n
    BY <1>2, BlocksTyped
  <2>2. /\ DOMAIN t = 1 .. n + 1 /\ t[n + 1] = b
        /\ \A i \in 1 .. n : t[i] = q.blocks[i]
        /\ t = [i \in 1 .. n + 1 |-> t[i]]
    <3> HIDE DEF b
    <3> QED
      BY <2>1
  <2>3. ASSUME NEW i \in 1 .. n + 1 PROVE t[i] = TrimmedBlock(p.blocks[i])
    <3>1. i \in 1 .. n \/ i = n + 1
      OBVIOUS
    <3> HIDE DEF t
    <3> QED
      BY <1>2, <2>2, <3>1
  <2> HIDE DEF t
  <2> QED
    BY <2>2, <2>3 DEF t
<1>9. Run(r, <<Empty>>) = r /\ <<Empty>> \in Seq(FileLines)
  BY <1>5, LineKinds, LooseIsSkipped
<1>10. Run(q, BlockLines(block)) = r
  BY <1>2, <1>5, <1>9, RunParts DEF BlockLines
<1> HIDE DEF block, r
<1>11. ReadBack(p, r, n + 1)
  BY <1>2, <1>5, <1>7, <1>8 DEF ReadBack
<1> QED
  BY <1>10, <1>11 DEF block

\* A text that is rendered is parsed to what it was rendered from, but for leading blanks.
LEMMA RenderIsRead ==
    ASSUME NEW p, Plain(p)
    PROVE  LET q == Parse(Render(p))
           IN  /\ Render(p) # <<>>
               /\ q \in Parsers /\ q.region = Outside
               /\ q.manual = Trimmed(p.manual)
               /\ q.blocks = [i \in DOMAIN p.blocks |-> TrimmedBlock(p.blocks[i])]
<1> DEFINE N == Len(p.blocks)
           parts == [i \in DOMAIN p.blocks |-> BlockLines(p.blocks[i])]
           blocks == FlattenSeq(parts)
           manual == RegionText(Manual, p.manual)
<1>1. /\ p \in Parsers /\ p.manual \in Seq(BodyLines)
      /\ \A i \in DOMAIN p.blocks : p.blocks[i].body \in Seq(BodyLines)
  BY DEF Plain
<1>2. /\ N \in Nat /\ DOMAIN p.blocks = 1 .. N
      /\ \A i \in DOMAIN p.blocks : p.blocks[i].host \in Names
  BY <1>1, BlocksTyped
<1>3. Start \in Parsers /\ Start.region = Outside /\ Start.manual = <<>> /\ Start.blocks = <<>>
  <2>1. <<>> \in Seq(FileLines)
    OBVIOUS
  <2> QED
    BY <2>1, ParseOfText DEF Start
<1>4. \A r \in Marked, b \in Seq(BodyLines) : RegionText(r, b) \in Seq(FileLines)
  BY <1>3, RegionIsRead
<1>5. parts \in Seq(Seq(FileLines)) /\ Len(parts) = N
  <2>1. <<Empty>> \in Seq(FileLines)
    BY LineKinds
  <2>2. \A i \in 1 .. N : BlockLines(p.blocks[i]) \in Seq(FileLines)
    BY <1>1, <1>2, <1>4, <2>1 DEF BlockLines, Marked
  <2>3. parts \in [1 .. N -> Seq(FileLines)]
    BY <1>2, <2>2
  <2> HIDE DEF parts
  <2> QED
    BY <1>2, <2>3, SeqDef
<1>6. PICK g \in [0 .. N -> Seq(FileLines)] : PutTogether(g, parts)
  <2> HIDE DEF parts
  <2> QED
    BY <1>5, FlattenSteps
<1> DEFINE P == {n \in 0 .. N : ReadBack(p, Run(Start, g[n]), n)}
<1>7. 0 \in P
  <2>1. g[0] = <<>> /\ Run(Start, <<>>) = Start
    BY <1>3, <1>6, LineKinds, RunOne DEF PutTogether
  <2>2. [i \in 1 .. 0 |-> TrimmedBlock(p.blocks[i])] = <<>>
    OBVIOUS
  <2>3. ReadBack(p, Start, 0)
    BY <1>3, <2>2 DEF ReadBack
  <2> QED
    BY <1>2, <2>1, <2>3
<1>8. ASSUME NEW n \in 0 .. N - 1, n \in P PROVE n + 1 \in P
  <2>1. n + 1 \in 1 .. N /\ n + 1 \in 0 .. N /\ (n + 1) - 1 = n /\ n \in Nat /\ n \in 0 .. N
    BY <1>2
  <2>2. g[n + 1] = g[n] \o parts[n + 1]
    BY <1>5, <1>6, <2>1 DEF PutTogether
  <2>3. parts[n + 1] = BlockLines(p.blocks[n + 1])
    BY <1>2, <2>1
  <2>4. g[n] \in Seq(FileLines) /\ parts[n + 1] \in Seq(FileLines)
    BY <1>5, <1>6, <2>1
  <2> HIDE DEF parts
  <2>5. Run(Start, g[n + 1]) = Run(Run(Start, g[n]), BlockLines(p.blocks[n + 1]))
    BY <1>3, <2>2, <2>3, <2>4, RunParts
  <2>6. ReadBack(p, Run(Start, g[n]), n) /\ n + 1 \in DOMAIN p.blocks
    BY <1>2, <1>8, <2>1
  <2>7. ReadBack(p, Run(Start, g[n + 1]), n + 1)
    BY <2>1, <2>5, <2>6, OneMoreBack
  <2> QED
    BY <2>1, <2>7
<1>9. ReadBack(p, Run(Start, blocks), N) /\ blocks \in Seq(FileLines)
  <2>1. N \in 0 .. N
    BY <1>2
  <2>2. N \in P
    <3> HIDE DEF P, N
    <3> QED
      BY <1>2, <1>7, <1>8, <2>1, Upward
  <2>3. g[N] = blocks
    <3> HIDE DEF parts
    <3> QED
      BY <1>5, <1>6 DEF PutTogether
  <2> HIDE DEF blocks
  <2> QED
    BY <1>6, <2>1, <2>2, <2>3
<1>10. manual \in Seq(FileLines)
  BY <1>1, <1>4 DEF Marked
<1>11. Render(p) = Head3 \o (blocks \o manual)
  <2>1. Render(p) = Head3 \o blocks \o manual
    BY DEF Render, BlockLines
  <2>2. Head3 \in Seq(FileLines)
    <3>1. Line("title") \in FileLines /\ Line("subtitle") \in FileLines /\ Empty \in FileLines
      BY LineKinds DEF FileLines
    <3> QED
      BY <3>1 DEF Head3
  <2>3. \A a, b, c \in Seq(FileLines) : (a \o b) \o c = a \o (b \o c)
    OBVIOUS
  <2> HIDE DEF blocks, manual
  <2> QED
    BY <1>9, <1>10, <2>1, <2>2, <2>3
<1> DEFINE s == Run(Start, blocks)
           q == Run(s, manual)
<1>12. s \in Parsers /\ s.region = Outside
       /\ s.blocks = [i \in DOMAIN p.blocks |-> TrimmedBlock(p.blocks[i])]
  BY <1>2, <1>9 DEF ReadBack
<1>13. Run(Start, blocks \o manual) = q /\ blocks \o manual \in Seq(FileLines)
  <2> HIDE DEF blocks, manual
  <2> QED
    BY <1>3, <1>9, <1>10, RunParts
<1>14. q \in Parsers /\ q.region = Outside /\ q.manual = Trimmed(p.manual) /\ q.blocks = s.blocks
  <2>1. Manual \in Marked
    BY DEF Marked
  <2> HIDE DEF s
  <2> QED
    BY <1>1, <1>12, <2>1, RegionIsRead
<1>15. Parse(Render(p)) = q /\ Render(p) # <<>>
  <2> HIDE DEF blocks, manual, q
  <2>1. Parse(Render(p)) = Finish(q) /\ Render(p) # <<>>
    BY <1>11, <1>13, ParseOfText
  <2> QED
    BY <1>14, <2>1, FinishTyped
<1> QED
  BY <1>12, <1>14, <1>15

\* What a host shows is what was rendered for it, but for leading blanks.
LEMMA BodiesAreRead ==
    ASSUME NEW p, Plain(p), NEW h
    PROVE  BodyOf(Parse(Render(p)), h) = Trimmed(BodyOf(p, h))
<1> DEFINE q == Parse(Render(p))
<1>1. /\ q \in Parsers
      /\ q.blocks = [i \in DOMAIN p.blocks |-> TrimmedBlock(p.blocks[i])]
  BY RenderIsRead
<1> HIDE DEF q
<1>2. p \in Parsers /\ Distinct(p.blocks)
  BY DEF Plain
<1>3. /\ DOMAIN q.blocks = DOMAIN p.blocks
      /\ \A i \in DOMAIN p.blocks : /\ q.blocks[i].host = p.blocks[i].host
                                    /\ q.blocks[i].body = Trimmed(p.blocks[i].body)
  BY <1>1 DEF TrimmedBlock
<1>4. Distinct(q.blocks)
  BY <1>2, <1>3 DEF Distinct
<1>5. CASE \E i \in DOMAIN p.blocks : p.blocks[i].host = h
  <2>1. PICK i \in DOMAIN p.blocks : p.blocks[i].host = h
    BY <1>5
  <2>2. BodyOf(q, h) = q.blocks[i].body /\ BodyOf(p, h) = p.blocks[i].body
    BY <1>1, <1>2, <1>3, <1>4, <2>1, BodyOfIs
  <2> QED
    BY <1>3, <2>1, <2>2 DEF q
<1>6. CASE ~ \E i \in DOMAIN p.blocks : p.blocks[i].host = h
  <2>1. BodyOf(q, h) = <<>>
    <3>1. \A i \in DOMAIN q.blocks : q.blocks[i].host # h
      BY <1>3, <1>6
    <3> HIDE DEF TrimmedBlock
    <3> QED
      BY <1>1, <1>4, <3>1, BodyOfIs
  <2>2. BodyOf(p, h) = <<>>
    BY <1>2, <1>6, BodyOfIs
  <2>3. Trimmed(<<>>) = <<>>
    <3>1. <<>> \in Seq(BodyLines) /\ IsTrimmed(<<>>)
      BY DEF IsTrimmed
    <3> QED
      BY <3>1, TrimmedStarts
  <2> QED
    BY <2>1, <2>2, <2>3 DEF q
<1> QED
  BY <1>5, <1>6

\* What a tidy file shows begins with a line that shows something.
LEMMA TidyBodies ==
    ASSUME NEW p, Tidy(p), NEW h
    PROVE  Trimmed(BodyOf(p, h)) = BodyOf(p, h) /\ Trimmed(p.manual) = p.manual
<1>1. /\ p \in Parsers /\ Distinct(p.blocks) /\ p.manual \in Seq(BodyLines) /\ IsTrimmed(p.manual)
      /\ \A i \in DOMAIN p.blocks :
            p.blocks[i].body \in Seq(BodyLines) /\ IsTrimmed(p.blocks[i].body)
  BY DEF Tidy, Plain
<1>2. BodyOf(p, h) \in Seq(BodyLines) /\ IsTrimmed(BodyOf(p, h))
  <2>1. CASE \E i \in DOMAIN p.blocks : p.blocks[i].host = h
    BY <1>1, <2>1, BodyOfIs
  <2>2. CASE ~ \E i \in DOMAIN p.blocks : p.blocks[i].host = h
    <3>1. BodyOf(p, h) = <<>>
      BY <1>1, <2>2, BodyOfIs
    <3> QED
      BY <3>1 DEF IsTrimmed
  <2> QED
    BY <2>1, <2>2
<1> QED
  BY <1>1, <1>2, TrimmedStarts

(***************************************************************************)
(* What an edit finds                                                      *)
(***************************************************************************)

\* FirstShown, of the first n chunks.
ShownUpTo(cs, n, r) ==
    LET filled == Filled(cs, r) \cap (1 .. n)
    IN  IF filled = {} THEN <<>> ELSE Trimmed(cs[First(filled)].body)

\* A chunk is a region, or a line of nobody.
LEMMA ChunkKinds ==
    ASSUME NEW c \in Chunks
    PROVE  /\ c.body \in Seq(BodyLines)
           /\ \/ c.region \in Hosts \cup {Manual} /\ ChunkText(c) = RegionText(c.region, c.body)
              \/ c.region = Outside /\ \E line \in BodyLines : ChunkText(c) = <<line>>
<1>1. MaxBody \in Nat
  BY NamesApart
<1>2. CASE c \in [region : Hosts \cup {Manual}, body : RegionBodies]
  <2>1. c.body \in Seq(BodyLines)
    BY <1>1, <1>2, BoundedLists DEF RegionBodies
  <2>2. c.region \in Hosts \cup {Manual} /\ c.region # Outside
    BY <1>2, NamesApart DEF Marked, Names
  <2> QED
    BY <2>1, <2>2 DEF ChunkText
<1>3. CASE c \in [region : {Outside}, body : {<<Line(x)>> : x \in Lines}]
  <2>1. PICK x \in Lines : c.body = <<Line(x)>> /\ c.region = Outside
    BY <1>3
  <2>2. Line(x) \in BodyLines
    BY DEF BodyLines
  <2>3. ChunkText(c) = <<Line(x)>>
    BY <2>1 DEF ChunkText
  <2>4. <<Line(x)>> \in Seq(BodyLines)
    BY <2>2
  <2> QED
    BY <2>1, <2>2, <2>3, <2>4
<1> QED
  BY <1>2, <1>3 DEF Chunks

LEMMA ShownSteps ==
    ASSUME NEW cs \in Seq(Chunks), NEW r
    PROVE  /\ ShownUpTo(cs, 0, r) = <<>>
           /\ ShownUpTo(cs, Len(cs), r) = FirstShown(cs, r)
           /\ \A n \in 0 .. Len(cs) - 1 :
                 ShownUpTo(cs, n + 1, r) =
                    IF cs[n + 1].region = r /\ ShownUpTo(cs, n, r) = <<>>
                    THEN Trimmed(cs[n + 1].body) ELSE ShownUpTo(cs, n, r)
<1> DEFINE N == Len(cs)
           F == Filled(cs, r)
           Upto(n) == F \cap (1 .. n)
<1>1. N \in Nat /\ DOMAIN cs = 1 .. N /\ \A i \in 1 .. N : cs[i].body \in Seq(BodyLines)
  BY ChunkKinds
<1>2. F \subseteq 1 .. N /\ \A i \in 1 .. N : i \in F <=> cs[i].region = r /\ Trimmed(cs[i].body) # <<>>
  <2>1. \A i \in 1 .. N : Trimmed(cs[i].body) = <<>> <=> Visible(cs[i].body) = {}
    BY <1>1, TrimmedStarts
  <2> QED
    BY <1>1, <2>1 DEF Filled
<1>3. \A n : ShownUpTo(cs, n, r) = IF Upto(n) = {} THEN <<>> ELSE Trimmed(cs[First(Upto(n))].body)
  BY DEF ShownUpTo
<1>4. Upto(0) = {} /\ Upto(N) = F
  BY <1>1, <1>2
<1>5. FirstShown(cs, r) = IF F = {} THEN <<>> ELSE Trimmed(cs[First(F)].body)
  BY DEF FirstShown
<1> HIDE DEF F, N
<1>6. ASSUME NEW n \in 0 .. N - 1
      PROVE  ShownUpTo(cs, n + 1, r) = IF cs[n + 1].region = r /\ ShownUpTo(cs, n, r) = <<>>
                                       THEN Trimmed(cs[n + 1].body) ELSE ShownUpTo(cs, n, r)
  <2>1. n + 1 \in 1 .. N /\ n + 1 \in Nat /\ \A i \in 1 .. n : i \in Nat /\ i < n + 1
    BY <1>1
  <2>2. Upto(n + 1) = Upto(n) \cup (IF n + 1 \in F THEN {n + 1} ELSE {})
    <3>1. 1 .. n + 1 = (1 .. n) \cup {n + 1}
      BY <1>1
    <3> QED
      BY <3>1
  <2>3. CASE Upto(n) # {}
    <3> DEFINE m == First(Upto(n))
    <3>1. Upto(n) \subseteq Nat /\ Upto(n + 1) \subseteq Nat
      BY <2>1, <2>2
    <3>2. m \in Upto(n) /\ \A j \in Upto(n) : m <= j
      <4> HIDE DEF Upto
      <4> QED
        BY <2>3, <3>1, FirstIs
    <3>3. m \in F /\ m \in 1 .. N /\ m < n + 1 /\ m \in Nat
      BY <1>2, <2>1, <3>2
    <3> HIDE DEF m
    <3>4. m \in Upto(n + 1) /\ \A j \in Upto(n + 1) : m <= j
      BY <2>1, <2>2, <3>2, <3>3
    <3>5. First(Upto(n + 1)) = m
      <4> HIDE DEF Upto
      <4> QED
        BY <3>1, <3>4, FirstUnique
    <3>6. Trimmed(cs[m].body) # <<>>
      BY <1>2, <3>3
    <3> HIDE DEF Upto
    <3> QED
      BY <1>3, <2>3, <3>4, <3>5, <3>6 DEF m
  <2>4. CASE Upto(n) = {}
    <3>1. CASE n + 1 \in F
      <4> DEFINE k == n + 1
                 only == {k}
      <4>1. only \subseteq Nat /\ k \in only /\ \A j \in only : k <= j
        BY <2>1
      <4>2. Upto(k) = only
        BY <2>2, <2>4, <3>1
      <4> HIDE DEF k, only, Upto
      <4>3. First(Upto(k)) = k /\ Upto(k) # {}
        BY <4>1, <4>2, FirstUnique
      <4> QED
        BY <1>2, <1>3, <2>1, <2>4, <3>1, <4>3 DEF k
    <3>2. CASE n + 1 \notin F
      <4>1. Upto(n + 1) = {}
        BY <2>2, <2>4, <3>2
      <4>2. cs[n + 1].region = r => Trimmed(cs[n + 1].body) = <<>>
        BY <1>2, <2>1, <3>2
      <4> HIDE DEF Upto
      <4> QED
        BY <1>3, <2>4, <4>1, <4>2
    <3> QED
      BY <3>1, <3>2
  <2> QED
    BY <2>3, <2>4
<1> HIDE DEF Upto
<1> QED
  BY <1>3, <1>4, <1>5, <1>6 DEF N

\* A text that is parsed leaves every host with the first body it shows there.
Reads(p, cs, n) ==
    /\ Tidy(p)
    /\ \A h \in Hosts : BodyOf(p, h) = ShownUpTo(cs, n, h)
    /\ OneManual(cs) => p.manual = ShownUpTo(cs, n, Manual)

LEMMA StartReads ==
    ASSUME NEW cs \in Seq(Chunks)
    PROVE  /\ Reads(Start, cs, 0) /\ Start \in Parsers /\ Start.region = Outside
           /\ \A h : BodyOf(Start, h) = <<>>
           /\ Start.manual = <<>>
<1>1. Start \in Parsers /\ Start.region = Outside
  <2>1. <<>> \in Seq(FileLines)
    OBVIOUS
  <2> QED
    BY <2>1, ParseOfText
<1>2. Start.blocks = <<>> /\ Start.manual = <<>>
  BY DEF Start
<1>3. DOMAIN Start.blocks = {}
  BY <1>2
<1>4. <<>> \in Seq(BodyLines)
  OBVIOUS
<1>5. Tidy(Start)
  BY <1>1, <1>2, <1>3, <1>4 DEF Tidy, Plain, Distinct, IsTrimmed
<1>6. \A h : BodyOf(Start, h) = <<>>
  BY <1>3 DEF BodyOf, Blocks
<1>7. \A r : ShownUpTo(cs, 0, r) = <<>>
  BY ShownSteps
<1> QED
  BY <1>1, <1>2, <1>5, <1>6, <1>7 DEF Reads

LEMMA ChunkIsRead ==
    ASSUME NEW cs \in Seq(Chunks), NEW n \in 0 .. Len(cs) - 1, NEW p, Reads(p, cs, n)
    PROVE  /\ ChunkText(cs[n + 1]) \in Seq(FileLines)
           /\ Reads(Run(p, ChunkText(cs[n + 1])), cs, n + 1)
<1> DEFINE c == cs[n + 1]
           q == Run(p, ChunkText(c))
<1>1. /\ Tidy(p) /\ p \in Parsers /\ p.region = Outside
      /\ \A h \in Hosts : BodyOf(p, h) = ShownUpTo(cs, n, h)
      /\ OneManual(cs) => p.manual = ShownUpTo(cs, n, Manual)
  BY DEF Reads, Tidy, Plain
<1>2. c \in Chunks /\ n + 1 \in DOMAIN cs /\ Len(cs) \in Nat
  OBVIOUS
<1>3. \A r : ShownUpTo(cs, n + 1, r) = IF c.region = r /\ ShownUpTo(cs, n, r) = <<>>
                                       THEN Trimmed(c.body) ELSE ShownUpTo(cs, n, r)
  BY ShownSteps
<1>4. /\ c.body \in Seq(BodyLines)
      /\ \/ c.region \in Hosts \cup {Manual} /\ ChunkText(c) = RegionText(c.region, c.body)
         \/ c.region = Outside /\ \E line \in BodyLines : ChunkText(c) = <<line>>
  BY <1>2, ChunkKinds
<1>5. Trimmed(c.body) \in Seq(BodyLines) /\ IsTrimmed(Trimmed(c.body))
  BY <1>4, TrimmedStarts
<1>6. Hosts \subseteq Names /\ Manual \notin Hosts /\ Outside \notin Hosts /\ Manual # Outside
  BY NamesApart DEF Names, Marked, Manual, Outside
<1> HIDE DEF c
<1>7. CASE c.region = Outside /\ \E line \in BodyLines : ChunkText(c) = <<line>>
  <2>1. q = p /\ ChunkText(c) \in Seq(FileLines)
    BY <1>1, <1>7, LooseIsSkipped
  <2>2. \A r \in Hosts \cup {Manual} : ShownUpTo(cs, n + 1, r) = ShownUpTo(cs, n, r)
    BY <1>3, <1>6, <1>7
  <2> HIDE DEF q
  <2>3. Reads(q, cs, n + 1)
    BY <1>1, <2>1, <2>2 DEF Reads
  <2> QED
    BY <2>1, <2>3 DEF q, c
<1>8. CASE c.region = Manual /\ ChunkText(c) = RegionText(c.region, c.body)
  <2>1. /\ ChunkText(c) \in Seq(FileLines) /\ q \in Parsers /\ q.region = Outside
        /\ q.blocks = p.blocks /\ q.manual = Trimmed(c.body)
    <3>1. Manual \in Marked
      BY DEF Marked
    <3>2. ChunkText(c) = RegionText(Manual, c.body) /\ c.body \in Seq(BodyLines)
      BY <1>4, <1>8
    <3> DEFINE b == c.body
    <3> HIDE DEF b
    <3>3. LET t == Run(p, RegionText(Manual, b))
          IN  /\ RegionText(Manual, b) \in Seq(FileLines) /\ t \in Parsers /\ t.region = Outside
              /\ t.blocks = p.blocks /\ t.manual = Trimmed(b)
      BY <1>1, <3>1, <3>2, RegionIsRead DEF b
    <3> QED
      BY <3>2, <3>3 DEF b
  <2> HIDE DEF q
  <2>2. Tidy(q)
    BY <1>1, <1>5, <2>1 DEF Tidy, Plain
  <2>3. ASSUME NEW h \in Hosts PROVE BodyOf(q, h) = ShownUpTo(cs, n + 1, h)
    <3>1. BodyOf(q, h) = BodyOf(p, h)
      BY <2>1 DEF BodyOf, Blocks
    <3>2. ShownUpTo(cs, n + 1, h) = ShownUpTo(cs, n, h)
      BY <1>3, <1>6, <1>8
    <3> QED
      BY <1>1, <3>1, <3>2
  <2>4. ASSUME OneManual(cs) PROVE q.manual = ShownUpTo(cs, n + 1, Manual)
    <3> DEFINE earlier == Filled(cs, Manual) \cap (1 .. n)
    <3>1. ASSUME NEW i \in earlier PROVE FALSE
      <4>1. i \in DOMAIN cs /\ cs[i].region = Manual /\ i \in 1 .. n
        BY <3>1 DEF Filled
      <4>2. i = n + 1
        BY <1>2, <1>8, <2>4, <4>1 DEF OneManual, c
      <4> QED
        BY <4>1, <4>2
    <3>2. ShownUpTo(cs, n, Manual) = <<>>
      BY <3>1 DEF ShownUpTo
    <3> QED
      BY <1>3, <1>8, <2>1, <3>2
  <2>5. Reads(q, cs, n + 1)
    BY <2>2, <2>3, <2>4 DEF Reads
  <2> QED
    BY <2>1, <2>5 DEF q, c
<1>9. CASE c.region \in Hosts /\ ChunkText(c) = RegionText(c.region, c.body)
  <2> DEFINE h == c.region
  <2>0. h \in Names /\ h \in Marked /\ h \in Hosts /\ h # Manual
    BY <1>6, <1>9 DEF Marked
  <2>1. /\ ChunkText(c) \in Seq(FileLines) /\ q \in Parsers /\ q.region = Outside
        /\ q.blocks = Collapse(p.blocks, [host |-> h, body |-> Trimmed(c.body)])
        /\ q.manual = p.manual
    BY <1>1, <1>4, <1>9, <2>0, RegionIsRead
  <2> HIDE DEF q, h
  <2>2. /\ Tidy(q)
        /\ BodyOf(q, h) = IF BodyOf(p, h) = <<>> THEN Trimmed(c.body) ELSE BodyOf(p, h)
        /\ \A k : k # h => BodyOf(q, k) = BodyOf(p, k)
    BY <1>1, <1>5, <2>0, <2>1, CollapseKeeps
  <2>3. ASSUME NEW k \in Hosts PROVE BodyOf(q, k) = ShownUpTo(cs, n + 1, k)
    <3>1. CASE k = h
      BY <1>1, <1>3, <2>0, <2>2, <3>1 DEF h
    <3>2. CASE k # h
      BY <1>1, <1>3, <2>2, <3>2 DEF h
    <3> QED
      BY <3>1, <3>2
  <2>4. OneManual(cs) => q.manual = ShownUpTo(cs, n + 1, Manual)
    BY <1>1, <1>3, <2>0, <2>1 DEF h
  <2>5. Reads(q, cs, n + 1)
    BY <2>2, <2>3, <2>4 DEF Reads
  <2> QED
    BY <2>1, <2>5 DEF q, c
<1> QED
  BY <1>4, <1>7, <1>8, <1>9

LEMMA TextIsRead ==
    ASSUME NEW cs \in Seq(Chunks)
    PROVE  /\ Reads(Parse(TextOfChunks(cs)), cs, Len(cs))
           /\ TextOfChunks(cs) # <<>>
<1> DEFINE N == Len(cs)
           parts == [i \in DOMAIN cs |-> ChunkText(cs[i])]
           chunks == FlattenSeq(parts)
<1>1. N \in Nat /\ DOMAIN cs = 1 .. N
  OBVIOUS
<1>2. Reads(Start, cs, 0) /\ Start \in Parsers
  BY StartReads
<1>3. \A i \in 1 .. N : ChunkText(cs[i]) \in Seq(FileLines)
  <2>1. \A r \in Marked, b \in Seq(BodyLines) : RegionText(r, b) \in Seq(FileLines)
    BY StartReads, RegionIsRead
  <2>2. \A line \in BodyLines : <<line>> \in Seq(FileLines)
    BY LineKinds
  <2>3. \A r \in Hosts \cup {Manual} : r \in Marked
    BY DEF Marked, Names
  <2>4. \A i \in 1 .. N : cs[i] \in Chunks
    BY <1>1
  <2>5. ASSUME NEW c \in Chunks PROVE ChunkText(c) \in Seq(FileLines)
    BY <2>1, <2>2, <2>3, ChunkKinds
  <2> QED
    BY <2>4, <2>5
<1>4. parts \in Seq(Seq(FileLines)) /\ Len(parts) = N
  <2>1. parts \in [1 .. N -> Seq(FileLines)]
    BY <1>1, <1>3
  <2> HIDE DEF parts
  <2> QED
    BY <1>1, <2>1, SeqDef
<1>5. PICK g \in [0 .. N -> Seq(FileLines)] : PutTogether(g, parts)
  <2> HIDE DEF parts
  <2> QED
    BY <1>4, FlattenSteps
<1> DEFINE P == {n \in 0 .. N : Reads(Run(Start, g[n]), cs, n)}
<1>6. 0 \in P
  <2>1. g[0] = <<>> /\ Run(Start, <<>>) = Start
    BY <1>2, <1>5, LineKinds, RunOne DEF PutTogether
  <2> QED
    BY <1>1, <1>2, <2>1
<1>7. ASSUME NEW n \in 0 .. N - 1, n \in P PROVE n + 1 \in P
  <2>1. n + 1 \in 1 .. N /\ n + 1 \in 0 .. N /\ (n + 1) - 1 = n /\ n \in 0 .. N
    BY <1>1
  <2>2. g[n + 1] = g[n] \o parts[n + 1]
    BY <1>4, <1>5, <2>1 DEF PutTogether
  <2>3. parts[n + 1] = ChunkText(cs[n + 1])
    BY <1>1, <2>1
  <2>4. g[n] \in Seq(FileLines) /\ parts[n + 1] \in Seq(FileLines)
    BY <1>3, <1>5, <2>1, <2>3
  <2> HIDE DEF parts
  <2>5. Run(Start, g[n + 1]) = Run(Run(Start, g[n]), ChunkText(cs[n + 1]))
    BY <1>2, <2>2, <2>3, <2>4, RunParts
  <2>6. Reads(Run(Start, g[n]), cs, n)
    BY <1>7
  <2>7. Reads(Run(Start, g[n + 1]), cs, n + 1)
    BY <2>5, <2>6, ChunkIsRead
  <2> QED
    BY <2>1, <2>7
<1>8. Reads(Run(Start, chunks), cs, N) /\ chunks \in Seq(FileLines)
  <2>1. N \in 0 .. N
    BY <1>1
  <2>2. N \in P
    <3> HIDE DEF P, N
    <3> QED
      BY <1>1, <1>6, <1>7, <2>1, Upward
  <2>3. g[N] = chunks
    <3> HIDE DEF parts
    <3> QED
      BY <1>4, <1>5 DEF PutTogether
  <2> HIDE DEF chunks
  <2> QED
    BY <1>5, <2>1, <2>2, <2>3
<1>9. TextOfChunks(cs) = Head3 \o chunks
  BY DEF TextOfChunks
<1> HIDE DEF chunks
<1>10. Parse(TextOfChunks(cs)) = Run(Start, chunks) /\ TextOfChunks(cs) # <<>>
  <2>1. Parse(TextOfChunks(cs)) = Finish(Run(Start, chunks)) /\ TextOfChunks(cs) # <<>>
    BY <1>8, <1>9, ParseOfText
  <2>2. Run(Start, chunks) \in Parsers /\ Run(Start, chunks).region = Outside
    BY <1>8 DEF Reads, Tidy, Plain
  <2> QED
    BY <2>1, <2>2, FinishTyped
<1> QED
  BY <1>8, <1>10

\* A text that an edit finds, or the file that is not there.
LEMMA FoundIsRead ==
    ASSUME NEW cs \in Seq(Chunks), NEW text \in Found(cs)
    PROVE  LET p == IF text = <<>> THEN Start ELSE Parse(text)
           IN  /\ Tidy(p)
               /\ \A h \in Hosts : BodyOf(p, h) = FirstShown(cs, h)
               /\ OneManual(cs) => p.manual = FirstShown(cs, Manual)
<1>1. CASE text = TextOfChunks(cs)
  <2>1. text # <<>> /\ Reads(Parse(text), cs, Len(cs))
    BY <1>1, TextIsRead
  <2> QED
    BY <2>1, ShownSteps DEF Reads
<1>2. CASE text = <<>> /\ cs = <<>>
  <2>1. Len(cs) = 0
    BY <1>2
  <2>2. Reads(Start, cs, Len(cs))
    BY <2>1, StartReads
  <2> QED
    BY <1>2, <2>2, ShownSteps DEF Reads
<1> QED
  BY <1>1, <1>2 DEF Found

(***************************************************************************)
(* The edits                                                               *)
(***************************************************************************)

\* What the first filled region of a host shows is one of the things its regions show.
LEMMA FirstKeeps ==
    ASSUME NEW cs \in Seq(Chunks), NEW others, NEW p,
           \A k \in others : BodyOf(p, k) = FirstShown(cs, k)
    PROVE  Keeps(p, cs, others)
<1> SUFFICES ASSUME NEW k \in others
             PROVE  IF Shows(cs, k) = {} THEN BodyOf(p, k) = <<>> ELSE BodyOf(p, k) \in Shows(cs, k)
  BY DEF Keeps
<1>1. CASE Filled(cs, k) = {}
  BY <1>1 DEF Shows, FirstShown
<1>2. CASE Filled(cs, k) # {}
  <2>1. Filled(cs, k) \subseteq Nat
    BY DEF Filled
  <2>2. First(Filled(cs, k)) \in Filled(cs, k)
    BY <1>2, <2>1, FirstIs
  <2>3. BodyOf(p, k) = Trimmed(cs[First(Filled(cs, k))].body)
    BY <1>2 DEF FirstShown
  <2> QED
    BY <2>2, <2>3 DEF Shows
<1> QED
  BY <1>1, <1>2

LEMMA SetAutoLocal ==
    ASSUME NEW cs \in Seq(Chunks), NEW text \in Found(cs), NEW h \in Hosts,
           NEW body \in Seq(BodyLines)
    PROVE  SetAutoIsLocal(cs, text, h, body)
<1> DEFINE p == IF text = <<>> THEN Start ELSE Parse(text)
           w == WithBlock(p, h, body)
           q == Parse(Render(w))
<1>1. /\ Tidy(p) /\ Plain(p)
      /\ \A k \in Hosts : BodyOf(p, k) = FirstShown(cs, k)
      /\ OneManual(cs) => p.manual = FirstShown(cs, Manual)
  BY FoundIsRead DEF Tidy
<1>2. h \in Names
  BY DEF Names
<1>3. SetAutoIn(text, h, body) = Render(w)
  BY DEF SetAutoIn
<1> HIDE DEF p
<1>4. /\ Plain(w) /\ w.manual = p.manual /\ BodyOf(w, h) = body
      /\ \A k : k # h => BodyOf(w, k) = BodyOf(p, k)
  BY <1>1, <1>2, WithBlockKeeps
<1> HIDE DEF w
<1>5. q.manual = Trimmed(w.manual) /\ \A k : BodyOf(q, k) = Trimmed(BodyOf(w, k))
  BY <1>4, RenderIsRead, BodiesAreRead
<1>6. \A k : Trimmed(BodyOf(p, k)) = BodyOf(p, k) /\ Trimmed(p.manual) = p.manual
  BY <1>1, TidyBodies
<1> HIDE DEF q
<1>7. BodyOf(q, h) = Trimmed(body)
  BY <1>4, <1>5
<1>8. \A k \in Hosts \ {h} : BodyOf(q, k) = FirstShown(cs, k)
  BY <1>1, <1>4, <1>5, <1>6
<1>9. OneManual(cs) => q.manual = FirstShown(cs, Manual)
  BY <1>1, <1>4, <1>5, <1>6
<1>10. Keeps(q, cs, Hosts \ {h})
  BY <1>8, FirstKeeps
<1> QED
  BY <1>3, <1>7, <1>9, <1>10 DEF SetAutoIsLocal, q

LEMMA AddManualLocal ==
    ASSUME NEW cs \in Seq(Chunks), NEW text \in Found(cs), NEW x \in Lines
    PROVE  AddManualIsLocal(cs, text, Line(x))
<1> DEFINE found == IF text = <<>> THEN Start ELSE Parse(text)
           p == IF text = <<>> THEN WithBlock(Start, "default", <<>>) ELSE Parse(text)
           item == Line(x)
           w == [p EXCEPT !.manual = Append(@, item)]
           q == Parse(Render(w))
<1>1. /\ Tidy(found) /\ Plain(found)
      /\ \A k \in Hosts : BodyOf(found, k) = FirstShown(cs, k)
      /\ OneManual(cs) => found.manual = FirstShown(cs, Manual)
  BY FoundIsRead DEF Tidy
<1>2. AddManualTo(text, item) = Render(w)
  BY DEF AddManualTo
<1>3. /\ Plain(p) /\ p.manual = found.manual
      /\ \A k : BodyOf(p, k) = BodyOf(found, k)
  <2>1. CASE text = <<>>
    <3> DEFINE none == <<>>
    <3>1. "default" \in Names /\ none \in Seq(BodyLines) /\ p = WithBlock(found, "default", none)
      BY <2>1 DEF Names
    <3>3. BodyOf(found, "default") = none
      BY <2>1, StartReads
    <3> HIDE DEF p, found, none
    <3>2. /\ Plain(p) /\ p.manual = found.manual /\ BodyOf(p, "default") = none
          /\ \A k : k # "default" => BodyOf(p, k) = BodyOf(found, k)
      BY <1>1, <3>1, WithBlockKeeps
    <3> QED
      BY <3>2, <3>3
  <2>2. CASE text # <<>>
    BY <1>1, <2>2
  <2> QED
    BY <2>1, <2>2
<1>4. item \in BodyLines /\ item # Empty
  BY NamesApart DEF BodyLines
<1>5. IsTrimmed(found.manual) /\ found.manual \in Seq(BodyLines)
  BY <1>1 DEF Tidy, Plain
<1> HIDE DEF p, found, item
<1>6. /\ p \in Parsers /\ p.region = Outside /\ p.manual \in Seq(BodyLines)
  BY <1>3 DEF Plain
<1>7. Append(p.manual, item) \in Seq(BodyLines) /\ IsTrimmed(Append(p.manual, item))
  BY <1>3, <1>4, <1>5, <1>6 DEF IsTrimmed
<1>8. Append(p.manual, item) \in Seq(FileLines)
  BY <1>7, LineKinds, SeqDef
<1>9. /\ w \in Parsers /\ w.region = Outside /\ w.blocks = p.blocks
      /\ w.manual = Append(p.manual, item)
  BY <1>6, <1>8 DEF Parsers
<1> HIDE DEF w
<1>10. Plain(w) /\ \A k : BodyOf(w, k) = BodyOf(p, k)
  BY <1>3, <1>7, <1>9 DEF Plain, BodyOf, Blocks
<1>11. q.manual = Trimmed(w.manual) /\ \A k : BodyOf(q, k) = Trimmed(BodyOf(w, k))
  BY <1>10, RenderIsRead, BodiesAreRead
<1>12. \A k : Trimmed(BodyOf(found, k)) = BodyOf(found, k)
  BY <1>1, TidyBodies
<1>13. Trimmed(w.manual) = w.manual
  BY <1>7, <1>9, TrimmedStarts
<1> HIDE DEF q
<1>14. \A k \in Hosts : BodyOf(q, k) = FirstShown(cs, k)
  BY <1>1, <1>3, <1>10, <1>11, <1>12
<1>15. OneManual(cs) => q.manual = Append(FirstShown(cs, Manual), item)
  BY <1>1, <1>3, <1>9, <1>11, <1>13
<1>16. Keeps(q, cs, Hosts)
  BY <1>14, FirstKeeps
<1> QED
  BY <1>2, <1>15, <1>16 DEF AddManualIsLocal, q, item

\* What is written again is what was written.
LEMMA SetAutoSettles ==
    ASSUME NEW cs \in Seq(Chunks), NEW text \in Found(cs), NEW h \in Hosts,
           NEW body \in Seq(BodyLines)
    PROVE  SetAutoIn(SetAutoIn(text, h, body), h, body) = SetAutoIn(text, h, body)
<1> DEFINE p == IF text = <<>> THEN Start ELSE Parse(text)
           w == WithBlock(p, h, body)
           once == Render(w)
           q == Parse(once)
           v == WithBlock(q, h, body)
<1>1. Tidy(p) /\ Plain(p)
  BY FoundIsRead DEF Tidy
<1>2. h \in Names
  BY DEF Names
<1>3. SetAutoIn(text, h, body) = once
  BY DEF SetAutoIn
<1> HIDE DEF p
<1>4. /\ Plain(w) /\ w.manual = p.manual
      /\ \E i \in DOMAIN w.blocks : w.blocks[i].host = h
      /\ \A i \in DOMAIN w.blocks :
            w.blocks[i].host # h => i \in DOMAIN p.blocks /\ w.blocks[i] = p.blocks[i]
      /\ BodyOf(w, h) = body
  BY <1>1, <1>2, WithBlockKeeps
<1> HIDE DEF w
<1>5. /\ once # <<>> /\ q.manual = Trimmed(w.manual)
      /\ q.blocks = [i \in DOMAIN w.blocks |-> TrimmedBlock(w.blocks[i])]
  BY <1>4, RenderIsRead
<1>6. q.manual = w.manual
  BY <1>1, <1>4, <1>5, TidyBodies
<1> HIDE DEF q
<1>7. /\ v.manual = q.manual
      /\ v.blocks = [i \in DOMAIN q.blocks |-> IF q.blocks[i].host = h
                                               THEN [q.blocks[i] EXCEPT !.body = body]
                                               ELSE q.blocks[i]]
  <2>1. q \in Parsers
    BY <1>4, RenderIsRead DEF q
  <2>2. \E i \in DOMAIN q.blocks : q.blocks[i].host = h
    BY <1>4, <1>5 DEF TrimmedBlock
  <2> QED
    BY <2>1, <2>2 DEF WithBlock, Parsers
<1>8. ASSUME NEW i \in DOMAIN w.blocks
      PROVE  (IF q.blocks[i].host = h THEN [q.blocks[i] EXCEPT !.body = body] ELSE q.blocks[i])
             = w.blocks[i]
  <2>1. w \in Parsers /\ Distinct(w.blocks)
    BY <1>4 DEF Plain
  <2>2. w.blocks[i] \in BlockTypes
    BY <2>1, BlocksTyped
  <2>3. q.blocks[i] = TrimmedBlock(w.blocks[i])
    BY <1>5
  <2>4. CASE w.blocks[i].host = h
    <3>1. w.blocks[i].body = body
      BY <1>4, <2>1, <2>4, BodyOfIs
    <3>2. w.blocks[i] = [host |-> h, body |-> body]
      BY <2>2, <2>4, <3>1 DEF BlockTypes
    <3>3. q.blocks[i].host = h /\ [q.blocks[i] EXCEPT !.body = body] = [host |-> h, body |-> body]
      BY <2>3, <2>4 DEF TrimmedBlock
    <3> QED
      BY <3>2, <3>3
  <2>5. CASE w.blocks[i].host # h
    <3>1. i \in DOMAIN p.blocks /\ w.blocks[i] = p.blocks[i]
      BY <1>4, <2>5
    <3>2. p.blocks[i].body \in Seq(BodyLines) /\ IsTrimmed(p.blocks[i].body)
      BY <1>1, <3>1 DEF Tidy, Plain
    <3>3. Trimmed(w.blocks[i].body) = w.blocks[i].body
      BY <3>1, <3>2, TrimmedStarts
    <3>4. TrimmedBlock(w.blocks[i]) = w.blocks[i]
      BY <2>2, <3>3 DEF TrimmedBlock, BlockTypes
    <3> QED
      BY <2>3, <2>5, <3>4
  <2> QED
    BY <2>4, <2>5
<1>9. v.blocks = w.blocks
  <2>1. DOMAIN q.blocks = DOMAIN w.blocks
    BY <1>5
  <2>2. w.blocks = [i \in DOMAIN w.blocks |-> w.blocks[i]]
    <3>1. w.blocks \in Seq(BlockTypes)
      BY <1>4, BlocksTyped DEF Plain
    <3> QED
      BY <3>1
  <2> QED
    BY <1>7, <1>8, <2>1, <2>2
<1>10. SetAutoIn(once, h, body) = Render(v)
  BY <1>5 DEF SetAutoIn, q
<1>11. Render(v) = Render(w)
  <2> HIDE DEF v
  <2> QED
    BY <1>6, <1>7, <1>9 DEF Render
<1> QED
  BY <1>3, <1>10, <1>11

LEMMA LayoutsAreLists ==
    /\ \A cs \in BoundedSeq(Chunks, MaxChunks) : cs \in Seq(Chunks)
    /\ \A body \in WrittenBodies : body \in Seq(BodyLines)
<1>1. MaxChunks \in Nat /\ MaxBody \in Nat
  BY NamesApart
<1> QED
  BY <1>1, BoundedLists DEF WrittenBodies, RegionBodies

\* EditsAreLocal, with as many regions and lines as there may be.
LEMMA EditsLocal == EditsAreLocal
<1>1. ASSUME NEW cs \in Seq(Chunks), NEW text \in Found(cs)
      PROVE  /\ \A h \in Hosts, body \in WrittenBodies : SetAutoIsLocal(cs, text, h, body)
             /\ \A x \in Lines : AddManualIsLocal(cs, text, Line(x))
  BY <1>1, LayoutsAreLists, SetAutoLocal, AddManualLocal
<1> QED
  BY <1>1, LayoutsAreLists DEF EditsAreLocal

\* Whatever a union merge or a user leaves in the file, regions twice, in any order, empty or
\* with lines of nobody between them: set_auto and add_manual leave another host what all its
\* filled regions show, or, where these differ, one of them whole.
THEOREM OthersAreKept == Spec => []EditsKeepTheRest
<1>1. EditsKeepTheRest
  BY EditsLocal DEF EditsKeepTheRest
<1> QED BY <1>1, PTL

\* EditsSettle, with as many regions and lines as there may be.
LEMMA EditsDoSettle == EditsSettle
BY LayoutsAreLists, SetAutoSettles DEF EditsSettle

\* A compile that says what is there already writes the very same bytes.
THEOREM EditsComeToRest == Spec => []EditsAreStable
<1>1. EditsAreStable
  BY EditsDoSettle DEF EditsAreStable
<1> QED BY <1>1, PTL

=============================================================================
