--------------------------- MODULE GitSync_proofs ---------------------------
(***************************************************************************)
(* What the dailies repository keeps and keeps out, for any number of       *)
(* machines, bodies, conflicts, killed calls and deaths.                   *)
(***************************************************************************)
EXTENDS GitSync, TLAPS

\* t has nothing of a machine that u has not.
Below(t, u) == \A h \in Hosts : t.ver[h] <= u.ver[h]

Clean(t) == t.marked = FALSE

\* t has no body that its machine did not render.
Known(t, r) == \A h \in Hosts : t.ver[h] <= r[h]

-----------------------------------------------------------------------------
(* Texts *)

LEMMA TextFields ==
    ASSUME NEW t \in Texts
    PROVE  /\ t.ver \in [Hosts -> Versions]
           /\ t.marked \in BOOLEAN
           /\ \A h \in Hosts : t.ver[h] \in Nat
BY GitSyncAssumption DEF Texts, Versions

LEMMA EmptyText ==
    /\ NoText \in Texts
    /\ Clean(NoText)
    /\ \A h \in Hosts : NoText.ver[h] = 0
BY GitSyncAssumption DEF NoText, Clean, Texts, Versions

\* A merge has everything of both sides, and markers only from them.
LEMMA MergeKeepsBoth ==
    ASSUME NEW s \in Texts, NEW t \in Texts
    PROVE  /\ Merge(s, t) \in Texts
           /\ Below(s, Merge(s, t)) /\ Below(t, Merge(s, t))
           /\ Merge(s, t).marked = (s.marked \/ t.marked)
<1>1. /\ s.ver \in [Hosts -> Versions] /\ t.ver \in [Hosts -> Versions]
      /\ s.marked \in BOOLEAN /\ t.marked \in BOOLEAN
  BY DEF Texts
<1>2. \A h \in Hosts : Newer(s.ver[h], t.ver[h]) \in Versions
  BY <1>1 DEF Newer
<1>3. Merge(s, t) \in Texts
  BY <1>1, <1>2 DEF Merge, Texts
<1>4. \A h \in Hosts : Merge(s, t).ver[h] = Newer(s.ver[h], t.ver[h])
  BY DEF Merge
<1>5. \A m, n \in Versions : m <= Newer(m, n) /\ n <= Newer(m, n)
  BY GitSyncAssumption DEF Newer, Versions
<1>6. Below(s, Merge(s, t)) /\ Below(t, Merge(s, t))
  BY <1>1, <1>4, <1>5 DEF Below
<1> QED BY <1>3, <1>6 DEF Merge

LEMMA MergeIsKnown ==
    ASSUME NEW s \in Texts, NEW t \in Texts, NEW r, Known(s, r), Known(t, r)
    PROVE  Known(Merge(s, t), r)
<1>1. \A h \in Hosts : Merge(s, t).ver[h] = Newer(s.ver[h], t.ver[h])
  BY DEF Merge
<1> QED BY <1>1 DEF Known, Newer

\* A merge that keeps a text up to date on both sides keeps the order.
LEMMA MergeIsMonotone ==
    ASSUME NEW s \in Texts, NEW t \in Texts, NEW u \in Texts, Below(s, t)
    PROVE  Below(Merge(s, u), Merge(t, u))
<1>1. \A h \in Hosts : /\ s.ver[h] \in Nat /\ t.ver[h] \in Nat /\ u.ver[h] \in Nat
  BY TextFields
<1>2. \A h \in Hosts : /\ Merge(s, u).ver[h] = Newer(s.ver[h], u.ver[h])
                       /\ Merge(t, u).ver[h] = Newer(t.ver[h], u.ver[h])
  BY DEF Merge
<1> QED BY <1>1, <1>2 DEF Below, Newer

LEMMA BelowIsTransitive ==
    ASSUME NEW s \in Texts, NEW t \in Texts, NEW u \in Texts, Below(s, t), Below(t, u)
    PROVE  Below(s, u)
<1>1. \A h \in Hosts : /\ s.ver[h] \in Nat /\ t.ver[h] \in Nat /\ u.ver[h] \in Nat
  BY TextFields
<1> QED BY <1>1 DEF Below

LEMMA BelowIsReflexive ==
    ASSUME NEW s \in Texts PROVE Below(s, s)
BY TextFields DEF Below

\* Markers change no block.
LEMMA MarkersKeepBlocks ==
    ASSUME NEW t \in Texts
    PROVE  /\ Marked(t) \in Texts /\ Unmarked(t) \in Texts
           /\ Marked(t).ver = t.ver /\ Unmarked(t).ver = t.ver
           /\ Marked(t).marked /\ ~Unmarked(t).marked
BY DEF Texts, Marked, Unmarked

-----------------------------------------------------------------------------
(* Types *)

Shapes ==
    /\ work \in [Hosts -> Texts] /\ head \in [Hosts -> Texts]
    /\ base \in [Hosts -> Texts] /\ saved \in [Hosts -> Texts]
    /\ unmerged \in [Hosts -> BOOLEAN] /\ rebasing \in [Hosts -> BOOLEAN]
    /\ rule \in [Hosts -> BOOLEAN] /\ failed \in [Hosts -> BOOLEAN]
    /\ cut \in [Hosts -> BOOLEAN]
    /\ remote \in Texts
    /\ pc \in [Hosts -> PCs]
    /\ kind \in [Hosts -> Kinds]
    /\ rendered \in [Hosts -> Versions]

(***************************************************************************)
(* What every step relies on.  Markers sit in working trees only, and a     *)
(* file that goes into a commit has been looked at.  A branch contains what *)
(* it is built on; the working tree, or what an abort will bring back,      *)
(* contains the branch.                                                    *)
(***************************************************************************)
MarkersInTreesOnly(h) ==
    /\ Clean(head[h]) /\ Clean(saved[h])
    /\ unmerged[h] \/ Clean(work[h])
    /\ pc[h] = "commit" => Clean(work[h])

OnBranch(h) == pc[h] \in {"filter", "commit"} => ~rebasing[h]

OwnBodies(h) ==
    /\ Known(work[h], rendered)
    /\ Known(head[h], rendered)
    /\ Known(saved[h], rendered)

Layers(h) ==
    /\ Below(base[h], head[h])
    /\ ~rebasing[h] => Below(head[h], work[h])
    /\ rebasing[h] => Below(head[h], saved[h])

HostSafe(h) == MarkersInTreesOnly(h) /\ OnBranch(h) /\ OwnBodies(h) /\ Layers(h)

SafeInv ==
    /\ Shapes
    /\ Clean(remote) /\ Known(remote, rendered)
    /\ \A h \in Hosts : HostSafe(h)

LEMMA InitSafe == Init => SafeInv
<1> SUFFICES ASSUME Init PROVE SafeInv
  OBVIOUS
<1>1. Shapes
  <2>1. 0 \in Versions
    BY GitSyncAssumption DEF Versions
  <2> QED BY <2>1, EmptyText DEF Init, Shapes, PCs, Kinds
<1>2. \A h \in Hosts : /\ work[h] = NoText /\ head[h] = NoText
                       /\ base[h] = NoText /\ saved[h] = NoText /\ rendered[h] = 0
  BY DEF Init
<1>3. Known(NoText, rendered)
  BY <1>2, EmptyText DEF Known
<1> QED
  BY <1>1, <1>2, <1>3, EmptyText, BelowIsReflexive
     DEF Init, SafeInv, HostSafe, MarkersInTreesOnly, OnBranch, OwnBodies, Layers

\* What was known stays known when another body is rendered.
LEMMA KnownStays ==
    ASSUME NEW t \in Texts, NEW r \in [Hosts -> Versions], NEW q \in [Hosts -> Versions],
           \A h \in Hosts : r[h] <= q[h], Known(t, r)
    PROVE  Known(t, q)
<1>1. \A h \in Hosts : t.ver[h] \in Nat /\ r[h] \in Nat /\ q[h] \in Nat
  BY TextFields, GitSyncAssumption DEF Versions
<1> QED BY <1>1 DEF Known

-----------------------------------------------------------------------------
(* A step of one machine leaves the others alone *)

OnlyHost(h) ==
    /\ Shapes'
    /\ UNCHANGED rendered
    /\ Clean(remote') /\ Known(remote', rendered)
    /\ \A g \in Hosts \ {h} :
          /\ work'[g] = work[g] /\ head'[g] = head[g]
          /\ base'[g] = base[g] /\ saved'[g] = saved[g]
          /\ unmerged'[g] = unmerged[g] /\ rebasing'[g] = rebasing[g]
          /\ pc'[g] = pc[g]

LEMMA HostStep ==
    ASSUME NEW h \in Hosts
    PROVE  SafeInv /\ OnlyHost(h) /\ HostSafe(h)' => SafeInv'
<1> SUFFICES ASSUME SafeInv, OnlyHost(h), HostSafe(h)' PROVE SafeInv'
  OBVIOUS
<1>1. ASSUME NEW g \in Hosts \ {h} PROVE HostSafe(g)'
  BY <1>1 DEF SafeInv, OnlyHost, HostSafe, MarkersInTreesOnly, OnBranch, OwnBodies, Layers
<1> QED BY <1>1 DEF SafeInv, OnlyHost

-----------------------------------------------------------------------------
(* Steps that leave every text alone *)

LEMMA QuietActions ==
    ASSUME SafeInv, NEW h \in Hosts,
           \/ Start(h) \/ PullFails(h) \/ InspectIndex(h) \/ InspectKilled(h)
           \/ AbortFails(h) \/ AbortKilled(h) \/ RenderSame(h) \/ SkipCompile(h)
           \/ RefuseCommit(h) \/ AcceptCommit(h) \/ CheckKilled(h)
           \/ DropConflicted(h) \/ PushFails(h) \/ Die(h)
    PROVE  SafeInv'
<1> SUFFICES OnlyHost(h) /\ MarkersInTreesOnly(h)' /\ OnBranch(h)'
             /\ UNCHANGED <<work, head, base, saved, rebasing, rendered>>
  BY HostStep DEF SafeInv, HostSafe, OwnBodies, Layers
<1> USE DEF OnlyHost, Set, Goto, Pass, Warn, Shapes, PCs, Kinds, AfterCompile, tree,
            MarkersInTreesOnly, OnBranch
<1>0. Shapes /\ Clean(remote) /\ Known(remote, rendered) /\ OnBranch(h)
      /\ MarkersInTreesOnly(h)
  BY DEF SafeInv, HostSafe
<1>1. CASE Start(h)
  BY <1>0, <1>1 DEF Start
<1>2. CASE PullFails(h)
  BY <1>0, <1>2 DEF PullFails
<1>3. CASE InspectIndex(h)
  BY <1>0, <1>3 DEF InspectIndex
<1>4. CASE InspectKilled(h)
  BY <1>0, <1>4 DEF InspectKilled
<1>5. CASE AbortFails(h)
  BY <1>0, <1>5 DEF AbortFails
<1>6. CASE AbortKilled(h)
  BY <1>0, <1>6 DEF AbortKilled
<1>7. CASE RenderSame(h)
  BY <1>0, <1>7 DEF RenderSame
<1>8. CASE SkipCompile(h)
  BY <1>0, <1>8 DEF SkipCompile
<1>9. CASE RefuseCommit(h)
  BY <1>0, <1>9 DEF RefuseCommit
<1>10. CASE AcceptCommit(h)
  BY <1>0, <1>10 DEF AcceptCommit
<1>11. CASE CheckKilled(h)
  <2>1. CASE ~rebasing[h] /\ Warn(h, "filter")
    BY <1>0, <2>1
  <2>2. CASE Warn(h, "idle")
    BY <1>0, <2>2
  <2> QED BY <1>11, <2>1, <2>2 DEF CheckKilled
<1>12. CASE DropConflicted(h)
  <2>1. CASE ~work[h].marked /\ Pass(h, "commit")
    <3>1. Clean(work[h]) /\ ~rebasing[h]
      BY <1>0, <1>12, <2>1 DEF DropConflicted, Clean, Texts
    <3> QED BY <1>0, <2>1, <3>1
  <2>2. CASE Pass(h, "idle")
    BY <1>0, <2>2
  <2>3. CASE Warn(h, "idle")
    BY <1>0, <2>3
  <2> QED BY <1>12, <2>1, <2>2, <2>3 DEF DropConflicted
<1>13. CASE PushFails(h)
  BY <1>0, <1>13 DEF PushFails
<1>14. CASE Die(h)
  BY <1>0, <1>14 DEF Die
<1> QED
  BY <1>1, <1>2, <1>3, <1>4, <1>5, <1>6, <1>7, <1>8, <1>9, <1>10, <1>11, <1>12, <1>13,
     <1>14

-----------------------------------------------------------------------------
(* Steps that change texts *)

LEMMA CleanMerge ==
    ASSUME NEW s \in Texts, NEW t \in Texts, Clean(s), Clean(t)
    PROVE  Clean(Merge(s, t))
BY MergeKeepsBoth, TextFields DEF Clean

\* What the invariant says of one machine.
LEMMA HostFacts ==
    ASSUME SafeInv, NEW h \in Hosts
    PROVE  /\ Shapes /\ HostSafe(h) /\ Clean(remote) /\ Known(remote, rendered)
           /\ work[h] \in Texts /\ head[h] \in Texts /\ base[h] \in Texts
           /\ saved[h] \in Texts /\ remote \in Texts
BY DEF SafeInv, Shapes

LEMMA PullSafe ==
    ASSUME SafeInv, NEW h \in Hosts,
           \/ PullMerges(h) \/ RebaseConflicts(h) \/ AutostashConflicts(h) \/ PullKilled(h)
    PROVE  SafeInv'
<1> DEFINE nh == Merge(head[h], remote)
           nw == Merge(work[h], remote)
<1>0. /\ Shapes /\ Clean(remote) /\ Known(remote, rendered) /\ HostSafe(h)
      /\ work[h] \in Texts /\ head[h] \in Texts /\ remote \in Texts
  BY HostFacts
<1>1. ~unmerged[h] /\ ~rebasing[h]
  BY DEF PullMerges, RebaseConflicts, AutostashConflicts, PullKilled, PullPossible
<1>2. nh \in Texts /\ nw \in Texts /\ Below(remote, nh)
  BY <1>0, MergeKeepsBoth
<1>3. Clean(nh) /\ Clean(nw) /\ Clean(work[h])
  BY <1>0, <1>1, CleanMerge DEF HostSafe, MarkersInTreesOnly
<1>4. Known(nh, rendered) /\ Known(nw, rendered)
  BY <1>0, MergeIsKnown DEF HostSafe, OwnBodies
<1>5. Below(nh, nw)
  BY <1>0, <1>1, MergeIsMonotone DEF HostSafe, Layers
<1>6. /\ Marked(nh) \in Texts /\ Marked(nw) \in Texts
      /\ Known(Marked(nh), rendered) /\ Known(Marked(nw), rendered)
      /\ Below(nh, Marked(nw))
  BY <1>2, <1>4, <1>5, MarkersKeepBlocks DEF Known, Below
<1> SUFFICES OnlyHost(h) /\ HostSafe(h)'
  BY HostStep
<1> USE DEF OnlyHost, HostSafe, Set, Goto, Shapes, PCs, Kinds,
            MarkersInTreesOnly, OnBranch, OwnBodies, Layers
<1>7. CASE PullMerges(h)
  <2>1. /\ work' = [work EXCEPT ![h] = nw] /\ head' = [head EXCEPT ![h] = nh]
        /\ base' = [base EXCEPT ![h] = remote] /\ pc' = [pc EXCEPT ![h] = "inspect"]
        /\ UNCHANGED <<saved, unmerged, rebasing, rule, remote, kind, failed, rendered, cut>>
    BY <1>7 DEF PullMerges
  <2> QED
    BY <1>0, <1>1, <1>2, <1>3, <1>4, <1>5, <2>1
<1>8. CASE RebaseConflicts(h)
  <2>1. /\ work' = [work EXCEPT ![h] = Marked(nh)] /\ saved' = [saved EXCEPT ![h] = work[h]]
        /\ unmerged' = [unmerged EXCEPT ![h] = TRUE]
        /\ rebasing' = [rebasing EXCEPT ![h] = TRUE]
        /\ failed' = [failed EXCEPT ![h] = TRUE] /\ pc' = [pc EXCEPT ![h] = "inspect"]
        /\ UNCHANGED <<head, base, rule, remote, kind, rendered, cut>>
    BY <1>8 DEF RebaseConflicts
  <2> QED
    BY <1>0, <1>1, <1>3, <1>6, <2>1
<1>9. CASE AutostashConflicts(h)
  <2>1. /\ work' = [work EXCEPT ![h] = Marked(nw)] /\ head' = [head EXCEPT ![h] = nh]
        /\ base' = [base EXCEPT ![h] = remote] /\ pc' = [pc EXCEPT ![h] = "inspect"]
        /\ unmerged' = [unmerged EXCEPT ![h] = TRUE]
        /\ UNCHANGED <<saved, rebasing, rule, remote, kind, failed, rendered, cut>>
    BY <1>9 DEF AutostashConflicts
  <2> QED
    BY <1>0, <1>1, <1>2, <1>3, <1>4, <1>6, <2>1
<1>10. CASE PullKilled(h)
  <2>1. /\ work' = [work EXCEPT ![h] = remote] /\ saved' = [saved EXCEPT ![h] = work[h]]
        /\ rebasing' = [rebasing EXCEPT ![h] = TRUE]
        /\ failed' = [failed EXCEPT ![h] = TRUE] /\ cut' = [cut EXCEPT ![h] = TRUE]
        /\ pc' = [pc EXCEPT ![h] = "inspect"]
        /\ UNCHANGED <<head, base, unmerged, rule, remote, kind, rendered>>
    BY <1>10 DEF PullKilled
  <2> QED
    BY <1>0, <1>1, <1>3, <2>1
<1> QED
  BY <1>7, <1>8, <1>9, <1>10

LEMMA RepairSafe ==
    ASSUME SafeInv, NEW h \in Hosts,
           AbortRebase(h) \/ EnsureAttributes(h) \/ UserResolves(h)
    PROVE  SafeInv'
<1>0. /\ Shapes /\ Clean(remote) /\ Known(remote, rendered) /\ HostSafe(h)
      /\ work[h] \in Texts /\ head[h] \in Texts /\ saved[h] \in Texts
  BY HostFacts
<1>1. /\ NoText \in Texts /\ Clean(NoText) /\ Known(NoText, rendered)
  BY <1>0, EmptyText, GitSyncAssumption DEF Known, Shapes, Versions
<1> SUFFICES OnlyHost(h) /\ HostSafe(h)'
  BY HostStep
<1> USE DEF OnlyHost, HostSafe, Set, Goto, Shapes, PCs, Kinds,
            MarkersInTreesOnly, OnBranch, OwnBodies, Layers
<1>2. CASE AbortRebase(h)
  BY <1>0, <1>1, <1>2 DEF AbortRebase
<1>3. CASE EnsureAttributes(h)
  BY <1>0, <1>3 DEF EnsureAttributes
<1>4. CASE UserResolves(h)
  <2> DEFINE other == IF rebasing[h] THEN saved[h] ELSE head[h]
             both == Merge(work[h], other)
  <2>1. other \in Texts /\ Known(other, rendered) /\ Below(head[h], other)
    BY <1>0, BelowIsReflexive
  <2>2. both \in Texts /\ Known(both, rendered) /\ Below(other, both)
    BY <1>0, <2>1, MergeKeepsBoth, MergeIsKnown
  <2>3. Below(head[h], both)
    BY <1>0, <2>1, <2>2, BelowIsTransitive
  <2>4. /\ Unmarked(both) \in Texts /\ Clean(Unmarked(both))
        /\ Known(Unmarked(both), rendered) /\ Below(head[h], Unmarked(both))
    BY <2>2, <2>3, MarkersKeepBlocks DEF Known, Below, Clean
  <2>5. /\ work' = [work EXCEPT ![h] = Unmarked(both)]
        /\ saved' = [saved EXCEPT ![h] = NoText]
        /\ unmerged' = [unmerged EXCEPT ![h] = FALSE]
        /\ rebasing' = [rebasing EXCEPT ![h] = FALSE]
        /\ UNCHANGED <<head, base, rule, remote, pc, kind, failed, rendered, cut>>
        /\ pc[h] = "idle"
    BY <1>4 DEF UserResolves
  <2> QED
    BY <1>0, <1>1, <2>4, <2>5
<1> QED
  BY <1>2, <1>3, <1>4

LEMMA CommitSafe ==
    ASSUME SafeInv, NEW h \in Hosts,
           AlreadyCommitted(h) \/ CommitFails(h) \/ Commit(h) \/ Push(h)
    PROVE  SafeInv'
<1>0. /\ Shapes /\ Clean(remote) /\ Known(remote, rendered) /\ HostSafe(h)
      /\ work[h] \in Texts /\ head[h] \in Texts /\ base[h] \in Texts
  BY HostFacts
<1> SUFFICES OnlyHost(h) /\ HostSafe(h)'
  BY HostStep
<1> USE DEF OnlyHost, HostSafe, Set, Goto, Shapes, PCs, Kinds,
            MarkersInTreesOnly, OnBranch, OwnBodies, Layers
<1>1. CASE AlreadyCommitted(h)
  BY <1>0, <1>1 DEF AlreadyCommitted
<1>2. CASE CommitFails(h)
  BY <1>0, <1>2 DEF CommitFails
<1>3. CASE Commit(h)
  <2>1. ~rebasing[h] /\ Clean(work[h]) /\ Below(base[h], work[h])
    BY <1>0, <1>3, BelowIsTransitive DEF Commit
  <2> QED
    BY <1>0, <1>3, <2>1, BelowIsReflexive DEF Commit
<1>4. CASE Push(h)
  BY <1>0, <1>4, BelowIsReflexive DEF Push
<1> QED
  BY <1>1, <1>2, <1>3, <1>4

\* A new body is newer than every copy of this machine's block.
LEMMA RenderSafe == ASSUME SafeInv, NEW h \in Hosts, Render(h) PROVE SafeInv'
<1>0. /\ Shapes /\ Clean(remote) /\ Known(remote, rendered) /\ HostSafe(h)
      /\ work[h] \in Texts /\ head[h] \in Texts /\ remote \in Texts
      /\ \A g \in Hosts : HostSafe(g)
  BY HostFacts DEF SafeInv
<1>1. PICK m \in {work[h].marked, FALSE} :
         work' = [work EXCEPT ![h] = [ver |-> [work[h].ver EXCEPT ![h] = rendered[h] + 1],
                                      marked |-> m]]
  BY DEF Render, Set
<1> DEFINE nw == [ver |-> [work[h].ver EXCEPT ![h] = rendered[h] + 1], marked |-> m]
<1>2. /\ rendered' = [rendered EXCEPT ![h] = rendered[h] + 1]
      /\ rendered \in [Hosts -> Versions] /\ rendered' \in [Hosts -> Versions]
      /\ rendered[h] + 1 \in Versions
      /\ \A g \in Hosts : rendered[g] <= rendered'[g]
  BY <1>0, GitSyncAssumption DEF Render, Set, Shapes, Versions
<1>3. nw \in Texts /\ work' = [work EXCEPT ![h] = nw]
  BY <1>0, <1>1, <1>2 DEF Shapes, Texts
<1>4. Known(nw, rendered')
  BY <1>0, <1>2, TextFields, GitSyncAssumption
     DEF Known, HostSafe, OwnBodies, Versions
<1>5. Clean(work[h]) => Clean(nw)
  BY <1>0, <1>1 DEF Clean
<1>6. \A t \in Texts : Below(t, work[h]) /\ Known(t, rendered) => Below(t, nw)
  BY <1>0, <1>2, TextFields, GitSyncAssumption DEF Below, Known, Versions
<1> HIDE DEF nw
<1>7. /\ UNCHANGED <<head, base, saved, unmerged, rebasing, rule, remote, kind, failed, cut>>
      /\ \E l \in {"idle", "check"} : pc' = [pc EXCEPT ![h] = l]
  BY DEF Render, Goto, AfterCompile
<1>8. \A t \in Texts : Known(t, rendered) => Known(t, rendered')
  BY <1>2, KnownStays
<1>9. Shapes'
  BY <1>0, <1>2, <1>3, <1>7 DEF Shapes, PCs
<1>10. Clean(remote') /\ Known(remote', rendered')
  BY <1>0, <1>7, <1>8
<1>11. HostSafe(h)'
  BY <1>0, <1>3, <1>4, <1>5, <1>6, <1>7, <1>8
     DEF Shapes, HostSafe, MarkersInTreesOnly, OnBranch, OwnBodies, Layers
<1>12. ASSUME NEW g \in Hosts \ {h} PROVE HostSafe(g)'
  BY <1>0, <1>3, <1>7, <1>8
     DEF Shapes, HostSafe, MarkersInTreesOnly, OnBranch, OwnBodies, Layers
<1> QED
  BY <1>9, <1>10, <1>11, <1>12 DEF SafeInv

-----------------------------------------------------------------------------
LEMMA StepSafe == SafeInv /\ [Next]_vars => SafeInv'
<1> SUFFICES ASSUME SafeInv, [Next]_vars PROVE SafeInv'
  OBVIOUS
<1>1. ASSUME NEW h \in Hosts, Step(h) PROVE SafeInv'
  BY <1>1, QuietActions, PullSafe, RepairSafe, CommitSafe, RenderSafe DEF Step
<1>2. CASE UNCHANGED vars
  BY <1>2 DEF vars, tree, SafeInv, Shapes, HostSafe, MarkersInTreesOnly, OnBranch,
              OwnBodies, Layers
<1> QED
  BY <1>1, <1>2 DEF Next

\* The inductive invariant holds throughout: it says where a pull, an abort, a commit and
\* a push find each text.
THEOREM Safe == Spec => []SafeInv
<1> QED
  BY InitSafe, StepSafe, PTL DEF Spec

\* The variables of the model keep their types, and markers stay in an unmerged tree.
THEOREM TypeCorrect == Spec => []TypeOK
<1>1. SafeInv => TypeOK
  <2> SUFFICES ASSUME SafeInv PROVE TypeOK
    OBVIOUS
  <2>1. \A h \in Hosts : work[h].marked => unmerged[h]
    BY DEF SafeInv, Shapes, HostSafe, MarkersInTreesOnly, Clean
  <2> QED
    BY <2>1 DEF TypeOK, SafeInv, Shapes
<1> QED
  BY <1>1, Safe, PTL

\* commit_push publishes no conflict markers, whatever git calls are killed, for any
\* number of machines.
THEOREM NothingMarkedIsPublished == Spec => []NoMarkersPublished
<1>1. SafeInv => NoMarkersPublished
  BY DEF SafeInv, HostSafe, MarkersInTreesOnly, Clean, NoMarkersPublished
<1> QED
  BY <1>1, Safe, PTL

-----------------------------------------------------------------------------
(***************************************************************************)
(* What is published.  A machine has another one's block from the remote    *)
(* only, so nowhere in its trees is a newer body of it than on the remote.  *)
(***************************************************************************)

\* Only a push changes the remote, and the branch that it takes is built on what is there.
LEMMA OnlyPushes ==
    ASSUME SafeInv, NEW h \in Hosts, Step(h)
    PROVE  /\ Push(h) \/ remote' = remote
           /\ \A g \in Hosts : remote.ver[g] <= remote'.ver[g]
<1>1. Push(h) \/ remote' = remote
  BY DEF Step, Start, PullFails, PullMerges, RebaseConflicts, AutostashConflicts,
     PullKilled, InspectIndex, InspectKilled, AbortRebase, AbortFails, AbortKilled,
     EnsureAttributes, Render, RenderSame, SkipCompile, RefuseCommit, AcceptCommit,
     CheckKilled, DropConflicted, AlreadyCommitted, CommitFails, Commit, PushFails,
     Die, UserResolves, Warn, Pass
<1>2. Push(h) => Below(remote, remote')
  BY HostFacts DEF Push, HostSafe, Layers
<1>3. Below(remote, remote)
  BY HostFacts, BelowIsReflexive
<1> QED BY <1>1, <1>2, <1>3 DEF Below

OfOthers(h, t) == \A g \in Hosts \ {h} : t.ver[g] <= remote.ver[g]

OthersPublished(h) == OfOthers(h, work[h]) /\ OfOthers(h, head[h]) /\ OfOthers(h, saved[h])

PublishedInv == \A h \in Hosts : OthersPublished(h)

LEMMA InitPublished == Init => PublishedInv
BY EmptyText DEF Init, PublishedInv, OthersPublished, OfOthers

\* Merges, markers and the empty text bring in nothing that is not on the remote.
LEMMA FromTheRemote ==
    ASSUME NEW h \in Hosts, NEW s \in Texts, NEW t \in Texts, remote \in Texts
    PROVE  /\ OfOthers(h, remote) /\ OfOthers(h, NoText)
           /\ OfOthers(h, s) /\ OfOthers(h, t) => /\ OfOthers(h, Merge(s, t))
                                                  /\ OfOthers(h, Marked(Merge(s, t)))
                                                  /\ OfOthers(h, Unmarked(Merge(s, t)))
<1>1. \A g \in Hosts : s.ver[g] \in Nat /\ t.ver[g] \in Nat /\ remote.ver[g] \in Nat
  BY TextFields
<1>2. \A g \in Hosts : Merge(s, t).ver[g] = Newer(s.ver[g], t.ver[g])
  BY DEF Merge
<1>3. /\ Marked(Merge(s, t)).ver = Merge(s, t).ver
      /\ Unmarked(Merge(s, t)).ver = Merge(s, t).ver
  BY MergeKeepsBoth, MarkersKeepBlocks
<1>4. OfOthers(h, s) /\ OfOthers(h, t) => OfOthers(h, Merge(s, t))
  BY <1>2 DEF OfOthers, Newer
<1>5. OfOthers(h, remote) /\ OfOthers(h, NoText)
  BY <1>1, EmptyText DEF OfOthers
<1> QED BY <1>3, <1>4, <1>5 DEF OfOthers

\* The texts a machine has after a step, against the remote as it was.
LEMMA OthersFromTheRemote ==
    ASSUME SafeInv, PublishedInv, NEW h \in Hosts, Step(h)
    PROVE  /\ \A g \in Hosts \ {h} : UNCHANGED <<work[g], head[g], saved[g]>>
           /\ OfOthers(h, work'[h]) /\ OfOthers(h, head'[h]) /\ OfOthers(h, saved'[h])
<1>0. /\ Shapes /\ OthersPublished(h) /\ remote \in Texts
      /\ work[h] \in Texts /\ head[h] \in Texts /\ saved[h] \in Texts
  BY HostFacts DEF PublishedInv
<1>1. /\ OfOthers(h, remote) /\ OfOthers(h, NoText)
      /\ \A s, t \in {work[h], head[h], saved[h], remote} :
            /\ OfOthers(h, Merge(s, t)) /\ OfOthers(h, Marked(Merge(s, t)))
            /\ OfOthers(h, Unmarked(Merge(s, t)))
  BY <1>0, FromTheRemote DEF OthersPublished
<1> USE DEF Shapes, Set, OthersPublished
<1>2. CASE PullMerges(h)
  BY <1>0, <1>1, <1>2 DEF PullMerges
<1>3. CASE RebaseConflicts(h)
  BY <1>0, <1>1, <1>3 DEF RebaseConflicts
<1>4. CASE AutostashConflicts(h)
  BY <1>0, <1>1, <1>4 DEF AutostashConflicts
<1>5. CASE PullKilled(h)
  BY <1>0, <1>1, <1>5 DEF PullKilled
<1>6. CASE AbortRebase(h)
  BY <1>0, <1>1, <1>6 DEF AbortRebase
<1>7. CASE UserResolves(h)
  BY <1>0, <1>1, <1>7 DEF UserResolves
<1>8. CASE Commit(h)
  BY <1>0, <1>8 DEF Commit
<1>9. CASE Render(h)
  <2>1. \A g \in Hosts \ {h} : work'[h].ver[g] = work[h].ver[g] /\ work'[g] = work[g]
    BY <1>0, <1>9, TextFields DEF Render
  <2> QED BY <1>0, <1>9, <2>1 DEF Render, OfOthers
<1>10. CASE UNCHANGED <<work, head, saved>>
  BY <1>0, <1>10
<1> QED
  BY <1>2, <1>3, <1>4, <1>5, <1>6, <1>7, <1>8, <1>9, <1>10
     DEF Step, Start, PullFails, InspectIndex, InspectKilled, AbortFails, AbortKilled,
         EnsureAttributes, RenderSame, SkipCompile, RefuseCommit, AcceptCommit, CheckKilled,
         DropConflicted, AlreadyCommitted, CommitFails, Push, PushFails, Die, Warn, Pass, tree

LEMMA AlwaysPublished == Spec => []PublishedInv
<1>1. ASSUME SafeInv, PublishedInv, SafeInv', NEW h \in Hosts, Step(h) PROVE PublishedInv'
  <2>1. ASSUME NEW g \in Hosts, NEW t \in Texts, OfOthers(g, t) PROVE OfOthers(g, t)'
    <3>1. \A k \in Hosts : /\ t.ver[k] \in Nat /\ remote.ver[k] \in Nat
                           /\ remote'.ver[k] \in Nat /\ remote.ver[k] <= remote'.ver[k]
      BY <1>1, OnlyPushes, TextFields DEF SafeInv, Shapes
    <3> QED BY <2>1, <3>1 DEF OfOthers
  <2>2. \A g \in Hosts : work'[g] \in Texts /\ head'[g] \in Texts /\ saved'[g] \in Texts
    BY <1>1 DEF SafeInv, Shapes
  <2>3. \A g \in Hosts : /\ OfOthers(g, work'[g]) /\ OfOthers(g, head'[g])
                         /\ OfOthers(g, saved'[g])
    BY <1>1, OthersFromTheRemote DEF PublishedInv, OthersPublished
  <2>4. \A g \in Hosts : \A t \in {work'[g], head'[g], saved'[g]} :
           \A k \in Hosts \ {g} : t.ver[k] <= remote'.ver[k]
    BY <2>1, <2>2, <2>3 DEF OfOthers
  <2> QED BY <2>4 DEF PublishedInv, OthersPublished, OfOthers
<1>2. SafeInv /\ PublishedInv /\ SafeInv' /\ [Next]_vars => PublishedInv'
  <2>1. CASE UNCHANGED vars
    BY <2>1 DEF vars, tree, PublishedInv, OthersPublished, OfOthers
  <2> QED BY <1>1, <2>1 DEF Next
<1> QED BY <1>2, InitPublished, Safe, PTL DEF Spec

\* Every push publishes the block of its machine and leaves the others' as they are.
LEMMA PushIsPublish ==
    ASSUME SafeInv, PublishedInv, NEW h \in Hosts, Push(h) PROVE Shared!Publish(h)
<1>0. /\ base[h] = remote /\ remote' = head[h] /\ rendered' = rendered
      /\ remote \in Texts /\ head[h] \in Texts /\ rendered[h] \in Nat
  BY HostFacts, GitSyncAssumption DEF Push, Shapes, Versions
<1>1. /\ Below(remote, head[h]) /\ Known(head[h], rendered)
      /\ Clean(head[h]) /\ Clean(remote) /\ OfOthers(h, head[h])
  BY <1>0, HostFacts
     DEF HostSafe, Layers, OwnBodies, MarkersInTreesOnly, PublishedInv, OthersPublished
<1>2. \A g \in Hosts : remote.ver[g] \in Nat /\ head[h].ver[g] \in Nat
  BY <1>0, TextFields
<1>3. \A g \in Hosts \ {h} : head[h].ver[g] = remote.ver[g]
  BY <1>1, <1>2 DEF Below, OfOthers
<1>4. head[h].ver[h] \in remote.ver[h] .. rendered[h]
  BY <1>0, <1>1, <1>2 DEF Below, Known
<1>5. head[h] = [remote EXCEPT !.ver[h] = head[h].ver[h]]
  <2>1. head[h].ver = [remote.ver EXCEPT ![h] = head[h].ver[h]]
    BY <1>0, <1>3 DEF Texts
  <2> QED BY <1>0, <1>1, <2>1 DEF Texts, Clean
<1> QED BY <1>0, <1>4, <1>5 DEF Shared!Publish

\* However a machine's pulls, stashes, aborts, commits and pushes end, and whoever resolves
\* what they leave (git_ops.rs), what the others see is that it published a body of its own,
\* no older than the last, without markers, and touched nobody else's block.
THEOREM EachPublishesItsOwn == Spec => PublishesOwnBlock
<1>1. Init => Shared!SharedInit
  BY DEF Init, NoText, Shared!SharedInit
<1>2. SafeInv /\ PublishedInv /\ [Next]_vars => [Shared!SharedNext]_(Shared!sharedVars)
  <2>1. ASSUME SafeInv, PublishedInv, NEW h \in Hosts, Step(h)
        PROVE  Shared!SharedNext \/ UNCHANGED <<remote, rendered>>
    <3>1. CASE Push(h)
      BY <2>1, <3>1, PushIsPublish DEF Shared!SharedNext
    <3>2. CASE Render(h)
      <4>1. Shared!Write(h)
        BY <3>2 DEF Render, Set, Shared!Write
      <4> QED BY <4>1 DEF Shared!SharedNext
    <3>3. CASE ~Push(h) /\ ~Render(h)
      BY <2>1, <3>3, OnlyPushes
         DEF Step, Start, PullFails, PullMerges, RebaseConflicts, AutostashConflicts,
             PullKilled, InspectIndex, InspectKilled, AbortRebase, AbortFails, AbortKilled,
             EnsureAttributes, RenderSame, SkipCompile, RefuseCommit, AcceptCommit,
             CheckKilled, DropConflicted, AlreadyCommitted, CommitFails, Commit, PushFails,
             Die, UserResolves, Warn, Pass
    <3> QED BY <3>1, <3>2, <3>3
  <2>2. CASE UNCHANGED vars
    BY <2>2 DEF vars, Shared!sharedVars
  <2> QED BY <2>1, <2>2 DEF Next, Shared!sharedVars
<1> QED
  BY <1>1, <1>2, Safe, AlwaysPublished, PTL DEF Spec, PublishesOwnBlock, Shared!SharedSpec

\* No push takes back a block that is on the remote: the branch contains what it is built
\* on, and the remote takes it only when that is its own text.
THEOREM NothingIsTakenBack == Spec => RemoteNeverForgets
<1>1. SafeInv /\ [Next]_vars => [\A h \in Hosts : remote.ver[h] <= remote'.ver[h]]_vars
  BY OnlyPushes DEF Next
<1> QED
  BY <1>1, Safe, PTL DEF Spec, RemoteNeverForgets

-----------------------------------------------------------------------------
(***************************************************************************)
(* The local file.  Unless a call was cut off in the midst of a conflict, a *)
(* rebase is stopped only between the pull and its abort, with its paths    *)
(* unmerged, and the body rendered last is in the tree, or in what the      *)
(* abort brings back.                                                      *)
(***************************************************************************)
Stopped(h) == rebasing[h] => unmerged[h] /\ pc[h] \in {"inspect", "abort"}

Latest(h) == (IF rebasing[h] THEN saved[h] ELSE work[h]).ver[h] = rendered[h]

KeptInv == \A h \in Hosts : ~cut[h] => Stopped(h) /\ Latest(h)

LEMMA InitKept == Init => KeptInv
BY EmptyText DEF Init, KeptInv, Stopped, Latest

\* A step of one machine leaves what is said of the others.
KeptFrame(h) ==
    /\ \A g \in Hosts \ {h} :
          /\ work'[g] = work[g] /\ saved'[g] = saved[g] /\ rendered'[g] = rendered[g]
          /\ unmerged'[g] = unmerged[g] /\ rebasing'[g] = rebasing[g]
          /\ pc'[g] = pc[g] /\ cut'[g] = cut[g]

LEMMA KeptStep ==
    ASSUME NEW h \in Hosts
    PROVE  KeptInv /\ KeptFrame(h) /\ (~cut'[h] => Stopped(h)' /\ Latest(h)') => KeptInv'
BY DEF KeptInv, KeptFrame, Stopped, Latest

\* Merging the remote in keeps a machine's own block: the remote's is no newer.
LEMMA OwnBlockSurvives ==
    ASSUME NEW h \in Hosts, NEW s \in Texts, NEW t \in Texts, Shapes,
           Known(t, rendered), s.ver[h] = rendered[h]
    PROVE  Merge(s, t).ver[h] = rendered[h]
<1>1. s.ver[h] \in Nat /\ t.ver[h] \in Nat /\ t.ver[h] <= s.ver[h]
  BY TextFields DEF Known
<1> QED
  BY <1>1 DEF Merge, Newer

LEMMA KeptByStep ==
    ASSUME SafeInv, KeptInv, NEW h \in Hosts, Step(h)
    PROVE  KeptInv'
<1>0. /\ Shapes /\ Known(remote, rendered) /\ HostSafe(h)
      /\ work[h] \in Texts /\ head[h] \in Texts /\ saved[h] \in Texts /\ remote \in Texts
      /\ ~cut[h] => Stopped(h) /\ Latest(h)
  BY HostFacts DEF KeptInv
<1> SUFFICES KeptFrame(h) /\ (~cut'[h] => Stopped(h)' /\ Latest(h)')
  BY KeptStep
<1> USE DEF KeptFrame, Stopped, Latest, Shapes, Set, Goto, Pass, Warn, tree, PCs,
            PullPossible, AfterCompile
<1>1. CASE PullMerges(h)
  BY <1>0, <1>1, OwnBlockSurvives DEF PullMerges
<1>2. CASE RebaseConflicts(h)
  BY <1>0, <1>2 DEF RebaseConflicts
<1>3. CASE AutostashConflicts(h)
  <2> DEFINE nw == Marked(Merge(work[h], remote))
  <2>1. nw.ver = Merge(work[h], remote).ver
    BY <1>0, MergeKeepsBoth, MarkersKeepBlocks
  <2>2. ~cut[h] => nw.ver[h] = rendered[h]
    <3>1. ~cut[h] => work[h].ver[h] = rendered[h]
      BY <1>0, <1>3 DEF AutostashConflicts
    <3>2. ~cut[h] => Merge(work[h], remote).ver[h] = rendered[h]
      BY <1>0, <3>1, OwnBlockSurvives
    <3> HIDE DEF nw
    <3> QED BY <2>1, <3>2
  <2>3. work' = [work EXCEPT ![h] = nw]
    BY <1>3 DEF AutostashConflicts
  <2> HIDE DEF nw
  <2> QED
    BY <1>0, <1>3, <2>2, <2>3 DEF AutostashConflicts
<1>4. CASE PullKilled(h)
  BY <1>0, <1>4 DEF PullKilled
<1>5. CASE AbortRebase(h)
  BY <1>0, <1>5 DEF AbortRebase
<1>6. CASE UserResolves(h)
  <2>1. ~cut[h] => ~rebasing[h]
    BY <1>0, <1>6 DEF UserResolves
  <2>2. ~cut[h] => Merge(work[h], head[h]).ver[h] = rendered[h]
    BY <1>0, <2>1, OwnBlockSurvives DEF HostSafe, OwnBodies
  <2>3. Unmarked(Merge(work[h], head[h])).ver = Merge(work[h], head[h]).ver
    BY <1>0, MergeKeepsBoth, MarkersKeepBlocks
  <2> QED
    BY <1>0, <1>6, <2>1, <2>2, <2>3 DEF UserResolves
<1>7. CASE Render(h)
  <2>1. work'[h].ver[h] = rendered'[h]
    BY <1>0, <1>7, TextFields DEF Render
  <2>2. \A g \in Hosts \ {h} : work'[g] = work[g]
    BY <1>0, <1>7 DEF Render
  <2> QED
    BY <1>0, <1>7, <2>1, <2>2 DEF Render
<1>8. CASE Start(h)
  BY <1>0, <1>8 DEF Start
<1>9. CASE PullFails(h)
  BY <1>0, <1>9 DEF PullFails
<1>10. CASE InspectIndex(h)
  BY <1>0, <1>10 DEF InspectIndex
<1>11. CASE InspectKilled(h)
  BY <1>0, <1>11 DEF InspectKilled
<1>12. CASE AbortFails(h)
  BY <1>0, <1>12 DEF AbortFails
<1>13. CASE AbortKilled(h)
  BY <1>0, <1>13 DEF AbortKilled
<1>14. CASE RenderSame(h)
  BY <1>0, <1>14 DEF RenderSame
<1>15. CASE SkipCompile(h)
  BY <1>0, <1>15 DEF SkipCompile
<1>16. CASE RefuseCommit(h)
  BY <1>0, <1>16 DEF RefuseCommit
<1>17. CASE AcceptCommit(h)
  BY <1>0, <1>17 DEF AcceptCommit
<1>18. CASE CheckKilled(h)
  BY <1>0, <1>18 DEF CheckKilled
<1>19. CASE DropConflicted(h)
  BY <1>0, <1>19 DEF DropConflicted
<1>20. CASE PushFails(h)
  BY <1>0, <1>20 DEF PushFails
<1>21. CASE Die(h)
  BY <1>0, <1>21 DEF Die
<1>22. CASE EnsureAttributes(h)
  BY <1>0, <1>22 DEF EnsureAttributes
<1>23. CASE AlreadyCommitted(h)
  BY <1>0, <1>23 DEF AlreadyCommitted
<1>24. CASE CommitFails(h)
  BY <1>0, <1>24 DEF CommitFails
<1>25. CASE Commit(h)
  BY <1>0, <1>25 DEF Commit
<1>26. CASE Push(h)
  BY <1>0, <1>26 DEF Push
<1> QED
  BY <1>1, <1>2, <1>3, <1>4, <1>5, <1>6, <1>7, <1>8, <1>9, <1>10, <1>11, <1>12, <1>13, <1>14,
     <1>15, <1>16, <1>17, <1>18, <1>19, <1>20, <1>21, <1>22, <1>23, <1>24, <1>25, <1>26 DEF Step

LEMMA AlwaysKept == Spec => []KeptInv
<1>1. SafeInv /\ KeptInv /\ [Next]_vars => KeptInv'
  <2>1. ASSUME SafeInv, KeptInv, Next PROVE KeptInv'
    BY <2>1, KeptByStep DEF Next
  <2>2. ASSUME KeptInv, UNCHANGED vars PROVE KeptInv'
    BY <2>2 DEF vars, tree, KeptInv, Stopped, Latest
  <2> QED BY <2>1, <2>2
<1> QED
  BY <1>1, InitKept, Safe, PTL DEF Spec

\* After a run the file on disk has the body this machine rendered last, unless a call was
\* cut off between a conflict and its abort.
THEOREM LocalFileIsKept == Spec => []LocalFileKept
<1>1. KeptInv => LocalFileKept
  BY DEF KeptInv, Stopped, Latest, LocalFileKept
<1> QED
  BY <1>1, AlwaysKept, PTL

\* No run leaves a rebase stopped half way, with the same exception.
THEOREM NoRunStrands == Spec => []ConflictNeverStrands
<1>1. KeptInv /\ SafeInv => ConflictNeverStrands
  BY DEF KeptInv, Stopped, ConflictNeverStrands, SafeInv, Shapes
<1> QED
  BY <1>1, AlwaysKept, Safe, PTL

=============================================================================
