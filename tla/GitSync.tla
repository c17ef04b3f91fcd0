------------------------------ MODULE GitSync ------------------------------
(***************************************************************************)
(* Several machines share the dailies repository (autostand-app            *)
(* git_ops.rs, called from pipeline_runner.rs run and                      *)
(* commands/regeneration.rs).  Under the run lock a machine pulls, compiles *)
(* and commits; git itself is modelled by what these calls ask of it.      *)
(*                                                                         *)
(* One standup file stands for all.  Its text is the version of each        *)
(* machine's AUTO block and whether git's conflict markers are in it.  Only *)
(* a machine itself raises its version, so the three-way merge of two       *)
(* texts keeps the newer of each block.                                    *)
(***************************************************************************)
EXTENDS Integers, FiniteSets

CONSTANTS Hosts,
          MaxVersion,      \* bound: bodies a machine renders
          Interruptions    \* calls may run into GIT_TIMEOUT, and the process may die

ASSUME GitSyncAssumption ==
    /\ MaxVersion \in Nat \ {0}
    /\ Interruptions \in BOOLEAN

Versions == 0 .. MaxVersion
Texts == [ver : [Hosts -> Versions], marked : BOOLEAN]

NoText == [ver |-> [h \in Hosts |-> 0], marked |-> FALSE]
Newer(m, n) == IF m < n THEN n ELSE m
Merge(s, t) == [ver |-> [h \in Hosts |-> Newer(s.ver[h], t.ver[h])],
                marked |-> s.marked \/ t.marked]
Marked(t) == [t EXCEPT !.marked = TRUE]
Unmarked(t) == [t EXCEPT !.marked = FALSE]

VARIABLES
    work,      \* the file in each working tree
    head,      \* the file on each local branch
    base,      \* the remote's text that the local branch is built on
    saved,     \* what a stopped rebase's abort puts back: the tree before the pull
    unmerged,  \* the index has unmerged paths
    rebasing,  \* a rebase is stopped half way: HEAD is detached
    rule,      \* .gitattributes has the union rule
    remote,    \* the file on the remote
    pc,        \* where a machine's run stands
    kind,      \* what it is: a run with or without repo sync, or a regeneration
    failed,    \* one of its calls did not succeed
    rendered,  \* history: the newest version each machine wrote
    cut        \* history: a timeout or a death left a conflict behind

tree == <<work, head, base, saved, unmerged, rebasing, rule>>
vars == <<tree, remote, pc, kind, failed, rendered, cut>>

PCs == {"idle", "pull", "inspect", "abort", "attributes", "compile",
        "check", "filter", "commit", "push"}
Kinds == {"none", "sync", "local", "regeneration"}

TypeOK ==
    /\ {work, head, base, saved} \subseteq [Hosts -> Texts]
    /\ {unmerged, rebasing, rule, failed, cut} \subseteq [Hosts -> BOOLEAN]
    /\ remote \in Texts
    /\ pc \in [Hosts -> PCs]
    /\ kind \in [Hosts -> Kinds]
    /\ rendered \in [Hosts -> Versions]
    \* a conflict is in the index or the tree only until somebody has resolved it
    /\ \A h \in Hosts : work[h].marked => unmerged[h]

\* Clones of an empty remote; some repositories already carry the rule.
Init ==
    /\ work = [h \in Hosts |-> NoText]
    /\ head = work /\ base = work /\ saved = work
    /\ unmerged = [h \in Hosts |-> FALSE]
    /\ rebasing = unmerged /\ failed = unmerged /\ cut = unmerged
    /\ rule \in [Hosts -> BOOLEAN]
    /\ remote = NoText
    /\ pc = [h \in Hosts |-> "idle"]
    /\ kind = [h \in Hosts |-> "none"]
    /\ rendered = [h \in Hosts |-> 0]

Goto(h, l) == pc' = [pc EXCEPT ![h] = l]
Set(f, h, v) == [f EXCEPT ![h] = v]

\* A call that warns and lets the run go on with what there is.
Warn(h, l) ==
    /\ failed' = Set(failed, h, TRUE)
    /\ Goto(h, l)
    /\ UNCHANGED <<tree, remote, kind, rendered, cut>>

\* The call leaves everything as it was.
Pass(h, l) ==
    /\ Goto(h, l)
    /\ UNCHANGED <<tree, remote, kind, failed, rendered, cut>>

Unpushed(h) == head[h] # base[h]
Dirty(h) == work[h] # head[h]

-----------------------------------------------------------------------------
\* The run lock admits one of these at a time.  A regeneration does not pull.
Start(h) ==
    /\ pc[h] = "idle"
    /\ \E k \in Kinds \ {"none"} :
          /\ kind' = Set(kind, h, k)
          /\ Goto(h, IF k = "sync" THEN "pull" ELSE "compile")
    /\ failed' = Set(failed, h, FALSE)
    /\ UNCHANGED <<tree, remote, rendered, cut>>

(***************************************************************************)
(* sync_pull                                                               *)
(***************************************************************************)

PullPossible(h) == ~unmerged[h] /\ ~rebasing[h]

\* Offline, refused because an earlier conflict is still there, or out of time.
PullFails(h) ==
    /\ pc[h] = "pull"
    /\ Warn(h, "inspect")

\* Local commits are replayed on the remote's text, the dirty tree is put back on top.
PullMerges(h) ==
    /\ pc[h] = "pull"
    /\ PullPossible(h)
    /\ base' = Set(base, h, remote)
    /\ head' = Set(head, h, Merge(head[h], remote))
    /\ work' = Set(work, h, Merge(work[h], remote))
    /\ Goto(h, "inspect")
    /\ UNCHANGED <<saved, unmerged, rebasing, rule, remote, kind, failed,
                   rendered, cut>>

\* Without the union rule a replayed commit may conflict: the rebase stops there.
RebaseConflicts(h) ==
    /\ pc[h] = "pull"
    /\ PullPossible(h)
    /\ ~rule[h]
    /\ Unpushed(h) /\ remote # base[h]
    /\ saved' = Set(saved, h, work[h])
    /\ work' = Set(work, h, Marked(Merge(head[h], remote)))
    /\ unmerged' = Set(unmerged, h, TRUE)
    /\ rebasing' = Set(rebasing, h, TRUE)
    /\ failed' = Set(failed, h, TRUE)
    /\ Goto(h, "inspect")
    /\ UNCHANGED <<head, base, rule, remote, kind, rendered, cut>>

\* So may the autostash; git pull then exits 0 and no rebase is under way.
AutostashConflicts(h) ==
    /\ pc[h] = "pull"
    /\ PullPossible(h)
    /\ ~rule[h]
    /\ Dirty(h) /\ remote # base[h]
    /\ base' = Set(base, h, remote)
    /\ head' = Set(head, h, Merge(head[h], remote))
    /\ work' = Set(work, h, Marked(Merge(work[h], remote)))
    /\ unmerged' = Set(unmerged, h, TRUE)
    /\ Goto(h, "inspect")
    /\ UNCHANGED <<saved, rebasing, rule, remote, kind, failed, rendered, cut>>

\* GIT_TIMEOUT strikes between two replayed commits: no path is unmerged.
PullKilled(h) ==
    /\ Interruptions
    /\ pc[h] = "pull"
    /\ PullPossible(h)
    /\ Unpushed(h) /\ remote # base[h]
    /\ saved' = Set(saved, h, work[h])
    /\ work' = Set(work, h, remote)
    /\ rebasing' = Set(rebasing, h, TRUE)
    /\ failed' = Set(failed, h, TRUE)
    /\ cut' = Set(cut, h, TRUE)
    /\ Goto(h, "inspect")
    /\ UNCHANGED <<head, base, unmerged, rule, remote, kind, rendered>>

\* Mutant: the exit code is trusted, and so nothing is ever aborted.
TrustExitCode(h) ==
    /\ pc[h] = "inspect"
    /\ Pass(h, "attributes")

\* ls-files --unmerged, not the exit code, says whether there is a conflict.
InspectIndex(h) ==
    /\ pc[h] = "inspect"
    /\ Pass(h, IF unmerged[h] THEN "abort" ELSE "attributes")

\* A killed ls-files has an empty stdout, which reads as "nothing unmerged".
InspectKilled(h) ==
    /\ Interruptions
    /\ pc[h] = "inspect"
    /\ failed' = Set(failed, h, TRUE)
    /\ cut' = Set(cut, h, cut[h] \/ unmerged[h])
    /\ Goto(h, "attributes")
    /\ UNCHANGED <<tree, remote, kind, rendered>>

\* Mutant: the branch is reset instead, and the stashed tree is forgotten.
AbortByReset(h) ==
    /\ pc[h] = "abort"
    /\ rebasing[h]
    /\ work' = Set(work, h, head[h])
    /\ saved' = Set(saved, h, NoText)
    /\ unmerged' = Set(unmerged, h, FALSE)
    /\ rebasing' = Set(rebasing, h, FALSE)
    /\ Goto(h, "attributes")
    /\ UNCHANGED <<head, base, rule, remote, kind, failed, rendered, cut>>

\* git rebase --abort resets the tree to what it was before the pull.
AbortRebase(h) ==
    /\ pc[h] = "abort"
    /\ rebasing[h]
    /\ work' = Set(work, h, saved[h])
    /\ saved' = Set(saved, h, NoText)
    /\ unmerged' = Set(unmerged, h, FALSE)
    /\ rebasing' = Set(rebasing, h, FALSE)
    /\ Goto(h, "attributes")
    /\ UNCHANGED <<head, base, rule, remote, kind, failed, rendered, cut>>

\* After a conflicting autostash there is no rebase to abort: left to the user.
AbortFails(h) ==
    /\ pc[h] = "abort"
    /\ ~rebasing[h]
    /\ Warn(h, "attributes")

AbortKilled(h) ==
    /\ Interruptions
    /\ pc[h] = "abort"
    /\ failed' = Set(failed, h, TRUE)
    /\ cut' = Set(cut, h, TRUE)
    /\ Goto(h, "attributes")
    /\ UNCHANGED <<tree, remote, kind, rendered>>

\* ensure_gitattributes works on the tree only; an I/O error is a warning.
EnsureAttributes(h) ==
    /\ pc[h] = "attributes"
    /\ \E installed \in {rule[h], TRUE} : rule' = Set(rule, h, installed)
    /\ Goto(h, "compile")
    /\ UNCHANGED <<work, head, base, saved, unmerged, rebasing, remote, kind,
                   failed, rendered, cut>>

(***************************************************************************)
(* What runs between pull and commit, at the grain git sees                *)
(***************************************************************************)

AfterCompile(h) == IF kind[h] = "local" THEN "idle" ELSE "check"

\* A new body replaces this machine's block, and with it any marker inside the block.
Render(h) ==
    /\ pc[h] = "compile"
    /\ rendered[h] < MaxVersion
    /\ rendered' = Set(rendered, h, rendered[h] + 1)
    /\ \E m \in {work[h].marked, FALSE} :
          work' = Set(work, h, [ver |-> [work[h].ver EXCEPT ![h] = rendered[h] + 1],
                                marked |-> m])
    /\ Goto(h, AfterCompile(h))
    /\ UNCHANGED <<head, base, saved, unmerged, rebasing, rule, remote, kind, failed, cut>>

\* A compile that succeeds with the body that is there already.
RenderSame(h) ==
    /\ pc[h] = "compile"
    /\ Pass(h, AfterCompile(h))

\* Unchanged inputs, a frozen file or an error: no file was touched, and commit_push
\* returns at once.
SkipCompile(h) ==
    /\ pc[h] = "compile"
    /\ Pass(h, "idle")

(***************************************************************************)
(* commit_push                                                             *)
(***************************************************************************)

\* Nothing unmerged paths, or a detached HEAD: nothing is committed.
RefuseCommit(h) ==
    /\ pc[h] = "check"
    /\ unmerged[h] \/ rebasing[h]
    /\ Pass(h, "idle")

AcceptCommit(h) ==
    /\ pc[h] = "check"
    /\ ~unmerged[h] /\ ~rebasing[h]
    /\ Pass(h, "filter")

\* A killed ls-files reads as "nothing unmerged", a killed symbolic-ref as "detached".
CheckKilled(h) ==
    /\ Interruptions
    /\ pc[h] = "check"
    /\ \/ ~rebasing[h] /\ Warn(h, "filter")
       \/ Warn(h, "idle")

\* Mutant: the index was asked already, so the text is not searched for markers.
KeepConflicted(h) ==
    /\ pc[h] = "filter"
    /\ Pass(h, "commit")

\* drop_conflicted: a file with markers, or one that cannot be read, is left out, and
\* here no other file remains.
DropConflicted(h) ==
    /\ pc[h] = "filter"
    /\ \/ work[h].marked /\ Pass(h, "idle")
       \/ ~work[h].marked /\ Pass(h, "commit")
       \/ Warn(h, "idle")

\* The staged file equals HEAD: already committed, nothing to do, and so no push.
AlreadyCommitted(h) ==
    /\ pc[h] = "commit"
    /\ ~Dirty(h)
    /\ unmerged' = Set(unmerged, h, FALSE)
    /\ Goto(h, "idle")
    /\ UNCHANGED <<work, head, base, saved, rebasing, rule, remote, kind, failed,
                   rendered, cut>>

\* git add or git commit (a hook, say) fails; staging alone resolves the path.
CommitFails(h) ==
    /\ pc[h] = "commit"
    /\ \E u \in {unmerged[h], FALSE} : unmerged' = Set(unmerged, h, u)
    /\ failed' = Set(failed, h, TRUE)
    /\ Goto(h, "idle")
    /\ UNCHANGED <<work, head, base, saved, rebasing, rule, remote, kind, rendered,
                   cut>>

\* add, diff --cached and commit of the file; a killed commit may have happened.
Commit(h) ==
    /\ pc[h] = "commit"
    /\ Dirty(h)
    /\ head' = Set(head, h, work[h])
    /\ unmerged' = Set(unmerged, h, FALSE)
    /\ \/ Goto(h, "push") /\ UNCHANGED failed
       \/ Interruptions /\ Goto(h, "idle") /\ failed' = Set(failed, h, TRUE)
    /\ UNCHANGED <<work, base, saved, rebasing, rule, remote, kind, rendered, cut>>

\* Mutant: push --force.
ForcePush(h) ==
    /\ pc[h] = "push"
    /\ remote' = head[h]
    /\ base' = Set(base, h, head[h])
    /\ Goto(h, "idle")
    /\ UNCHANGED <<work, head, saved, unmerged, rebasing, rule, kind, failed,
                   rendered, cut>>

\* The remote takes only a branch that is built on its own; the answer may get lost.
Push(h) ==
    /\ pc[h] = "push"
    /\ base[h] = remote
    /\ remote' = head[h]
    /\ base' = Set(base, h, head[h])
    /\ Goto(h, "idle")
    /\ \/ UNCHANGED failed
       \/ Interruptions /\ failed' = Set(failed, h, TRUE)
    /\ UNCHANGED <<work, head, saved, unmerged, rebasing, rule, kind, rendered, cut>>

\* Rejected because another machine pushed first, or offline.
PushFails(h) ==
    /\ pc[h] = "push"
    /\ Warn(h, "idle")

-----------------------------------------------------------------------------
\* The application or the machine stops, or git cannot be started any more.
Die(h) ==
    /\ Interruptions
    /\ pc[h] # "idle"
    /\ Goto(h, "idle")
    /\ kind' = Set(kind, h, "none")
    /\ cut' = Set(cut, h, cut[h] \/ unmerged[h] \/ rebasing[h])
    /\ UNCHANGED <<tree, remote, failed, rendered>>

\* The user finishes by hand what was left, keeping both sides.
UserResolves(h) ==
    /\ pc[h] = "idle"
    /\ unmerged[h] \/ rebasing[h]
    /\ work' = Set(work, h, Unmarked(Merge(work[h], IF rebasing[h] THEN saved[h]
                                                                  ELSE head[h])))
    /\ saved' = Set(saved, h, NoText)
    /\ unmerged' = Set(unmerged, h, FALSE)
    /\ rebasing' = Set(rebasing, h, FALSE)
    /\ UNCHANGED <<head, base, rule, remote, pc, kind, failed, rendered, cut>>

Step(h) ==  \* one machine's run, or its user
    \/ Start(h)
    \/ PullFails(h) \/ PullMerges(h) \/ RebaseConflicts(h) \/ AutostashConflicts(h)
    \/ PullKilled(h)
    \/ InspectIndex(h) \/ InspectKilled(h)
    \/ AbortRebase(h) \/ AbortFails(h) \/ AbortKilled(h)
    \/ EnsureAttributes(h)
    \/ Render(h) \/ RenderSame(h) \/ SkipCompile(h)
    \/ RefuseCommit(h) \/ AcceptCommit(h) \/ CheckKilled(h)
    \/ DropConflicted(h)
    \/ AlreadyCommitted(h) \/ CommitFails(h) \/ Commit(h)
    \/ Push(h) \/ PushFails(h)
    \/ Die(h) \/ UserResolves(h)

Next == \E h \in Hosts : Step(h)

Spec == Init /\ [][Next]_vars

-----------------------------------------------------------------------------
\* commit_push never publishes conflict markers, whatever call is killed and whatever a
\* pull left behind (rule 3 of git_ops.rs: committing garbage is not safe).
NoMarkersPublished ==
    /\ ~remote.marked
    /\ \A h \in Hosts : ~head[h].marked

\* No push takes a machine's block back on the remote, in whatever order the machines
\* pull, commit and push (push without force, after pull --rebase).
RemoteNeverForgets == [][\A h \in Hosts : remote.ver[h] <= remote'.ver[h]]_vars

\* Refinement: seen from the remote, each machine publishes its own block and nothing else,
\* though what it pushes is the whole file, merged, stashed, aborted and committed on the
\* way, and perhaps resolved by hand: no machine brings back an old block of another one.
Shared == INSTANCE SharedStandup WITH text <- remote, written <- rendered
PublishesOwnBlock == Shared!SharedSpec

\* After a run the file on disk has the body this machine rendered last, even when the
\* pull conflicted and was aborted (rule 1: the local file is authoritative).
LocalFileKept ==
    \A h \in Hosts : pc[h] = "idle" /\ ~cut[h] => work[h].ver[h] = rendered[h]

\* No run leaves a rebase stopped half way, which would refuse every later commit,
\* unless a call was cut off between the conflict and its abort (sync_pull).
ConflictNeverStrands ==
    \A h \in Hosts : pc[h] = "idle" /\ rebasing[h] => cut[h]

\* After a synced run whose calls all succeeded no commit of this machine is missing on
\* the remote (05-security.md: a rejected push is retried by the next run).
NextRunRepushes ==
    \A h \in Hosts :
        pc[h] = "idle" /\ kind[h] = "sync" /\ ~failed[h] => ~Unpushed(h)

=============================================================================
