---------------------------- MODULE LocalModels ----------------------------
(***************************************************************************)
(* The managed local models (commands/local_models.rs): downloading or      *)
(* resuming one, cancelling, deleting and selecting one, each a command     *)
(* that runs on a thread of its own against the models directory, the       *)
(* selection file and the configuration.                                    *)
(*                                                                         *)
(* A file's content is its length, whether its bytes are those of the       *)
(* pinned model, and whether they are on the disk.  The 416 of a range past *)
(* the end, the answer 200 to a range and the bytes themselves are the      *)
(* server's, and power failures the machine's.                              *)
(***************************************************************************)
EXTENDS Integers, FiniteSets

CONSTANTS Models,    \* CATALOG, and the models the user downloads
          Wanted,    \* among them
          Calls,     \* download commands that may be pending at once
          Size,      \* size_bytes
          MaxFaults, \* cancels, deletes, quits, failed file operations and bad answers
          None

\* A file; one byte too long stands for every length past the pinned one.
Content == [len : 0 .. Size + 1, good : BOOLEAN, synced : BOOLEAN]

ASSUME LocalModelsAssumption ==
    /\ Wanted \subseteq Models
    /\ Size \in Nat \ {0} /\ MaxFaults \in Nat
    /\ None \notin Models \cup Content

VARIABLES final,      \* each model's file
          partial,    \* its .part
          call,       \* where each download stands
          active,     \* CANCELLATIONS: the models with a download
          delete,     \* the delete command
          select,     \* the select command
          selected,   \* local-models.json
          provider,   \* the built-in provider: its model, and whether it is in the order
          clean,      \* history: what was last selected was so alone and without error
          faults

vars == <<final, partial, call, active, delete, select, selected, provider, clean, faults>>
files == <<final, partial>>
downloads == <<call, active>>
selection == <<delete, select, selected, provider, clean>>

Empty == [len |-> 0, good |-> TRUE, synced |-> FALSE]
Idle == [pc |-> "idle", model |-> None, cancelled |-> FALSE, from |-> 0, downloaded |-> 0,
         fd |-> "closed", doomed |-> FALSE]
NoDelete == [pc |-> "idle", model |-> None, wasSelected |-> FALSE]
NoSelect == [pc |-> "idle", model |-> None, previous |-> None, wasClean |-> TRUE]

TypeOK ==
    /\ final \in [Models -> Content \cup {None}]
    /\ partial \in [Models -> Content \cup {None}]
    /\ call \in [Calls -> [pc : {"idle", "sent", "reading", "hashing", "verified"},
                           model : Models \cup {None}, cancelled : BOOLEAN,
                           from : 0 .. Size, downloaded : 0 .. Size + 1,
                           fd : {"closed", "partial", "final", "gone"}, doomed : BOOLEAN]]
    /\ active \subseteq Models
    /\ delete \in [pc : {"idle", "config", "final", "partial", "state"},
                   model : Models \cup {None}, wasSelected : BOOLEAN]
    /\ select \in [pc : {"idle", "state", "config"}, model : Models \cup {None},
                   previous : Models \cup {None}, wasClean : BOOLEAN]
    /\ selected \in Models \cup {None}
    /\ provider \in [model : Models \cup {None}, listed : BOOLEAN]
    /\ clean \in BOOLEAN
    /\ faults \in 0 .. MaxFaults

Init ==
    /\ final \in [Models -> {None, [len |-> Size, good |-> TRUE, synced |-> TRUE]}]
    /\ \A m \in Wanted : final[m] = None
    /\ partial = [m \in Models |-> None]
    /\ call = [c \in Calls |-> Idle] /\ active = {}
    /\ delete = NoDelete /\ select = NoSelect
    /\ selected = None /\ provider = [model |-> None, listed |-> FALSE]
    /\ clean = TRUE /\ faults = 0

Fault == faults < MaxFaults /\ faults' = faults + 1

\* status_for: Available goes by the length alone.
Available(m) == final[m] # None /\ final[m].len = Size

(***************************************************************************)
(* download_local_model and download_model                                 *)
(***************************************************************************)

At(c, pc) == call[c].pc = pc

\* Every error and the success end the same way: the model leaves the map.
End(c) ==
    /\ call' = [call EXCEPT ![c] = Idle]
    /\ active' = active \ {call[c].model}

\* Mutant: the offset is the length, however long the partial is.
ResumeAnywhere(f) == IF f = None THEN 0 ELSE f.len

Resume(f) == IF f = None \/ f.len > Size THEN 0 ELSE f.len

\* Mutant: a second download of a model is not refused.
BeginTwice(c, m) ==
    /\ At(c, "idle") /\ ~Available(m)
    /\ call' = [call EXCEPT ![c] = [Idle EXCEPT !.pc = "sent", !.model = m,
                                                !.from = Resume(partial[m])]]
    /\ active' = active \cup {m}
    /\ UNCHANGED <<files, selection, faults>>

\* Up to the request: a file of the right length is taken for the model, a partial that is
\* too long is removed, what is there is the offset to resume from.
Begin(c, m) ==
    /\ At(c, "idle") /\ m \notin active /\ ~Available(m)
    /\ call' = [call EXCEPT ![c] = [Idle EXCEPT !.pc = "sent", !.model = m,
                                                !.from = Resume(partial[m])]]
    /\ active' = active \cup {m}
    /\ partial' = IF partial[m] # None /\ partial[m].len > Size
                  THEN [partial EXCEPT ![m] = None] ELSE partial
    /\ UNCHANGED <<final, selection, faults>>

Open(c, content, offset) ==
    /\ partial' = [partial EXCEPT ![call[c].model] = content]
    /\ call' = [call EXCEPT ![c].pc = "reading", ![c].fd = "partial", ![c].downloaded = offset]

\* The answer: 206 appends at the end of whatever the partial is by now, 200 starts again.
\* A range from the end is refused.
Answer(c) ==
    LET f == partial[call[c].model]
        from == call[c].from
    IN  /\ At(c, "sent") /\ from < Size
        /\ \/ from > 0 /\ Open(c, IF f = None THEN Empty ELSE f, from) /\ UNCHANGED faults
           \/ from > 0 /\ Fault /\ Open(c, Empty, 0)
           \/ from = 0 /\ Open(c, Empty, 0) /\ UNCHANGED faults
        /\ UNCHANGED <<final, active, selection>>

\* Mutant: an error is returned before the model has left the map.
BreakInTheMap(c) ==
    /\ At(c, "sent") \/ At(c, "reading")
    /\ call' = [call EXCEPT ![c] = Idle]
    /\ UNCHANGED <<files, active, selection, faults>>

\* Any error on the way: of the network at any time, of the server (416 among them).
Break(c) ==
    /\ At(c, "sent") \/ At(c, "reading")
    /\ End(c)
    /\ UNCHANGED <<files, selection, faults>>

Appended(f, c, good) ==
    [len |-> IF f.len > Size THEN f.len ELSE f.len + 1,
     good |-> f.good /\ good /\ f.len = call[c].downloaded, synced |-> FALSE]

WriteTo(c, good) ==
    LET m == call[c].model
    IN  /\ final' = IF call[c].fd = "final"
                    THEN [final EXCEPT ![m] = Appended(@, c, good)] ELSE final
        /\ partial' = IF call[c].fd = "partial"
                      THEN [partial EXCEPT ![m] = Appended(@, c, good)] ELSE partial

\* Mutant: nobody looks at the flag between two chunks.
ChunkUnasked(c) ==
    /\ At(c, "reading") /\ call[c].downloaded < Size
    /\ WriteTo(c, TRUE)
    /\ call' = [call EXCEPT ![c].downloaded = @ + 1]
    /\ UNCHANGED <<active, selection, faults>>

\* A chunk, of the model's bytes or not; past the end none are.
Chunk(c) ==
    /\ At(c, "reading") /\ ~call[c].cancelled
    /\ \/ call[c].downloaded < Size /\ WriteTo(c, TRUE) /\ UNCHANGED faults
       \/ call[c].downloaded <= Size /\ Fault /\ WriteTo(c, FALSE)
    /\ call' = [call EXCEPT ![c].downloaded = @ + 1]
    /\ UNCHANGED <<active, selection>>

\* A chunk arrives after the flag was set.
StopAtChunk(c) ==
    /\ At(c, "reading") /\ call[c].cancelled
    /\ End(c)
    /\ UNCHANGED <<files, selection, faults>>

Synced(f) == [f EXCEPT !.synced = TRUE]

\* The end of the stream: sync_all, close, and the count has to be right.  The flag is not
\* looked at any more.
Finish(c) ==
    LET m == call[c].model
    IN  /\ At(c, "reading")
        /\ final' = IF call[c].fd = "final" THEN [final EXCEPT ![m] = Synced(@)] ELSE final
        /\ partial' = IF call[c].fd = "partial" THEN [partial EXCEPT ![m] = Synced(@)] ELSE partial
        /\ IF call[c].downloaded = Size
           THEN call' = [call EXCEPT ![c].pc = "hashing", ![c].fd = "closed"] /\ UNCHANGED active
           ELSE End(c)
        /\ UNCHANGED <<selection, faults>>

\* sha256_file reads the partial by its name; a mismatch leaves it where it is.
Verify(c) ==
    LET m == call[c].model
    IN  /\ At(c, "hashing")
        /\ IF partial[m] # None /\ partial[m].good /\ partial[m].len = Size
           THEN call' = [call EXCEPT ![c].pc = "verified"] /\ UNCHANGED active
           ELSE End(c)
        /\ UNCHANGED <<files, selection, faults>>

\* rename, unless the partial is gone.  A descriptor follows the file it was opened on.
Install(c) ==
    LET m == call[c].model
    IN  /\ At(c, "verified")
        /\ IF partial[m] = None THEN UNCHANGED files
           ELSE /\ final' = [final EXCEPT ![m] = partial[m]]
                /\ partial' = [partial EXCEPT ![m] = None]
        /\ call' = [d \in Calls |->
                       IF d = c THEN Idle
                       ELSE IF partial[m] = None \/ call[d].model # m THEN call[d]
                       ELSE [call[d] EXCEPT !.fd = CASE @ = "partial" -> "final"
                                                      [] @ = "final" -> "gone"
                                                      [] OTHER -> @]]
        /\ active' = active \ {m}
        /\ UNCHANGED <<selection, faults>>

Download(c) ==
    \/ Answer(c) \/ Break(c) \/ Chunk(c) \/ StopAtChunk(c) \/ Finish(c) \/ Verify(c) \/ Install(c)

(***************************************************************************)
(* cancel_local_model_download and delete_local_model                      *)
(***************************************************************************)

\* Whoever is in the map is flagged.
Flagged(m) ==
    [c \in Calls |-> IF call[c].model = m THEN [call[c] EXCEPT !.cancelled = TRUE] ELSE call[c]]

Cancel(m) ==
    /\ m \in active /\ Fault
    /\ call' = Flagged(m)
    /\ UNCHANGED <<files, active, selection>>

DeleteAt(pc) == delete.pc = pc
DeleteTo(pc) == delete' = IF pc = "idle" THEN NoDelete ELSE [delete EXCEPT !.pc = pc]

Delete(m) ==
    /\ DeleteAt("idle") /\ Fault
    /\ call' = Flagged(m)
    /\ delete' = [pc |-> IF selected = m THEN "config" ELSE "final", model |-> m,
                  wasSelected |-> selected = m]
    /\ clean' = (clean /\ select.pc = "idle")
    /\ UNCHANGED <<files, active, select, selected, provider>>

Deactivated ==
    [model |-> IF provider.model = delete.model THEN None ELSE provider.model, listed |-> FALSE]

\* deactivate_local_provider: the configuration is saved, or the command ends.  A save that
\* fails has already changed the configuration the application goes by.
Deactivate ==
    /\ DeleteAt("config")
    /\ \/ provider' = Deactivated /\ DeleteTo("final") /\ UNCHANGED <<clean, faults>>
       \/ Fault /\ DeleteTo("idle") /\ UNCHANGED <<provider, clean>>
       \/ Fault /\ DeleteTo("idle") /\ provider' = Deactivated /\ clean' = FALSE
    /\ UNCHANGED <<files, downloads, select, selected>>

\* A file that cannot be removed ends the command.
RemoveFails ==
    /\ DeleteAt("final") \/ DeleteAt("partial")
    /\ Fault
    /\ DeleteTo("idle")
    /\ clean' = (clean /\ ~delete.wasSelected)
    /\ UNCHANGED <<files, downloads, select, selected, provider>>

RemoveFinal ==
    LET m == delete.model
    IN  /\ DeleteAt("final")
        /\ final' = [final EXCEPT ![m] = None]
        /\ call' = [c \in Calls |-> IF call[c].model = m /\ call[c].fd = "final"
                                    THEN [call[c] EXCEPT !.fd = "gone"] ELSE call[c]]
        /\ DeleteTo("partial")
        /\ UNCHANGED <<partial, active, select, selected, provider, clean, faults>>

\* Downloads that were flagged have nothing left to install.
RemovePartial ==
    LET m == delete.model
    IN  /\ DeleteAt("partial")
        /\ partial' = [partial EXCEPT ![m] = None]
        /\ call' = [c \in Calls |->
                       IF call[c].model = m
                       THEN [call[c] EXCEPT !.fd = IF @ = "partial" THEN "gone" ELSE @,
                                            !.doomed = @ \/ call[c].cancelled]
                       ELSE call[c]]
        /\ DeleteTo(IF delete.wasSelected THEN "state" ELSE "idle")
        /\ UNCHANGED <<final, active, select, selected, provider, clean, faults>>

\* Mutant: the selection outlives the file.
KeepSelection ==
    /\ DeleteAt("state")
    /\ DeleteTo("idle")
    /\ UNCHANGED <<files, downloads, select, selected, provider, clean, faults>>

\* The selection is cleared, whatever it has become, or cannot be written.
ClearSelection ==
    /\ DeleteAt("state")
    /\ \/ selected' = None /\ UNCHANGED <<clean, faults>>
       \/ Fault /\ clean' = FALSE /\ UNCHANGED selected
    /\ DeleteTo("idle")
    /\ UNCHANGED <<files, downloads, select, provider>>

DeleteStep == Deactivate \/ RemoveFails \/ RemoveFinal \/ RemovePartial \/ ClearSelection

(***************************************************************************)
(* select_local_model                                                      *)
(***************************************************************************)

Select(m) ==
    /\ select.pc = "idle" /\ Available(m)
    /\ select' = [pc |-> "state", model |-> m, previous |-> selected, wasClean |-> clean]
    /\ clean' = DeleteAt("idle")
    /\ UNCHANGED <<files, downloads, delete, selected, provider, faults>>

WriteSelection ==
    /\ select.pc = "state"
    /\ \/ selected' = select.model /\ select' = [select EXCEPT !.pc = "config"]
          /\ UNCHANGED <<clean, faults>>
       \/ Fault /\ select' = NoSelect /\ clean' = (clean /\ select.wasClean) /\ UNCHANGED selected
    /\ UNCHANGED <<files, downloads, delete, provider>>

\* activate_local_provider; on an error the previous selection comes back, if it can be
\* written, and the configuration stays as far as it got.
Activate ==
    LET activated == [model |-> select.model, listed |-> TRUE]
    IN  /\ select.pc = "config"
        /\ select' = NoSelect
        /\ \/ provider' = activated /\ UNCHANGED <<selected, clean, faults>>
           \/ /\ Fault
              /\ provider' \in {provider, activated}
              /\ selected' \in {selected, select.previous}
              /\ clean' = (clean /\ select.wasClean /\ provider' = provider
                                 /\ selected' = select.previous)
        /\ UNCHANGED <<files, downloads, delete>>

(***************************************************************************)
(* The application quits or dies, perhaps with the machine: what was not    *)
(* synced may be lost.                                                     *)
(***************************************************************************)

AfterPowerLoss(f) ==
    IF f = None THEN {None}
    ELSE IF f.synced THEN {f}
    ELSE {f, [f EXCEPT !.good = FALSE]}

Quit ==
    /\ Fault
    /\ \/ UNCHANGED files
       \/ \E m \in Models :
             /\ \E f \in AfterPowerLoss(final[m]) : final' = [final EXCEPT ![m] = f]
             /\ \E f \in AfterPowerLoss(partial[m]) : partial' = [partial EXCEPT ![m] = f]
    /\ call' = [c \in Calls |-> Idle] /\ active' = {}
    /\ delete' = NoDelete /\ select' = NoSelect
    /\ clean' = (clean /\ select.pc = "idle" /\ ~delete.wasSelected)
    /\ UNCHANGED <<selected, provider>>

Next ==
    \/ \E c \in Calls : Download(c) \/ \E m \in Wanted : Begin(c, m)
    \/ \E m \in Models : Cancel(m) \/ Delete(m) \/ Select(m)
    \/ DeleteStep
    \/ WriteSelection \/ Activate
    \/ Quit

Spec == Init /\ [][Next]_vars

\* The user tries again; a connection that breaks now and then does not always break
\* before the answer, or before the next chunk.
Fairness ==
    /\ \A m \in Wanted : SF_vars(\E c \in Calls : Begin(c, m))
    /\ \A c \in Calls : WF_vars(Download(c)) /\ SF_vars(Answer(c)) /\ SF_vars(Chunk(c))

FairSpec == Spec /\ Fairness

(***************************************************************************)
(* Properties                                                              *)
(***************************************************************************)

\* local_models.rs:4, "Downloads ... become visible to inference only after their pinned
\* SHA-256 has been verified and the partial file has been synced": whatever was resumed,
\* deleted under a download, cut or lost with the power, a model's file is the model's.
InstalledIsVerified ==
    \A m \in Models : final[m] # None =>
        final[m] = [len |-> Size, good |-> TRUE, synced |-> TRUE]

\* local-models.json and the configuration are two files written by two commands: once the
\* last selection was made alone and without error, they name the same model, it is there,
\* and what was deleted since is in neither.
SelectionAgrees ==
    clean /\ DeleteAt("idle") /\ select.pc = "idle" =>
        IF selected = None THEN provider.model = None
        ELSE provider = [model |-> selected, listed |-> TRUE] /\ Available(selected)

\* The flag is looked at between two chunks only, and not by the verification: even so a
\* download flagged by a delete brings nothing back once the delete has removed its partial.
DeletedStaysDeleted ==
    [][\A m \in Models : final[m] = None /\ final'[m] # None =>
          \E c \in Calls : call[c].model = m /\ At(c, "verified") /\ ~call[c].doomed]_vars

\* A user who keeps trying gets the model, or ends with a partial of the full length, whose
\* rest no server will send: a complete download that was cut before its hash was taken, or
\* one that failed it, is resumed from its end for ever, until the model is deleted.
DownloadSettles ==
    \A m \in Wanted : \/ <>[](final[m] # None)
                      \/ <>[](partial[m] # None /\ partial[m].len = Size)

=============================================================================
