-------------------------- MODULE LocalModels_proofs --------------------------
(***************************************************************************)
(* What the models directory, the selection and the configuration keep, for *)
(* any models, sizes, pending downloads and number of faults.               *)
(***************************************************************************)
EXTENDS LocalModels, TLAPS

CallRec == [pc : {"idle", "sent", "reading", "hashing", "verified"},
            model : Models \cup {None}, cancelled : BOOLEAN,
            from : 0 .. Size, downloaded : 0 .. Size + 1,
            fd : {"closed", "partial", "final", "gone"}, doomed : BOOLEAN]

File == Content \cup {None}

-----------------------------------------------------------------------------
(* Types *)

LEMMA Records ==
    /\ Idle \in CallRec
    /\ Empty \in Content /\ None \notin Content
BY LocalModelsAssumption DEF Idle, CallRec, Empty, Content

\* What an answer can be about: a partial, no longer than one byte too long.
LEMMA AppendedTyped ==
    ASSUME NEW f \in Content, NEW c \in Calls, NEW good \in BOOLEAN
    PROVE  Appended(f, c, good) \in Content
BY LocalModelsAssumption DEF Appended, Content

LEMMA ResumeTyped ==
    ASSUME NEW f \in File PROVE Resume(f) \in 0 .. Size
BY LocalModelsAssumption DEF Resume, File, Content

LEMMA SyncedTyped ==
    ASSUME NEW f \in Content PROVE Synced(f) \in Content /\ Synced(f).synced
BY DEF Synced, Content

LEMMA PowerLossTyped ==
    ASSUME NEW f \in File PROVE AfterPowerLoss(f) \subseteq File
BY DEF AfterPowerLoss, File, Content

(***************************************************************************)
(* A download in its course.  Two downloads never share a model, a          *)
(* descriptor is open only while the body is read, and the partial is what  *)
(* the stage of the download says of it.                                   *)
(***************************************************************************)
Full == [len |-> Size, good |-> TRUE, synced |-> TRUE]

Staged(r, f) ==
    /\ r.pc = "idle" => r = Idle
    /\ r.pc \in {"sent", "hashing", "verified"} => r.fd = "closed"
    /\ r.pc = "reading" => \/ r.fd = "partial" /\ f # None
                           \/ r.fd = "gone" /\ f = None
    /\ r.pc = "hashing" /\ f # None => f.synced
    /\ r.pc = "verified" /\ f # None => f = Full
    /\ r.doomed => r.cancelled
    /\ r.doomed /\ r.pc \in {"hashing", "verified"} => f = None
    /\ r.doomed /\ r.pc = "reading" => f = None \/ r.downloaded < Size

CallOK(c) ==
    /\ Staged(call[c], partial[call[c].model])
    /\ call[c].pc # "idle" => call[c].model \in active

OneDownload ==
    \A c, d \in Calls : call[c].pc # "idle" /\ call[c].model = call[d].model => c = d

FinalOK == \A m \in Models : final[m] \in {None, Full}

DeleteOK ==
    /\ delete \in [pc : {"idle", "config", "final", "partial", "state"},
                   model : Models \cup {None}, wasSelected : BOOLEAN]
    /\ delete.pc # "idle" => delete.model \in Models

FilesTyped ==
    /\ final \in [Models -> File] /\ partial \in [Models -> File]
    /\ call \in [Calls -> CallRec] /\ active \subseteq Models
    /\ DeleteOK

DownloadInv ==
    /\ FilesTyped
    /\ FinalOK
    /\ OneDownload
    /\ \A c \in Calls : CallOK(c)

LEMMA CallFields ==
    ASSUME FilesTyped, NEW c \in Calls
    PROVE  /\ call[c] \in CallRec
           /\ call[c].pc \in {"idle", "sent", "reading", "hashing", "verified"}
           /\ call[c].model \in Models \cup {None}
           /\ call[c].cancelled \in BOOLEAN /\ call[c].doomed \in BOOLEAN
           /\ call[c].from \in 0 .. Size /\ call[c].downloaded \in 0 .. Size + 1
           /\ call[c].fd \in {"closed", "partial", "final", "gone"}
BY DEF FilesTyped, CallRec

\* A download under way has a model, and that model has a file or none.
LEMMA Busy ==
    ASSUME DownloadInv, NEW c \in Calls, call[c].pc # "idle"
    PROVE  /\ call[c].model \in Models /\ call[c].model \in active
           /\ partial[call[c].model] \in File /\ final[call[c].model] \in {None, Full}
           /\ Staged(call[c], partial[call[c].model])
           /\ call[c].fd # "final"
           /\ \A d \in Calls \ {c} : call[d].model # call[c].model
<1>1. Staged(call[c], partial[call[c].model]) /\ call[c].model \in active
  BY DEF DownloadInv, CallOK, Staged
<1>2. call[c].fd # "final"
  BY <1>1, CallFields DEF Staged, DownloadInv
<1> QED BY <1>1, <1>2 DEF DownloadInv, FilesTyped, FinalOK, OneDownload

LEMMA IdleStaged ==
    /\ \A f : Staged(Idle, f)
    /\ Idle.pc = "idle" /\ Idle.model = None /\ Idle.model \notin Models
BY LocalModelsAssumption DEF Staged, Idle

\* A step of one download, which goes on or leaves the map, and touches its partial only.
LEMMA OneCallStep ==
    ASSUME DownloadInv, NEW c \in Calls, call[c].pc # "idle", NEW r \in CallRec,
           call' = [call EXCEPT ![c] = r],
           \/ r = Idle /\ active' = active \ {call[c].model}
           \/ /\ r.pc # "idle" /\ r.model = call[c].model /\ active' = active
              /\ Staged(r, partial'[call[c].model]),
           partial' \in [Models -> File],
           \A n \in Models \ {call[c].model} : partial'[n] = partial[n],
           final' \in [Models -> File], FinalOK',
           delete' = delete
    PROVE  DownloadInv'
<1> DEFINE m == call[c].model
<1>1. /\ m \in Models /\ m \in active /\ m # None
      /\ \A d \in Calls \ {c} : call[d].model # m
  BY Busy, LocalModelsAssumption
<1>2. call'[c] = r /\ (\A d \in Calls \ {c} : call'[d] = call[d])
  BY DEF DownloadInv, FilesTyped
<1>3. FilesTyped'
  BY <1>1 DEF DownloadInv, FilesTyped, DeleteOK
<1>4. OneDownload'
  <2>1. r.pc # "idle" => r.model = m
    BY IdleStaged
  <2>2. ASSUME NEW d \in Calls \ {c}, call[d].pc # "idle" PROVE call[d].model # r.model
    BY <1>1, <2>2, IdleStaged, Busy
  <2> QED BY <1>1, <1>2, <2>1, <2>2 DEF DownloadInv, OneDownload
<1>5. ASSUME NEW d \in Calls PROVE CallOK(d)'
  <2>1. CASE d = c
    <3>1. CASE r = Idle
      BY <1>2, <2>1, <3>1, IdleStaged DEF CallOK
    <3>2. CASE r # Idle
      BY <1>1, <1>2, <2>1, <3>2 DEF CallOK
    <3> QED BY <3>1, <3>2
  <2>2. CASE d # c /\ call[d].pc = "idle"
    <3>1. call'[d] = Idle
      BY <1>2, <2>2 DEF DownloadInv, CallOK, Staged
    <3> QED BY <3>1, IdleStaged DEF CallOK
  <2>3. CASE d # c /\ call[d].pc # "idle"
    <3>1. call[d].model \in Models /\ call[d].model # m /\ call'[d] = call[d]
      BY <1>1, <1>2, <2>3, Busy
    <3>2. partial'[call[d].model] = partial[call[d].model] /\ call[d].model \in active'
      BY <2>3, <3>1, Busy
    <3>3. Staged(call[d], partial[call[d].model])
      BY DEF DownloadInv, CallOK
    <3> QED BY <3>1, <3>2, <3>3 DEF CallOK
  <2> QED BY <2>1, <2>2, <2>3
<1> QED BY <1>3, <1>4, <1>5 DEF DownloadInv

LEMMA InitSafe == Init => DownloadInv
<1> SUFFICES ASSUME Init PROVE DownloadInv
  OBVIOUS
<1>1. Full \in File
  BY LocalModelsAssumption DEF Full, File, Content
<1>2. FilesTyped /\ FinalOK
  BY <1>1, Records DEF Init, FilesTyped, FinalOK, Full, File, NoDelete, DeleteOK
<1>3. \A c \in Calls : call[c] = Idle
  BY DEF Init
<1> QED BY <1>2, <1>3, IdleStaged DEF DownloadInv, OneDownload, CallOK

LEMMA BeginSafe ==
    ASSUME DownloadInv, NEW c \in Calls, NEW m \in Models, Begin(c, m) PROVE DownloadInv'
<1> DEFINE r == [Idle EXCEPT !.pc = "sent", !.model = m, !.from = Resume(partial[m])]
<1>1. /\ call[c].pc = "idle" /\ m \notin active
      /\ call' = [call EXCEPT ![c] = r] /\ active' = active \cup {m}
      /\ final' = final /\ delete' = delete
  BY DEF Begin, At, files, selection
<1>2. r \in CallRec /\ r.pc = "sent" /\ r.model = m /\ \A f : Staged(r, f)
  <2>1. Resume(partial[m]) \in 0 .. Size
    BY ResumeTyped DEF DownloadInv, FilesTyped
  <2>2. r \in CallRec
    BY <2>1, Records DEF CallRec
  <2>3. r.pc = "sent" /\ r.model = m /\ r.doomed = FALSE /\ r.fd = "closed"
    BY DEF Idle
  <2> HIDE DEF r
  <2> QED BY <2>2, <2>3 DEF Staged
<1> HIDE DEF r
<1>3. call'[c] = r /\ (\A d \in Calls \ {c} : call'[d] = call[d])
  BY <1>1 DEF DownloadInv, FilesTyped
<1>4. partial' \in [Models -> File] /\ (\A n \in Models \ {m} : partial'[n] = partial[n])
  BY DEF Begin, DownloadInv, FilesTyped, File
<1>5. FilesTyped' /\ FinalOK'
  BY <1>1, <1>2, <1>4 DEF DownloadInv, FilesTyped, FinalOK, DeleteOK
<1>6. \A d \in Calls : call[d].model # m
  <2>1. Idle.model = None /\ None # m
    BY LocalModelsAssumption DEF Idle
  <2> QED BY <1>1, <2>1 DEF DownloadInv, CallOK, Staged
<1>7. OneDownload'
  BY <1>2, <1>3, <1>6 DEF DownloadInv, OneDownload
<1>8. ASSUME NEW d \in Calls PROVE CallOK(d)'
  <2>1. CASE d = c
    BY <1>1, <1>2, <1>3, <2>1 DEF CallOK
  <2>2. CASE d # c /\ call[d].pc = "idle"
    <3>1. call'[d] = Idle
      BY <1>3, <2>2 DEF DownloadInv, CallOK, Staged
    <3> QED BY <3>1, IdleStaged DEF CallOK
  <2>3. CASE d # c /\ call[d].pc # "idle"
    <3>1. /\ call[d].model \in Models /\ call'[d] = call[d]
          /\ partial'[call[d].model] = partial[call[d].model]
      BY <1>3, <1>4, <1>6, <2>3, Busy
    <3> QED BY <1>1, <2>3, <3>1 DEF DownloadInv, CallOK
  <2> QED BY <2>1, <2>2, <2>3
<1> QED BY <1>5, <1>7, <1>8 DEF DownloadInv

\* Every error, and a stop between two chunks.
LEMMA EndSafe ==
    ASSUME DownloadInv, NEW c \in Calls, call[c].pc # "idle", End(c),
           UNCHANGED <<final, partial, delete>>
    PROVE  DownloadInv'
<1>1. partial' \in [Models -> File] /\ final' \in [Models -> File] /\ FinalOK'
  BY DEF DownloadInv, FilesTyped, FinalOK
<1> QED BY <1>1, Records, OneCallStep DEF End

LEMMA AnswerSafe ==
    ASSUME DownloadInv, NEW c \in Calls, Answer(c) PROVE DownloadInv'
<1> DEFINE m == call[c].model
<1>1. call[c].pc = "sent" /\ call[c].from < Size /\ call[c].from \in 0 .. Size
  BY CallFields DEF Answer, At, DownloadInv
<1>2. /\ m \in Models /\ partial[m] \in File
      /\ (call[c].doomed => call[c].cancelled)
  BY <1>1, Busy DEF Staged
<1>3. PICK content \in {Empty, IF partial[m] = None THEN Empty ELSE partial[m]},
           offset \in {0, call[c].from} : Open(c, content, offset)
  BY <1>1 DEF Answer
<1>4. /\ final' = final /\ active' = active /\ delete' = delete
      /\ content \in Content /\ content # None
  BY <1>2, Records DEF Answer, selection, File
<1> DEFINE r == [call[c] EXCEPT !.pc = "reading", !.fd = "partial", !.downloaded = offset]
<1>5. /\ partial' = [partial EXCEPT ![m] = content]
      /\ call' = [call EXCEPT ![c] = r]
  BY <1>3, CallFields DEF Open, DownloadInv, FilesTyped
<1>6. /\ r \in CallRec /\ r.pc = "reading" /\ r.fd = "partial" /\ r.downloaded = offset
      /\ r.model = m /\ r.doomed = call[c].doomed /\ r.cancelled = call[c].cancelled
  <2>1. offset \in 0 .. Size + 1
    BY <1>1, LocalModelsAssumption
  <2>2. call[c] \in CallRec
    BY CallFields DEF DownloadInv
  <2>3. r \in CallRec
    BY <2>1, <2>2 DEF CallRec
  <2> QED BY <2>2, <2>3 DEF CallRec
<1> HIDE DEF r
<1>7. /\ partial' \in [Models -> File] /\ partial'[m] # None
      /\ \A n \in Models \ {m} : partial'[n] = partial[n]
  BY <1>2, <1>4, <1>5 DEF DownloadInv, FilesTyped, File
<1>8. final' \in [Models -> File] /\ FinalOK'
  BY <1>4 DEF DownloadInv, FilesTyped, FinalOK
<1>9. offset < Size
  BY <1>1, LocalModelsAssumption
<1>10. Staged(r, partial'[m])
  BY <1>2, <1>6, <1>7, <1>9 DEF Staged
<1> QED BY <1>1, <1>4, <1>5, <1>6, <1>7, <1>8, <1>10, OneCallStep

LEMMA ChunkSafe ==
    ASSUME DownloadInv, NEW c \in Calls, Chunk(c) PROVE DownloadInv'
<1> DEFINE m == call[c].model
           r == [call[c] EXCEPT !.downloaded = @ + 1]
<1>1. /\ call[c].pc = "reading" /\ call[c].cancelled = FALSE
      /\ call[c].downloaded \in 0 .. Size + 1 /\ call[c].downloaded <= Size
      /\ active' = active /\ delete' = delete
      /\ call' = [call EXCEPT ![c] = r]
  <2>1. call[c].downloaded \in 0 .. Size + 1 /\ call[c].cancelled \in BOOLEAN
    BY CallFields DEF DownloadInv
  <2>2. call[c].pc = "reading" /\ ~call[c].cancelled
    BY DEF Chunk, At
  <2>3. call[c].downloaded < Size \/ call[c].downloaded <= Size
    BY DEF Chunk
  <2>4. call[c].downloaded <= Size
    BY <2>1, <2>3, LocalModelsAssumption
  <2> QED BY <2>1, <2>2, <2>4 DEF Chunk, DownloadInv, FilesTyped, selection
<1>2. /\ m \in Models /\ partial[m] \in File /\ call[c].doomed = FALSE
      /\ \/ call[c].fd = "partial" /\ partial[m] # None
         \/ call[c].fd = "gone" /\ partial[m] = None
  BY <1>1, Busy, CallFields DEF Staged, DownloadInv
<1>3. PICK good \in BOOLEAN : WriteTo(c, good)
  BY DEF Chunk
<1>4. final' = final
  BY <1>2, <1>3 DEF WriteTo
<1>5. /\ r \in CallRec /\ r.pc = "reading" /\ r.fd = call[c].fd /\ r.model = m
      /\ r.doomed = FALSE
  BY <1>1, <1>2, CallFields, LocalModelsAssumption DEF CallRec, DownloadInv
<1> HIDE DEF r
<1>6. /\ partial' \in [Models -> File]
      /\ \A n \in Models \ {m} : partial'[n] = partial[n]
      /\ partial'[m] = None <=> partial[m] = None
  <2>1. CASE call[c].fd = "partial"
    <3>1. Appended(partial[m], c, good) \in Content
      BY <1>2, <2>1, AppendedTyped DEF File
    <3> QED BY <1>2, <1>3, <2>1, <3>1, Records DEF WriteTo, DownloadInv, FilesTyped, File
  <2>2. CASE call[c].fd = "gone"
    BY <1>3, <2>2 DEF WriteTo, DownloadInv, FilesTyped
  <2> QED BY <1>2, <2>1, <2>2
<1>7. final' \in [Models -> File] /\ FinalOK'
  BY <1>4 DEF DownloadInv, FilesTyped, FinalOK
<1>8. Staged(r, partial'[m])
  BY <1>2, <1>5, <1>6 DEF Staged
<1> QED BY <1>1, <1>5, <1>6, <1>7, <1>8, OneCallStep

LEMMA FinishSafe ==
    ASSUME DownloadInv, NEW c \in Calls, Finish(c) PROVE DownloadInv'
<1> DEFINE m == call[c].model
           r == [call[c] EXCEPT !.pc = "hashing", !.fd = "closed"]
<1>1. /\ call[c].pc = "reading" /\ delete' = delete
      /\ \/ /\ call[c].downloaded = Size
            /\ call' = [call EXCEPT ![c] = r] /\ active' = active
         \/ End(c)
  BY CallFields DEF Finish, At, DownloadInv, FilesTyped, selection
<1>2. /\ m \in Models /\ partial[m] \in File /\ Staged(call[c], partial[m])
      /\ \/ call[c].fd = "partial" /\ partial[m] # None
         \/ call[c].fd = "gone" /\ partial[m] = None
  BY <1>1, Busy DEF Staged
<1>3. final' = final
  BY <1>2 DEF Finish
<1>4. /\ partial' \in [Models -> File]
      /\ \A n \in Models \ {m} : partial'[n] = partial[n]
      /\ partial[m] = None => partial'[m] = None
      /\ partial'[m] # None => partial'[m].synced
  <2>1. CASE call[c].fd = "partial"
    <3>1. Synced(partial[m]) \in Content /\ Synced(partial[m]).synced
      BY <1>2, <2>1, SyncedTyped DEF File
    <3> QED BY <1>2, <2>1, <3>1, Records DEF Finish, DownloadInv, FilesTyped, File
  <2>2. CASE call[c].fd = "gone"
    BY <1>2, <2>2 DEF Finish, DownloadInv, FilesTyped
  <2> QED BY <1>2, <2>1, <2>2
<1>5. final' \in [Models -> File] /\ FinalOK'
  BY <1>3 DEF DownloadInv, FilesTyped, FinalOK
<1>6. /\ r \in CallRec /\ r.pc = "hashing" /\ r.fd = "closed" /\ r.model = m
      /\ r.doomed = call[c].doomed /\ r.cancelled = call[c].cancelled
  BY CallFields DEF CallRec, DownloadInv
<1> HIDE DEF r
<1>7. CASE call[c].downloaded = Size /\ call' = [call EXCEPT ![c] = r] /\ active' = active
  <2>1. Staged(r, partial'[m])
    BY <1>1, <1>2, <1>4, <1>6, <1>7, LocalModelsAssumption DEF Staged
  <2> QED BY <1>1, <1>4, <1>5, <1>6, <1>7, <2>1, OneCallStep
<1>8. CASE End(c)
  BY <1>1, <1>4, <1>5, <1>8, Records, OneCallStep DEF End
<1> QED BY <1>1, <1>7, <1>8

LEMMA VerifySafe ==
    ASSUME DownloadInv, NEW c \in Calls, Verify(c) PROVE DownloadInv'
<1> DEFINE m == call[c].model
           r == [call[c] EXCEPT !.pc = "verified"]
<1>1. /\ call[c].pc = "hashing" /\ UNCHANGED <<final, partial, delete>>
      /\ \/ /\ partial[m] # None /\ partial[m].good /\ partial[m].len = Size
            /\ call' = [call EXCEPT ![c] = r] /\ active' = active
         \/ End(c)
  BY CallFields DEF Verify, At, DownloadInv, FilesTyped, files, selection
<1>2. m \in Models /\ partial[m] \in File /\ Staged(call[c], partial[m])
  BY <1>1, Busy
<1>3. CASE /\ partial[m] # None /\ partial[m].good /\ partial[m].len = Size
           /\ call' = [call EXCEPT ![c] = r] /\ active' = active
  <2>1. partial[m] = Full
    BY <1>1, <1>2, <1>3 DEF Staged, File, Content, Full
  <2>2. /\ r \in CallRec /\ r.pc = "verified" /\ r.fd = "closed" /\ r.model = m
        /\ r.doomed = FALSE
    BY <1>1, <1>2, <1>3, CallFields DEF CallRec, DownloadInv, Staged
  <2> HIDE DEF r
  <2>3. Staged(r, partial'[m])
    BY <1>1, <2>1, <2>2 DEF Staged
  <2>4. partial' \in [Models -> File] /\ final' \in [Models -> File] /\ FinalOK'
    BY <1>1 DEF DownloadInv, FilesTyped, FinalOK
  <2> QED BY <1>1, <1>3, <2>2, <2>3, <2>4, OneCallStep
<1>4. CASE End(c)
  BY <1>1, <1>4, EndSafe
<1> QED BY <1>1, <1>3, <1>4

LEMMA InstallSafe ==
    ASSUME DownloadInv, NEW c \in Calls, Install(c) PROVE DownloadInv'
<1> DEFINE m == call[c].model
<1>1. call[c].pc = "verified" /\ active' = active \ {m} /\ delete' = delete
  BY DEF Install, At, selection
<1>2. /\ m \in Models /\ partial[m] \in File /\ Staged(call[c], partial[m])
      /\ \A d \in Calls \ {c} : call[d].model # m
  BY <1>1, Busy
<1>3. call' = [call EXCEPT ![c] = Idle]
  BY <1>2 DEF Install, DownloadInv, FilesTyped
<1>4. partial[m] \in {None, Full}
  BY <1>1, <1>2 DEF Staged
<1>5. /\ partial' \in [Models -> File] /\ final' \in [Models -> File] /\ FinalOK'
      /\ \A n \in Models \ {m} : partial'[n] = partial[n]
  <2>1. CASE partial[m] = None
    BY <1>2, <2>1 DEF Install, files, DownloadInv, FilesTyped, FinalOK
  <2>2. CASE partial[m] # None
    BY <1>2, <1>4, <2>2 DEF Install, DownloadInv, FilesTyped, FinalOK, File
  <2> QED BY <2>1, <2>2
<1> QED BY <1>1, <1>3, <1>5, Records, OneCallStep

LEMMA DownloadSafe ==
    ASSUME DownloadInv, NEW c \in Calls, Download(c) PROVE DownloadInv'
<1>1. CASE Break(c) \/ StopAtChunk(c)
  BY <1>1, EndSafe DEF Break, StopAtChunk, At, files, selection
<1> QED
  BY <1>1, AnswerSafe, ChunkSafe, FinishSafe, VerifySafe, InstallSafe DEF Download

\* A step that moves no download from its place.
LEMMA SamePlaces ==
    ASSUME DownloadInv, call' \in [Calls -> CallRec],
           \A c \in Calls : /\ call'[c].pc = call[c].pc /\ call'[c].model = call[c].model
                            /\ call[c].pc = "idle" => call'[c] = call[c]
                            /\ call[c].pc # "idle" =>
                                  Staged(call'[c], partial'[call[c].model]),
           active' = active, partial' \in [Models -> File],
           final' \in [Models -> File], FinalOK',
           DeleteOK'
    PROVE  DownloadInv'
<1>1. FilesTyped'
  BY DEF DownloadInv, FilesTyped
<1>2. OneDownload'
  BY DEF DownloadInv, OneDownload
<1>3. ASSUME NEW c \in Calls PROVE CallOK(c)'
  <2>1. CASE call[c].pc = "idle"
    <3>1. call'[c] = Idle
      BY <2>1 DEF DownloadInv, CallOK, Staged
    <3> QED BY <3>1, IdleStaged DEF CallOK
  <2>2. CASE call[c].pc # "idle"
    BY <2>2, Busy DEF CallOK
  <2> QED BY <2>1, <2>2
<1> QED BY <1>1, <1>2, <1>3 DEF DownloadInv

LEMMA FlagSafe ==
    ASSUME DownloadInv, NEW m \in Models, call' = Flagged(m),
           UNCHANGED <<final, partial, active>>,
           DeleteOK'
    PROVE  DownloadInv'
<1>1. ASSUME NEW c \in Calls
      PROVE  /\ call'[c] \in CallRec
             /\ call'[c].pc = call[c].pc /\ call'[c].model = call[c].model
             /\ call[c].pc = "idle" => call'[c] = call[c]
             /\ call[c].pc # "idle" => Staged(call'[c], partial'[call[c].model])
  <2>1. call[c] \in CallRec
    BY CallFields DEF DownloadInv
  <2>2. call[c].pc = "idle" => call[c].model # m
    BY IdleStaged DEF DownloadInv, CallOK, Staged
  <2>3. CASE call[c].model # m
    <3>1. call'[c] = call[c]
      BY <2>3 DEF Flagged
    <3> QED BY <2>1, <3>1 DEF DownloadInv, CallOK
  <2>4. CASE call[c].model = m
    <3> DEFINE r == [call[c] EXCEPT !.cancelled = TRUE]
    <3>1. call'[c] = r
      BY <2>4 DEF Flagged
    <3>2. /\ r \in CallRec /\ r.pc = call[c].pc /\ r.model = call[c].model
          /\ r.cancelled /\ r.doomed = call[c].doomed /\ r.fd = call[c].fd
          /\ r.downloaded = call[c].downloaded
      BY <2>1 DEF CallRec
    <3> HIDE DEF r
    <3>3. Staged(call[c], partial[m]) /\ call[c].pc # "idle"
      BY <2>2, <2>4 DEF DownloadInv, CallOK
    <3>4. Staged(r, partial[m])
      BY <3>2, <3>3 DEF Staged
    <3> QED BY <2>4, <3>1, <3>2, <3>3, <3>4
  <2> QED BY <2>3, <2>4
<1>2. call' \in [Calls -> CallRec]
  <2>1. call' = [c \in Calls |-> call'[c]]
    BY DEF Flagged
  <2> QED BY <1>1, <2>1
<1>3. partial' \in [Models -> File] /\ final' \in [Models -> File] /\ FinalOK'
  BY DEF DownloadInv, FilesTyped, FinalOK
<1> QED BY <1>1, <1>2, <1>3, SamePlaces

LEMMA RemoveFinalSafe == ASSUME DownloadInv, RemoveFinal PROVE DownloadInv'
<1>1. delete.model \in Models /\ DeleteOK'
  BY DEF RemoveFinal, DeleteAt, DeleteTo, DownloadInv, FilesTyped, DeleteOK
<1>2. call' = call
  <2>1. ASSUME NEW c \in Calls PROVE call[c].fd # "final"
    <3>1. CASE call[c].pc # "idle"
      BY <3>1, Busy
    <3>2. CASE call[c].pc = "idle"
      <4>1. call[c] = Idle
        BY <3>2 DEF DownloadInv, CallOK, Staged
      <4> QED BY <4>1 DEF Idle
    <3> QED BY <3>1, <3>2
  <2>2. call = [c \in Calls |-> call[c]]
    BY DEF DownloadInv, FilesTyped
  <2> QED BY <2>1, <2>2 DEF RemoveFinal
<1>3. UNCHANGED <<partial, active>>
  BY DEF RemoveFinal
<1>4. final' \in [Models -> File] /\ FinalOK'
  BY <1>1 DEF RemoveFinal, DownloadInv, FilesTyped, FinalOK, File
<1>5. \A c \in Calls : Staged(call[c], partial[call[c].model])
  BY DEF DownloadInv, CallOK
<1> QED BY <1>1, <1>2, <1>3, <1>4, <1>5, SamePlaces DEF DownloadInv, FilesTyped

LEMMA RemovePartialSafe == ASSUME DownloadInv, RemovePartial PROVE DownloadInv'
<1> DEFINE m == delete.model
<1>1. m \in Models /\ DeleteOK'
  BY DEF RemovePartial, DeleteAt, DeleteTo, DownloadInv, FilesTyped, NoDelete, DeleteOK
<1>2. UNCHANGED <<final, active>> /\ partial' = [partial EXCEPT ![m] = None]
  BY DEF RemovePartial
<1>3. /\ partial' \in [Models -> File] /\ partial'[m] = None
      /\ \A n \in Models \ {m} : partial'[n] = partial[n]
      /\ final' \in [Models -> File] /\ FinalOK'
  BY <1>1, <1>2 DEF DownloadInv, FilesTyped, FinalOK, File
<1>4. ASSUME NEW c \in Calls
      PROVE  /\ call'[c] \in CallRec
             /\ call'[c].pc = call[c].pc /\ call'[c].model = call[c].model
             /\ call[c].pc = "idle" => call'[c] = call[c]
             /\ call[c].pc # "idle" => Staged(call'[c], partial'[call[c].model])
  <2>1. call[c] \in CallRec
    BY CallFields DEF DownloadInv
  <2>2. call[c].pc = "idle" => call[c].model # m
    BY <1>1, IdleStaged DEF DownloadInv, CallOK, Staged
  <2>3. CASE call[c].model # m
    <3>1. call'[c] = call[c]
      BY <2>3 DEF RemovePartial
    <3>2. call[c].pc # "idle" => partial'[call[c].model] = partial[call[c].model]
      BY <1>3, <2>3, Busy
    <3> QED BY <2>1, <3>1, <3>2 DEF DownloadInv, CallOK
  <2>4. CASE call[c].model = m
    <3> DEFINE r == [call[c] EXCEPT !.fd = IF @ = "partial" THEN "gone" ELSE @,
                                    !.doomed = @ \/ call[c].cancelled]
    <3>1. call'[c] = r
      BY <2>4 DEF RemovePartial
    <3>2. r \in CallRec
      BY <2>1 DEF CallRec
    <3>3. /\ r.pc = call[c].pc /\ r.model = call[c].model
          /\ r.cancelled = call[c].cancelled
          /\ r.fd = IF call[c].fd = "partial" THEN "gone" ELSE call[c].fd
      BY <2>1 DEF CallRec
    <3>4. r.doomed => call[c].doomed \/ call[c].cancelled
      BY <2>1 DEF CallRec
    <3> HIDE DEF r
    <3>5. Staged(call[c], partial[m]) /\ call[c].pc # "idle"
      BY <2>2, <2>4 DEF DownloadInv, CallOK
    <3>6. Staged(r, None)
      BY <3>3, <3>4, <3>5 DEF Staged
    <3> QED BY <1>3, <2>4, <3>1, <3>2, <3>3, <3>5, <3>6
  <2> QED BY <2>3, <2>4
<1>5. call' \in [Calls -> CallRec]
  <2>1. call' = [c \in Calls |-> call'[c]]
    BY DEF RemovePartial
  <2> QED BY <1>4, <2>1
<1> QED BY <1>1, <1>2, <1>3, <1>4, <1>5, SamePlaces

LEMMA QuitSafe == ASSUME DownloadInv, Quit PROVE DownloadInv'
<1>1. \A c \in Calls : call'[c] = Idle
  BY DEF Quit
<1>2. final' \in [Models -> File] /\ partial' \in [Models -> File] /\ FinalOK'
  <2>1. \A f \in {None, Full} : AfterPowerLoss(f) = {f}
    BY DEF AfterPowerLoss, Full
  <2>2. CASE UNCHANGED files
    BY <2>2 DEF files, DownloadInv, FilesTyped, FinalOK
  <2>3. CASE ~ UNCHANGED files
    <3>1. PICK n \in Models :
             /\ \E f \in AfterPowerLoss(final[n]) : final' = [final EXCEPT ![n] = f]
             /\ \E f \in AfterPowerLoss(partial[n]) : partial' = [partial EXCEPT ![n] = f]
      BY <2>3 DEF Quit
    <3>2. final' = final
      <4>1. AfterPowerLoss(final[n]) = {final[n]}
        BY <2>1 DEF DownloadInv, FinalOK
      <4> QED BY <3>1, <4>1 DEF DownloadInv, FilesTyped
    <3>3. AfterPowerLoss(partial[n]) \subseteq File
      BY PowerLossTyped DEF DownloadInv, FilesTyped
    <3> QED BY <3>1, <3>2, <3>3 DEF DownloadInv, FilesTyped, FinalOK
  <2> QED BY <2>2, <2>3
<1>3. FilesTyped'
  BY <1>2, Records DEF Quit, FilesTyped, NoDelete, DeleteOK
<1> QED BY <1>1, <1>2, <1>3, IdleStaged DEF DownloadInv, OneDownload, CallOK

\* The steps of the other commands that touch no model's file.
LEMMA OthersSafe ==
    ASSUME DownloadInv, UNCHANGED <<final, partial, call, active>>,
           DeleteOK'
    PROVE  DownloadInv'
<1>1. /\ \A c \in Calls : Staged(call[c], partial[call[c].model])
      /\ FinalOK'
  BY DEF DownloadInv, CallOK, FinalOK
<1> QED BY <1>1, SamePlaces DEF DownloadInv, FilesTyped

LEMMA DownloadStep == DownloadInv /\ [Next]_vars => DownloadInv'
<1> SUFFICES ASSUME DownloadInv, [Next]_vars PROVE DownloadInv'
  OBVIOUS
<1> USE DEF files, downloads, selection
<1>1. DeleteOK /\ (delete' = delete => DeleteOK')
  BY DEF DownloadInv, FilesTyped, DeleteOK
<1>2. CASE UNCHANGED vars
  BY <1>1, <1>2, OthersSafe DEF vars
<1>3. CASE \E c \in Calls : Download(c) \/ \E m \in Wanted : Begin(c, m)
  BY <1>3, DownloadSafe, BeginSafe, LocalModelsAssumption
<1>4. ASSUME NEW m \in Models, Cancel(m) PROVE DownloadInv'
  BY <1>1, <1>4, FlagSafe DEF Cancel
<1>5. ASSUME NEW m \in Models, Delete(m) PROVE DownloadInv'
  <2>1. DeleteOK'
    BY <1>5 DEF Delete, DeleteOK
  <2> QED BY <1>5, <2>1, FlagSafe DEF Delete
<1>6. ASSUME NEW m \in Models, Select(m) PROVE DownloadInv'
  BY <1>1, <1>6, OthersSafe DEF Select
<1>7. CASE RemoveFinal \/ RemovePartial
  BY <1>7, RemoveFinalSafe, RemovePartialSafe
<1>8. CASE Deactivate \/ RemoveFails \/ ClearSelection
  <2>1. UNCHANGED <<final, partial, call, active>>
    BY <1>8 DEF Deactivate, RemoveFails, ClearSelection
  <2>2. delete.pc # "idle" /\ delete' \in {NoDelete, [delete EXCEPT !.pc = "final"]}
    BY <1>8 DEF Deactivate, RemoveFails, ClearSelection, DeleteAt, DeleteTo
  <2>3. CASE delete' = NoDelete
    BY <2>1, <2>3, OthersSafe DEF NoDelete, DeleteOK
  <2>4. CASE delete' = [delete EXCEPT !.pc = "final"]
    <3>1. DeleteOK'
      BY <1>1, <2>2, <2>4 DEF DeleteOK
    <3> QED BY <2>1, <3>1, OthersSafe
  <2> QED BY <2>2, <2>3, <2>4
<1>9. CASE WriteSelection \/ Activate
  BY <1>1, <1>9, OthersSafe DEF WriteSelection, Activate
<1>10. CASE Quit
  BY <1>10, QuitSafe
<1> QED
  BY <1>2, <1>3, <1>4, <1>5, <1>6, <1>7, <1>8, <1>9, <1>10 DEF Next, DeleteStep

THEOREM DownloadsSafe == Spec => []DownloadInv
BY InitSafe, DownloadStep, PTL DEF Spec

\* local_models.rs:4, for any models, sizes, downloads and faults: a model's file is never
\* anything but the whole, verified and synced model.
THEOREM OnlyVerifiedIsInstalled == Spec => []InstalledIsVerified
<1>1. DownloadInv => InstalledIsVerified
  BY DEF DownloadInv, FinalOK, InstalledIsVerified, Full
<1> QED BY <1>1, DownloadsSafe, PTL

\* Only Install makes a file, and a download that a delete has flagged before it removed
\* the partial has no partial left to install.
THEOREM NothingComesBack == Spec => DeletedStaysDeleted
<1> DEFINE Revives == \A m \in Models : final[m] = None /\ final'[m] # None =>
                         \E c \in Calls : call[c].model = m /\ At(c, "verified")
                                         /\ ~call[c].doomed
<1>1. DownloadInv /\ [Next]_vars => [Revives]_vars
  <2> SUFFICES ASSUME DownloadInv, Next, NEW m \in Models,
                      final[m] = None, final'[m] # None
               PROVE  \E c \in Calls : call[c].model = m /\ At(c, "verified")
                                       /\ ~call[c].doomed
    BY DEF vars
  <2>1. ASSUME NEW c \in Calls, Install(c)
        PROVE  call[c].model = m /\ At(c, "verified") /\ ~call[c].doomed
    <3>1. At(c, "verified") /\ call[c].model = m /\ partial[m] # None
      BY <2>1 DEF Install, files, DownloadInv, FilesTyped
    <3>2. Staged(call[c], partial[m])
      BY <3>1 DEF DownloadInv, CallOK
    <3> QED BY <3>1, <3>2 DEF Staged, At
  <2>2. ASSUME NEW c \in Calls, Chunk(c) \/ Finish(c) PROVE final' = final
    <3>1. call[c].fd # "final"
      BY <2>2, Busy DEF Chunk, Finish, At
    <3> QED BY <2>2, <3>1 DEF Chunk, Finish, WriteTo
  <2>3. CASE RemoveFinal
    BY <2>3 DEF RemoveFinal, DownloadInv, FilesTyped
  <2>4. CASE Quit
    <3>1. \A n \in Models : AfterPowerLoss(final[n]) = {final[n]}
      BY DEF DownloadInv, FinalOK, AfterPowerLoss, Full
    <3> QED BY <2>4, <3>1 DEF Quit, files, DownloadInv, FilesTyped
  <2>5. CASE final' = final
    BY <2>5
  <2> QED BY <2>1, <2>2, <2>3, <2>4, <2>5 DEF Next, Download, Begin, Answer, Break, StopAtChunk,
       Verify, Cancel, Delete, Select, DeleteStep, Deactivate, RemoveFails, RemovePartial,
       ClearSelection, WriteSelection, Activate, files
<1> QED BY <1>1, DownloadsSafe, PTL DEF Spec, DeletedStaysDeleted

-----------------------------------------------------------------------------
(* The selection and the configuration                                     *)

\* The two files name one model that is there, or none.
Named(s, p) ==
    IF s = None THEN p.model = None
    ELSE p = [model |-> s, listed |-> TRUE] /\ Available(s)

SelectionTyped ==
    /\ select \in [pc : {"idle", "state", "config"}, model : Models \cup {None},
                   previous : Models \cup {None}, wasClean : BOOLEAN]
    /\ selected \in Models \cup {None}
    /\ provider \in [model : Models \cup {None}, listed : BOOLEAN]
    /\ clean \in BOOLEAN
    /\ faults \in 0 .. MaxFaults
    /\ select.pc # "idle" => select.model \in Models
    /\ delete.pc = "idle" => delete = NoDelete
    /\ delete.pc \in {"config", "state"} => delete.wasSelected

\* How far each command has brought the two files, when nothing has gone wrong.
Progress ==
    /\ delete.pc = "idle" \/ select.pc = "idle"
    /\ delete.pc = "idle" /\ select.pc = "idle" => Named(selected, provider)
    /\ delete.pc = "config" => Named(selected, provider) /\ selected = delete.model
    /\ delete.pc \in {"final", "partial"} =>
          /\ delete.wasSelected => provider.model = None
          /\ ~delete.wasSelected => Named(selected, provider) /\ selected # delete.model
    /\ delete.pc = "state" => provider.model = None
    /\ select.pc # "idle" => Available(select.model)
    /\ select.pc = "state" /\ select.wasClean =>
          Named(selected, provider) /\ select.previous = selected
    /\ select.pc = "config" =>
          /\ selected = select.model
          /\ select.wasClean => Named(select.previous, provider)

SelectionInv == SelectionTyped /\ (clean => Progress)

\* A step that takes no model away, and leaves selection and configuration alone.
LEMMA SelectionUndisturbed ==
    ASSUME SelectionInv, UNCHANGED <<delete, select, selected, provider, clean>>,
           faults' \in 0 .. MaxFaults,
           \A m \in Models : Available(m) => Available(m)'
    PROVE  SelectionInv'
<1>1. SelectionTyped'
  BY DEF SelectionInv, SelectionTyped
<1>2. \A m \in Models \cup {None} : Named(m, provider) => Named(m, provider)'
  BY DEF Named
<1>3. /\ selected \in Models \cup {None} /\ select.previous \in Models \cup {None}
      /\ select.pc # "idle" => select.model \in Models
  BY DEF SelectionInv, SelectionTyped
<1>4. /\ Named(selected, provider) => Named(selected, provider)'
      /\ Named(select.previous, provider) => Named(select.previous, provider)'
      /\ select.pc # "idle" /\ Available(select.model) => Available(select.model)'
  BY <1>2, <1>3
<1>5. clean' => Progress'
  BY <1>4 DEF SelectionInv, Progress
<1> QED BY <1>1, <1>5 DEF SelectionInv

LEMMA AvailableIsFull ==
    ASSUME DownloadInv, NEW m \in Models PROVE Available(m) <=> final[m] = Full
<1>1. Full \in Content
  BY LocalModelsAssumption DEF Full, Content
<1>2. Full # None /\ Full.len = Size
  BY <1>1, Records DEF Full
<1> QED BY <1>2 DEF DownloadInv, FinalOK, Available

\* Only a delete takes a model away.
LEMMA AvailableStays ==
    ASSUME DownloadInv, DownloadInv', NEW m \in Models, Available(m),
           \/ final' = final
           \/ \E c \in Calls : Download(c)
           \/ Quit
           \/ RemoveFinal /\ m # delete.model
    PROVE  Available(m)'
<1>1. final[m] = Full /\ Full # None
  BY AvailableIsFull DEF Available
<1>2. CASE final' = final
  BY <1>2 DEF Available
<1>3. ASSUME NEW c \in Calls, Download(c) PROVE final'[m] = Full
  <2>1. CASE Install(c)
    <3>1. final'[m] # None
      BY <1>1, <2>1 DEF Install, files, DownloadInv, FilesTyped
    <3> QED BY <3>1 DEF DownloadInv, FinalOK
  <2>2. CASE Chunk(c) \/ Finish(c)
    <3>1. call[c].fd # "final"
      BY <2>2, Busy DEF Chunk, Finish, At
    <3> QED BY <1>1, <2>2, <3>1 DEF Chunk, Finish, WriteTo
  <2> QED BY <1>1, <1>3, <2>1, <2>2 DEF Download, Answer, Break, StopAtChunk, Verify, files
<1>4. CASE Quit
  <2>1. \A n \in Models : AfterPowerLoss(final[n]) = {final[n]}
    BY DEF DownloadInv, FinalOK, AfterPowerLoss, Full
  <2> QED BY <1>1, <1>4, <2>1 DEF Quit, files, DownloadInv, FilesTyped, Available
<1>5. CASE RemoveFinal /\ m # delete.model
  BY <1>5 DEF RemoveFinal, Available, DownloadInv, FilesTyped
<1>6. final'[m] = Full => Available(m)'
  BY <1>1 DEF Available, Full
<1> QED BY <1>2, <1>3, <1>4, <1>5, <1>6

LEMMA SelectionInit == Init => SelectionInv
BY LocalModelsAssumption
   DEF Init, SelectionInv, SelectionTyped, Progress, Named, NoSelect, NoDelete

LEMMA FaultTyped == SelectionInv /\ Fault => faults' \in 0 .. MaxFaults
BY LocalModelsAssumption DEF SelectionInv, SelectionTyped, Fault

LEMMA DeleteKeeps ==
    ASSUME SelectionInv, DownloadInv, NEW m \in Models, Delete(m) PROVE SelectionInv'
<1>1. SelectionTyped'
  BY FaultTyped DEF Delete, DeleteAt, SelectionInv, SelectionTyped
<1>2. UNCHANGED <<selected, provider, final, select>>
  BY DEF Delete, files
<1>3. Named(selected, provider) => Named(selected, provider)'
  BY <1>2 DEF Named, Available
<1>4. clean' => Progress'
  <2> SUFFICES ASSUME clean' PROVE Progress'
    OBVIOUS
  <2>1. delete.pc = "idle" /\ select.pc = "idle" /\ Named(selected, provider)
    BY DEF Delete, DeleteAt, SelectionInv, SelectionTyped, Progress
  <2> QED BY <1>2, <1>3, <2>1 DEF Delete, Progress
<1> QED BY <1>1, <1>4 DEF SelectionInv

LEMMA DeactivateKeeps ==
    ASSUME SelectionInv, Deactivate PROVE SelectionInv'
<1>1. /\ delete.pc = "config" /\ delete.wasSelected
      /\ UNCHANGED <<selected, final, select>>
  BY DEF Deactivate, DeleteAt, SelectionInv, SelectionTyped, files
<1>2. Deactivated \in [model : Models \cup {None}, listed : BOOLEAN]
  BY DEF Deactivated, SelectionInv, SelectionTyped
<1>3. CASE provider' = Deactivated /\ DeleteTo("final") /\ UNCHANGED <<clean, faults>>
  <2>1. SelectionTyped'
    BY <1>1, <1>2, <1>3 DEF SelectionInv, SelectionTyped, DeleteTo
  <2>2. clean => \/ provider.model = delete.model /\ selected = delete.model
                 \/ provider.model = None
    BY <1>1 DEF SelectionInv, Progress, Named
  <2> QED BY <1>1, <1>3, <2>1, <2>2
          DEF SelectionInv, SelectionTyped, Progress, DeleteTo, Deactivated
<1>4. CASE Fault /\ DeleteTo("idle") /\ UNCHANGED <<provider, clean>>
  <2>1. SelectionTyped'
    BY <1>1, <1>4, FaultTyped DEF SelectionInv, SelectionTyped, DeleteTo, NoDelete
  <2>2. Named(selected, provider) => Named(selected, provider)'
    BY <1>1, <1>4 DEF Named, Available
  <2> QED BY <1>1, <1>4, <2>1, <2>2 DEF SelectionInv, Progress, DeleteTo, NoDelete
<1>5. CASE Fault /\ DeleteTo("idle") /\ provider' = Deactivated /\ clean' = FALSE
  BY <1>1, <1>2, <1>5, FaultTyped DEF SelectionInv, SelectionTyped, DeleteTo, NoDelete
<1> QED BY <1>3, <1>4, <1>5 DEF Deactivate

LEMMA RemovingKeeps ==
    ASSUME SelectionInv, DownloadInv, DownloadInv', RemoveFails \/ RemoveFinal \/ RemovePartial
    PROVE  SelectionInv'
<1>1. /\ delete.pc \in {"final", "partial"}
      /\ UNCHANGED <<selected, provider, select>>
  BY DEF RemoveFails, RemoveFinal, RemovePartial, DeleteAt
<1>2. faults' \in 0 .. MaxFaults
  BY FaultTyped DEF RemoveFails, RemoveFinal, RemovePartial, SelectionInv, SelectionTyped
<1>3. \/ delete' = NoDelete /\ clean' = (clean /\ ~delete.wasSelected) /\ final' = final
      \/ delete' = [delete EXCEPT !.pc = "partial"] /\ clean' = clean /\ RemoveFinal
      \/ /\ delete' = IF delete.wasSelected THEN [delete EXCEPT !.pc = "state"] ELSE NoDelete
         /\ clean' = clean /\ final' = final
  BY DEF RemoveFails, RemoveFinal, RemovePartial, DeleteTo, files
<1>4. /\ DeleteOK /\ delete.wasSelected \in BOOLEAN
      /\ [delete EXCEPT !.pc = "partial"].pc = "partial"
      /\ [delete EXCEPT !.pc = "partial"].wasSelected = delete.wasSelected
      /\ [delete EXCEPT !.pc = "partial"].model = delete.model
      /\ [delete EXCEPT !.pc = "state"].pc = "state"
      /\ [delete EXCEPT !.pc = "state"].wasSelected = delete.wasSelected
      /\ NoDelete.pc = "idle"
  BY DEF DownloadInv, FilesTyped, DeleteOK, NoDelete
<1>5. SelectionTyped'
  BY <1>1, <1>2, <1>3, <1>4 DEF SelectionInv, SelectionTyped
<1>6. ASSUME clean' PROVE Progress'
  <2>1. select.pc = "idle" /\ Progress
    BY <1>1, <1>3, <1>6 DEF SelectionInv, Progress
  <2>2. CASE delete.wasSelected
    BY <1>1, <1>3, <1>4, <1>6, <2>1, <2>2 DEF Progress
  <2>3. CASE ~delete.wasSelected
    <3>1. Named(selected, provider) /\ selected # delete.model
      BY <1>1, <2>1, <2>3 DEF Progress
    <3>2. final' = final \/ RemoveFinal
      BY <1>3
    <3>3. Named(selected, provider)'
      BY <1>1, <3>1, <3>2, AvailableStays DEF Named, SelectionInv, SelectionTyped
    <3>4. delete' = NoDelete \/ delete' = [delete EXCEPT !.pc = "partial"]
      BY <1>3, <2>3
    <3>5. CASE delete' = NoDelete
      BY <1>1, <1>4, <2>1, <3>3, <3>5 DEF Progress
    <3>6. CASE delete' = [delete EXCEPT !.pc = "partial"]
      BY <1>1, <1>4, <2>1, <2>3, <3>1, <3>3, <3>6 DEF Progress
    <3> QED BY <3>4, <3>5, <3>6
  <2> QED BY <2>2, <2>3
<1> QED BY <1>5, <1>6 DEF SelectionInv

LEMMA ClearKeeps ==
    ASSUME SelectionInv, ClearSelection PROVE SelectionInv'
<1>1. /\ delete.pc = "state" /\ delete' = NoDelete
      /\ UNCHANGED <<provider, select>>
      /\ \/ selected' = None /\ clean' = clean /\ faults' = faults
         \/ Fault /\ clean' = FALSE /\ selected' = selected
  BY DEF ClearSelection, DeleteAt, DeleteTo
<1>2. SelectionTyped'
  BY <1>1, FaultTyped DEF SelectionInv, SelectionTyped, NoDelete
<1>3. clean' => Progress'
  BY <1>1 DEF SelectionInv, Progress, Named, NoDelete
<1> QED BY <1>2, <1>3 DEF SelectionInv

LEMMA SelectKeeps ==
    ASSUME SelectionInv, NEW m \in Models, Select(m) PROVE SelectionInv'
<1>1. SelectionTyped'
  BY DEF Select, DeleteAt, SelectionInv, SelectionTyped
<1>2. UNCHANGED <<selected, provider, final, delete>>
  BY DEF Select, files
<1>3. Available(m)' /\ (Named(selected, provider) => Named(selected, provider)')
  BY <1>2 DEF Select, Named, Available
<1>4. ASSUME clean' PROVE Progress'
  <2>1. delete.pc = "idle" /\ select.pc = "idle" /\ (clean => Named(selected, provider))
    BY <1>4 DEF Select, DeleteAt, SelectionInv, Progress
  <2>2. select' = [pc |-> "state", model |-> m, previous |-> selected, wasClean |-> clean]
    BY DEF Select
  <2> QED BY <1>2, <1>3, <2>1, <2>2 DEF Progress
<1> QED BY <1>1, <1>4 DEF SelectionInv

LEMMA WriteSelectionKeeps ==
    ASSUME SelectionInv, WriteSelection PROVE SelectionInv'
<1>1. select.pc = "state" /\ UNCHANGED <<provider, final, delete>>
  BY DEF WriteSelection, files
<1>2. \A m : /\ Available(m) => Available(m)'
             /\ Named(m, provider) => Named(m, provider)'
  BY <1>1 DEF Available, Named
<1>3. CASE selected' = select.model /\ select' = [select EXCEPT !.pc = "config"]
           /\ UNCHANGED <<clean, faults>>
  <2>1. /\ select'.pc = "config" /\ select'.model = select.model
        /\ select'.previous = select.previous /\ select'.wasClean = select.wasClean
    BY <1>3 DEF SelectionInv, SelectionTyped
  <2>2. SelectionTyped'
    BY <1>1, <1>3 DEF SelectionInv, SelectionTyped
  <2>3. clean => /\ delete.pc = "idle" /\ Available(select.model)'
                 /\ select.wasClean => Named(select.previous, provider)'
    <3>1. /\ Available(select.model) => Available(select.model)'
          /\ Named(select.previous, provider) => Named(select.previous, provider)'
      BY <1>1, <2>1 DEF Available, Named
    <3> QED BY <1>1, <3>1 DEF SelectionInv, Progress
  <2>4. clean' => Progress'
    BY <1>1, <1>3, <2>1, <2>3 DEF Progress
  <2> QED BY <2>2, <2>4 DEF SelectionInv
<1>4. CASE Fault /\ select' = NoSelect /\ clean' = (clean /\ select.wasClean)
           /\ UNCHANGED selected
  <2>1. SelectionTyped'
    BY <1>1, <1>4, FaultTyped DEF SelectionInv, SelectionTyped, NoSelect
  <2>2. clean' => Progress'
    BY <1>1, <1>2, <1>4 DEF SelectionInv, Progress, NoSelect
  <2> QED BY <2>1, <2>2 DEF SelectionInv
<1> QED BY <1>3, <1>4 DEF WriteSelection

LEMMA ActivateKeeps ==
    ASSUME SelectionInv, Activate PROVE SelectionInv'
<1> DEFINE activated == [model |-> select.model, listed |-> TRUE]
<1>1. select.pc = "config" /\ select' = NoSelect /\ UNCHANGED <<final, delete>>
  BY DEF Activate, files
<1>2. /\ activated \in [model : Models \cup {None}, listed : BOOLEAN]
      /\ select.previous \in Models \cup {None} /\ select.wasClean \in BOOLEAN
  BY <1>1 DEF SelectionInv, SelectionTyped
<1>3. \A m, p : Named(m, p) => Named(m, p)'
  BY <1>1 DEF Named, Available
<1>4. CASE provider' = activated /\ UNCHANGED <<selected, clean, faults>>
  <2>1. SelectionTyped'
    BY <1>1, <1>2, <1>4 DEF SelectionInv, SelectionTyped, NoSelect
  <2>2. clean => Named(selected, activated)
    BY <1>1, LocalModelsAssumption DEF SelectionInv, SelectionTyped, Progress, Named
  <2>3. clean' => Progress'
    BY <1>1, <1>3, <1>4, <2>2 DEF SelectionInv, Progress, NoSelect
  <2> QED BY <2>1, <2>3 DEF SelectionInv
<1>5. CASE /\ Fault
           /\ provider' \in {provider, activated}
           /\ selected' \in {selected, select.previous}
           /\ clean' = (clean /\ select.wasClean /\ provider' = provider
                              /\ selected' = select.previous)
  <2>1. SelectionTyped'
    BY <1>1, <1>2, <1>5, FaultTyped DEF SelectionInv, SelectionTyped, NoSelect
  <2>2. clean' => Progress'
    BY <1>1, <1>3, <1>5 DEF SelectionInv, Progress, NoSelect
  <2> QED BY <2>1, <2>2 DEF SelectionInv
<1> QED BY <1>4, <1>5 DEF Activate

LEMMA QuitKeeps ==
    ASSUME SelectionInv, DownloadInv, DownloadInv', Quit PROVE SelectionInv'
<1>1. /\ delete' = NoDelete /\ select' = NoSelect /\ UNCHANGED <<selected, provider>>
      /\ clean' = (clean /\ select.pc = "idle" /\ ~delete.wasSelected)
  BY DEF Quit
<1>2. SelectionTyped'
  BY <1>1, FaultTyped DEF Quit, SelectionInv, SelectionTyped, NoSelect, NoDelete
<1>3. ASSUME clean' PROVE Progress'
  <2>1. Named(selected, provider)
    BY <1>1, <1>3 DEF SelectionInv, SelectionTyped, Progress, DownloadInv, FilesTyped, DeleteOK
  <2>2. Named(selected, provider)'
    BY <1>1, <2>1, AvailableStays DEF Named, SelectionInv, SelectionTyped
  <2> QED BY <1>1, <2>2 DEF Progress, NoSelect, NoDelete
<1> QED BY <1>2, <1>3 DEF SelectionInv

LEMMA SelectionStep ==
    SelectionInv /\ DownloadInv /\ DownloadInv' /\ [Next]_vars => SelectionInv'
<1> SUFFICES ASSUME SelectionInv, DownloadInv, DownloadInv', [Next]_vars PROVE SelectionInv'
  OBVIOUS
<1>1. CASE UNCHANGED vars
  <2>1. \A m \in Models : Available(m) => Available(m)'
    BY <1>1 DEF vars, Available
  <2> QED BY <1>1, <2>1, SelectionUndisturbed DEF vars, SelectionInv, SelectionTyped
<1>2. ASSUME \/ \E c \in Calls : Download(c) \/ \E m \in Wanted : Begin(c, m)
             \/ \E m \in Models : Cancel(m)
      PROVE  SelectionInv'
  <2>1. UNCHANGED <<delete, select, selected, provider, clean>>
    BY <1>2 DEF Download, Begin, Answer, Break, Chunk, StopAtChunk, Finish, Verify, Install,
                Cancel, selection
  <2>2. faults' \in 0 .. MaxFaults
    BY <1>2, FaultTyped DEF Download, Begin, Answer, Break, Chunk, StopAtChunk, Finish, Verify,
       Install, Cancel, SelectionInv, SelectionTyped
  <2>3. \/ \E c \in Calls : Download(c)
        \/ final' = final
    BY <1>2 DEF Begin, Cancel, files
  <2> QED BY <2>1, <2>2, <2>3, AvailableStays, SelectionUndisturbed
<1>3. ASSUME NEW m \in Models, Delete(m) \/ Select(m) PROVE SelectionInv'
  BY <1>3, DeleteKeeps, SelectKeeps
<1>4. CASE DeleteStep
  BY <1>4, DeactivateKeeps, RemovingKeeps, ClearKeeps DEF DeleteStep
<1>5. CASE WriteSelection \/ Activate
  BY <1>5, WriteSelectionKeeps, ActivateKeeps
<1>6. CASE Quit
  BY <1>6, QuitKeeps
<1> QED BY <1>1, <1>2, <1>3, <1>4, <1>5, <1>6 DEF Next

THEOREM SelectionsSafe == Spec => []SelectionInv
BY SelectionInit, SelectionStep, DownloadsSafe, PTL DEF Spec

\* The commands' states, files and selections stay in their types, and so do the faults.
THEOREM TypeCorrect == Spec => []TypeOK
<1>1. DownloadInv /\ SelectionInv => TypeOK
  BY DEF DownloadInv, FilesTyped, File, CallRec, DeleteOK, SelectionInv, SelectionTyped, TypeOK
<1> QED BY <1>1, DownloadsSafe, SelectionsSafe, PTL

\* However downloads, deletes, selections, quits and failed saves are interleaved, a
\* selection that was made alone and without error names a model that is there, in both
\* files, until it is deleted, and nothing after.
THEOREM SelectionsAgree == Spec => []SelectionAgrees
<1>1. SelectionInv => SelectionAgrees
  BY DEF SelectionInv, Progress, Named, SelectionAgrees, DeleteAt
<1> QED BY <1>1, SelectionsSafe, PTL

=============================================================================
