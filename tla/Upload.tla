------------------------------- MODULE Upload -------------------------------
(***************************************************************************)
(* The part of api/ingest.py before a job is queued: an upload is streamed *)
(* to disk under a size cap, sniffed, given a row, a progress hash and a   *)
(* message.  Four stores, no common transaction; what follows the row is   *)
(* modelled with its consumer in IngestJob.  Paths hold the job's id, so   *)
(* uploads do not meet on disk, but one crash ends all of them.            *)
(***************************************************************************)
EXTENDS Integers

CONSTANTS UploadIds,
          MaxChunks,    \* bound: chunks of a file
          CapChunks,    \* ingest.max_upload_mb, in chunks
          MaxUploadFaults

ASSUME UploadAssumption == {MaxChunks, CapChunks, MaxUploadFaults} \subseteq Nat

VARIABLES upload,        \* where each create_ingest_job is, what it was sent, what it knows
          disk,          \* what lies under the job's path
          jobRow,        \* ingest_jobs
          queuedJob,     \* the kind in the job's message on `ingest_jobs`
          uploadFaults

uploadVars == <<upload, disk, jobRow, queuedJob, uploadFaults>>

Extensions == {"pcap", "csv", "exe"}
Contents == {"magic", "text", "binary"}
Nothing == "nothing"
NoFile == -1

UploadInit ==
    /\ upload = [u \in UploadIds |-> [pos |-> "new", ext |-> "exe", content |-> "binary",
                                      chunks |-> 0, written |-> 0]]
    /\ disk = [u \in UploadIds |-> [dir |-> FALSE, chunks |-> NoFile]]
    /\ jobRow = [u \in UploadIds |-> Nothing]
    /\ queuedJob = [u \in UploadIds |-> Nothing]
    /\ uploadFaults = 0

Step(u, pos) == upload[u].pos = pos

\* job_kind_for: the first bytes must bear out the extension.
job_kind_for(content, ext) ==
    IF ext = "pcap" THEN (IF content = "magic" THEN "pcap" ELSE Nothing)
    ELSE (IF content = "text" THEN "csv" ELSE Nothing)

-----------------------------------------------------------------------------
\* validated_extension, the speed check, mkdir and open: no await between.
Open(u) ==
    /\ Step(u, "new")
    /\ \E ext \in Extensions, content \in Contents, n \in 0 .. MaxChunks, speedOk \in BOOLEAN :
          LET ok == ext # "exe" /\ speedOk
          IN /\ upload' = [upload EXCEPT ![u] = [pos |-> IF ok THEN "reading" ELSE "refused",
                                ext |-> ext, content |-> content, chunks |-> n, written |-> 0]]
             /\ disk' = IF ok THEN [disk EXCEPT ![u] = [dir |-> TRUE, chunks |-> 0]] ELSE disk
    /\ UNCHANGED <<jobRow, queuedJob, uploadFaults>>

\* The HTTPException path: the partial file, then the directory.
Refuse(u) ==
    /\ upload' = [upload EXCEPT ![u].pos = "refused"]
    /\ disk' = [disk EXCEPT ![u] = [dir |-> FALSE, chunks |-> NoFile]]
    /\ UNCHANGED <<jobRow, queuedJob, uploadFaults>>

\* Mutant: the cap is compared with what was written before this chunk.
ReadChecksLate(u) ==
    /\ Step(u, "reading") /\ upload[u].written < upload[u].chunks
    /\ IF upload[u].written > CapChunks THEN Refuse(u)
       ELSE /\ upload' = [upload EXCEPT ![u].written = @ + 1]
            /\ disk' = [disk EXCEPT ![u].chunks = @ + 1]
            /\ UNCHANGED <<jobRow, queuedJob, uploadFaults>>

\* A chunk arrives: over the cap it is not written.
Read(u) ==
    /\ Step(u, "reading") /\ upload[u].written < upload[u].chunks
    /\ IF upload[u].written + 1 > CapChunks THEN Refuse(u)
       ELSE /\ upload' = [upload EXCEPT ![u].written = @ + 1]
            /\ disk' = [disk EXCEPT ![u].chunks = @ + 1]
            /\ UNCHANGED <<jobRow, queuedJob, uploadFaults>>

\* The end of the file: an empty one, or one that is not what it says, is refused.
Sniff(u) ==
    /\ Step(u, "reading") /\ upload[u].written = upload[u].chunks
    /\ IF upload[u].written = 0 \/ job_kind_for(upload[u].content, upload[u].ext) = Nothing
       THEN Refuse(u)
       ELSE /\ upload' = [upload EXCEPT ![u].pos = "insert"]
            /\ UNCHANGED <<disk, jobRow, queuedJob, uploadFaults>>

\* INSERT_JOB and commit.
CommitJob(u) ==
    /\ Step(u, "insert")
    /\ jobRow' = [jobRow EXCEPT ![u] = job_kind_for(upload[u].content, upload[u].ext)]
    /\ upload' = [upload EXCEPT ![u].pos = "publish"]
    /\ UNCHANGED <<disk, queuedJob, uploadFaults>>

\* init_progress, then the message.
QueueJob(u) ==
    /\ Step(u, "publish")
    /\ queuedJob' = [queuedJob EXCEPT ![u] = job_kind_for(upload[u].content, upload[u].ext)]
    /\ upload' = [upload EXCEPT ![u].pos = "accepted"]
    /\ UNCHANGED <<disk, jobRow, uploadFaults>>

\* A read or a write of the file fails, or the request is cancelled: the
\* partial file goes, but this is no HTTPException and the directory stays.
StoreFails(u) ==
    /\ Step(u, "reading") /\ uploadFaults < MaxUploadFaults
    /\ uploadFaults' = uploadFaults + 1
    /\ upload' = [upload EXCEPT ![u].pos = "failed"]
    /\ disk' = [disk EXCEPT ![u].chunks = NoFile]
    /\ UNCHANGED <<jobRow, queuedJob>>

\* Postgres or Redis fails: nothing on disk or in the other store is undone.
\* Postgres may have committed before the connection was lost.
StatementFails(u) ==
    /\ upload[u].pos \in {"insert", "publish"} /\ uploadFaults < MaxUploadFaults
    /\ uploadFaults' = uploadFaults + 1
    /\ upload' = [upload EXCEPT ![u].pos = "failed"]
    /\ \/ UNCHANGED <<jobRow, queuedJob>>
       \/ /\ Step(u, "insert")
          /\ jobRow' = [jobRow EXCEPT ![u] = job_kind_for(upload[u].content, upload[u].ext)]
          /\ UNCHANGED queuedJob
       \/ /\ Step(u, "publish")
          /\ queuedJob' = [queuedJob EXCEPT ![u] =
                             job_kind_for(upload[u].content, upload[u].ext)]
          /\ UNCHANGED jobRow
    /\ UNCHANGED disk

\* The API process dies: what was on its way stays where it is.
ApiDies ==
    /\ uploadFaults < MaxUploadFaults
    /\ uploadFaults' = uploadFaults + 1
    /\ upload' = [u \in UploadIds |-> IF upload[u].pos \in {"reading", "insert", "publish"}
                                      THEN [upload[u] EXCEPT !.pos = "failed"] ELSE upload[u]]
    /\ UNCHANGED <<disk, jobRow, queuedJob>>

UploadNext ==
    \/ ApiDies
    \/ \E u \in UploadIds : Open(u) \/ Read(u) \/ Sniff(u) \/ CommitJob(u) \/ QueueJob(u)
                            \/ StoreFails(u) \/ StatementFails(u)

UploadSpec == UploadInit /\ [][UploadNext]_uploadVars

-----------------------------------------------------------------------------
(* A message names a file that is there in full, within the cap and of the *)
(* kind its row and its message say, whatever failed around it: a worker   *)
(* never reads a partial file or looks for a row that was not committed;   *)
(* and a refused upload leaves nothing in any store.  (ingest.py:206-207,  *)
(* 267.)                                                                   *)
QueuedIsWhole ==
    /\ \A u \in UploadIds : queuedJob[u] # Nothing =>
          /\ disk[u].chunks = upload[u].chunks /\ disk[u].chunks \in 1 .. CapChunks
          /\ jobRow[u] = queuedJob[u]
          /\ queuedJob[u] = IF upload[u].content = "magic" THEN "pcap" ELSE "csv"
    /\ \A u \in UploadIds : upload[u].pos = "refused" =>
          /\ ~disk[u].dir /\ disk[u].chunks = NoFile
          /\ jobRow[u] = Nothing /\ queuedJob[u] = Nothing
=============================================================================
