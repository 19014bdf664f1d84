------------------------------ MODULE Evidence ------------------------------
(***************************************************************************)
(* Evidence files: their way into storage, and the transcription of        *)
(* recordings, in chunks, by a pool of worker threads.                     *)
(*                                                                         *)
(* An upload is a stream that can be read once.  The bucket, ffmpeg and    *)
(* the speech service are external and fail at any call.                   *)
(***************************************************************************)
EXTENDS Naturals, Sequences, SequencesExt, FiniteSets

CONSTANTS
    Files,
    Chunks,       \* bound: pieces of 40 seconds of a recording
    Workers       \* max_workers

ASSUME EvidenceAssumption ==
    Chunks \in Nat \ {0} /\ Workers \in Nat \ {0}

VARIABLES
    upload,      \* each file's request
    stream,      \* what is left to read of its body
    stored,      \* objects: file, place, contents
    job,         \* _JOB_STORE
    stt          \* each file's transcription

evidenceVars == <<upload, stream, stored, job, stt>>

StoragePlaces == {"bucket", "disk"}
Contents == {"whole", "empty"}
ChunkIds == 1..Chunks

Uploads == [route : {"none", "evidence", "audio", "async"},
            at    : {"new", "cloud", "local", "answered", "refused"},
            url   : StoragePlaces \cup {"none"}]

Transcriptions ==
    [at        : {"none", "download", "workers", "exit", "text", "nothing"},
     queued    : Seq(ChunkIds),     \* submitted, no worker yet
     running   : SUBSET ChunkIds,
     finished  : SUBSET ChunkIds,   \* futures as_completed has not yielded
     heard     : SUBSET ChunkIds,   \* chunks with words
     left      : SUBSET ChunkIds,   \* futures not yielded so far
     text      : Seq(ChunkIds)]     \* the chunks whose words were joined

NoTranscription ==
    [at |-> "none", queued |-> <<>>, running |-> {}, finished |-> {},
     heard |-> {}, left |-> {}, text |-> <<>>]

EvidenceInit ==
    /\ upload = [f \in Files |-> [route |-> "none", at |-> "new", url |-> "none"]]
    /\ stream = [f \in Files |-> "whole"]
    /\ stored = {}
    /\ job = [f \in Files |-> "none"]
    /\ stt = [f \in Files |-> NoTranscription]

-----------------------------------------------------------------------------
(* Uploads.                                                                *)

\* Without GCS_BUCKET_NAME the evidence route goes to the disk, the others fail.
UploadFile(f, route, bucket) ==
    /\ upload[f].at = "new"
    /\ upload' = [upload EXCEPT
           ![f].route = route,
           ![f].at = IF bucket THEN "cloud"
                     ELSE IF route = "evidence" THEN "local" ELSE "refused"]
    /\ UNCHANGED <<stream, stored, job, stt>>

Answer(f, place) == [upload EXCEPT ![f].at = "answered", ![f].url = place]

Recording == [NoTranscription EXCEPT !.at = "download"]

\* /ai/upload-audio transcribes in its request, /ai/upload-audio-async in a
\* task with a job.  The task calls update_job_success or update_job_error,
\* which are not defined, and dies: nothing changes the job again.
QueueJob(f) ==
    /\ job' = IF upload[f].route = "async" THEN [job EXCEPT ![f] = "queued"] ELSE job
    /\ stt' = IF upload[f].route = "evidence" THEN stt
              ELSE [stt EXCEPT ![f] = Recording]

\* upload_audio_file and upload_image_file read, convert and store.
CloudStores(f) ==
    /\ upload[f].at = "cloud"
    /\ stored' = stored \cup {[file |-> f, place |-> "bucket",
                               contents |-> stream[f]]}
    /\ stream' = [stream EXCEPT ![f] = "empty"]
    /\ upload' = Answer(f, "bucket")
    /\ QueueJob(f)

\* The body was read, and the object may be there all the same.
CloudFails(f) ==
    /\ upload[f].at = "cloud"
    /\ stream' = [stream EXCEPT ![f] = "empty"]
    /\ stored' \in {stored, stored \cup {[file |-> f, place |-> "bucket",
                                          contents |-> stream[f]]}}
    /\ upload' = [upload EXCEPT ![f].at = IF upload[f].route = "evidence"
                                          THEN "local" ELSE "refused"]
    /\ UNCHANGED <<job, stt>>

\* What is left of the body; an image that cannot be enhanced stays as it is.
LocalStores(f) ==
    /\ upload[f].at = "local"
    /\ stored' = stored \cup {[file |-> f, place |-> "disk",
                               contents |-> stream[f]]}
    /\ stream' = [stream EXCEPT ![f] = "empty"]
    /\ upload' = Answer(f, "disk")
    /\ UNCHANGED <<job, stt>>

LocalFails(f) ==
    /\ upload[f].at = "local"
    /\ upload' = [upload EXCEPT ![f].at = "refused"]
    /\ UNCHANGED <<stream, stored, job, stt>>

-----------------------------------------------------------------------------
(* transcribe_audio.                                                       *)

\* The triage and the /ai/transcribe route, with the url of an answer.
AskTranscription(f) ==
    /\ upload[f].at = "answered" /\ upload[f].route = "evidence"
    /\ stt[f].at = "none"
    /\ stt' = [stt EXCEPT ![f] = Recording]
    /\ UNCHANGED <<upload, stream, stored, job>>

\* A url of the disk has no scheme and is refused; ffmpeg may find nothing.
Download(f, n) ==
    /\ stt[f].at = "download"
    /\ stt' = [stt EXCEPT ![f] =
           IF n = 0 \/ upload[f].url = "disk"
           THEN [@ EXCEPT !.at = "nothing"]
           ELSE [@ EXCEPT !.at = "workers", !.left = 1..n,
                          !.queued = [c \in 1..n |-> c]]]
    /\ UNCHANGED <<upload, stream, stored, job>>

InPool(f) == stt[f].at \in {"workers", "exit"}

\* Fault: a chunk that waits is not started any more after the deadline.
StartChunkInTime(f) ==
    /\ stt[f].at = "workers" /\ stt[f].queued # <<>>
    /\ Cardinality(stt[f].running) < Workers
    /\ stt' = [stt EXCEPT ![f].running = @ \cup {Head(stt[f].queued)},
                          ![f].queued = Tail(@)]
    /\ UNCHANGED <<upload, stream, stored, job>>

StartChunk(f) ==
    /\ InPool(f) /\ stt[f].queued # <<>>
    /\ Cardinality(stt[f].running) < Workers
    /\ stt' = [stt EXCEPT ![f].running = @ \cup {Head(stt[f].queued)},
                          ![f].queued = Tail(@)]
    /\ UNCHANGED <<upload, stream, stored, job>>

\* The service answers, with words, without any, or with an error.
ChunkEnds(f, c, words) ==
    /\ InPool(f) /\ c \in stt[f].running
    /\ stt' = [stt EXCEPT
           ![f].running = @ \ {c}, ![f].finished = @ \cup {c},
           ![f].heard = IF words THEN @ \cup {c} ELSE @]
    /\ UNCHANGED <<upload, stream, stored, job>>

\* Fault: the words are appended as the futures complete.
CollectAsTheyCome(f, c) ==
    /\ stt[f].at = "workers" /\ c \in stt[f].finished \cap stt[f].left
    /\ stt' = [stt EXCEPT ![f].left = @ \ {c},
                          ![f].text = IF c \in stt[f].heard THEN Append(@, c) ELSE @]
    /\ UNCHANGED <<upload, stream, stored, job>>

\* Each result goes to the place of its chunk, here the k-th of those with
\* words so far.
Collect(f, c) ==
    LET text == stt[f].text IN
    /\ stt[f].at = "workers" /\ c \in stt[f].finished \cap stt[f].left
    /\ \E k \in 1..Len(text) + 1 :
          /\ \A i \in DOMAIN text : i < k <=> text[i] < c
          /\ stt' = [stt EXCEPT ![f].left = @ \ {c},
                                ![f].text = IF c \in stt[f].heard
                                            THEN InsertAt(text, k, c) ELSE text]
    /\ UNCHANGED <<upload, stream, stored, job>>

\* All futures were yielded.
JoinTexts(f) ==
    /\ stt[f].at = "workers" /\ stt[f].left = {}
    /\ stt' = [stt EXCEPT ![f].at = IF stt[f].text = <<>> THEN "nothing"
                                    ELSE "text"]
    /\ UNCHANGED <<upload, stream, stored, job>>

\* as_completed raises after two minutes; what was collected is thrown away.
Deadline(f) ==
    /\ stt[f].at = "workers" /\ stt[f].left # {}
    /\ stt' = [stt EXCEPT ![f].at = "exit"]
    /\ UNCHANGED <<upload, stream, stored, job>>

\* The pool's exit waits for every chunk, those not yet started included.
LeavePool(f) ==
    /\ stt[f].at = "exit"
    /\ stt[f].queued = <<>> /\ stt[f].running = {}
    /\ stt' = [stt EXCEPT ![f].at = "nothing", ![f].text = <<>>]
    /\ UNCHANGED <<upload, stream, stored, job>>

TranscriptionStep(f) ==
    \/ \E n \in 0..Chunks : Download(f, n)
    \/ StartChunk(f)
    \/ \E c \in ChunkIds : \/ \E words \in BOOLEAN : ChunkEnds(f, c, words)
                           \/ Collect(f, c)
    \/ JoinTexts(f) \/ LeavePool(f)

EvidenceNext ==
    \E f \in Files :
        \/ \E route \in {"evidence", "audio", "async"}, bucket \in BOOLEAN :
               UploadFile(f, route, bucket)
        \/ CloudStores(f) \/ CloudFails(f) \/ LocalStores(f) \/ LocalFails(f)
        \/ AskTranscription(f) \/ TranscriptionStep(f) \/ Deadline(f)

EvidenceSpec == EvidenceInit /\ [][EvidenceNext]_evidenceVars

(* The worker threads and the task's thread run; a call of the speech      *)
(* service ends, at the latest with its client's own timeout.              *)
EvidenceFairness == \A f \in Files : WF_evidenceVars(TranscriptionStep(f))

-----------------------------------------------------------------------------
(* Properties.                                                             *)

\* Requests, objects, jobs and transcriptions keep their types.
EvidenceTypeOK ==
    /\ upload \in [Files -> Uploads]
    /\ stream \in [Files -> Contents]
    /\ stored \subseteq [file : Files, place : StoragePlaces, contents : Contents]
    /\ job \in [Files -> {"none", "queued"}]
    /\ stt \in [Files -> Transcriptions]

\* The words of a transcript are those of all the chunks that had any, in
\* the order of the recording, whichever worker was faster.
TranscriptInOrder ==
    \A f \in Files :
        LET text == stt[f].text IN
        stt[f].at = "text" =>
            /\ ToSet(text) = stt[f].heard
            /\ \A i, j \in DOMAIN text : i < j => text[i] < text[j]

\* A transcription ends, also when the deadline passes while chunks wait for
\* a worker.
TranscriptionEnds ==
    \A f \in Files : stt[f].at = "download" ~> stt[f].at \in {"text", "nothing"}
=============================================================================
