------------------------------- MODULE Uploads -------------------------------
(***************************************************************************)
(* Chunked uploads: services/upload_service.py over the Upload and Blob    *)
(* tables, the working files of TempUploadStore and the blob store         *)
(* (storage/blobs.py), as the routes of api/v1/uploads.py drive them.      *)
(*                                                                         *)
(* A request reads its row in one step, touches the file system in the     *)
(* next (the code up to the following await is synchronous) and commits    *)
(* when get_db is torn down, as a blind UPDATE of the columns it changed.  *)
(* Content[u] is what the client of upload u means to send; a content      *)
(* stands for its own sha256.  With the S3 blob store a content is kept    *)
(* twice: in the local cache and, pushed after it, in the bucket.  A       *)
(* rejected request changes nothing and is left out, unless it is rejected *)
(* after it has touched a file.                                            *)
(***************************************************************************)
EXTENDS Integers, Sequences, SequencesExt, FiniteSets

CONSTANTS Upload,
          Content,     \* the bytes of each upload; expected_size is their number
          Key,         \* the Idempotency-Key each upload is created with
          Request,     \* concurrent requests
          Backend,     \* settings.blob_backend
          NoFile, NoUpload,
          FaultKinds,  \* which faults may happen
          MaxFaults    \* bound on the number of faults

Bytes == UNION {{Content[u][i] : i \in DOMAIN Content[u]} : u \in Upload}

ASSUME UploadAssumption ==
  /\ \A u \in Upload : Content[u] \in Seq(Bytes) /\ Content[u] # <<>>
  /\ NoFile \notin Seq(Bytes)
  /\ NoUpload \notin Upload
  /\ Backend \in {"fs", "s3"}
  /\ FaultKinds \subseteq {"abort", "write", "badsha", "push"}
  /\ MaxFaults \in Nat

VARIABLES
  row,       \* the Upload rows: state, received_bytes and blob_sha
  expired,   \* uploads past expires_at
  temp,      \* the working file of each upload
  blobs,     \* contents in the blob store; with S3, in its local cache
  bucket,    \* contents in the bucket, with S3
  blobRows,  \* contents with a Blob row
  req,       \* what each request is doing
  faults

uploadVars == <<row, expired, temp, blobs, bucket, blobRows, req, faults>>

Size(u) == Len(Content[u])
FileSize(u) == IF temp[u] = NoFile THEN 0 ELSE Len(temp[u])
Chunk(u, offset, n) == SubSeq(Content[u], offset + 1, offset + n)

\* An upload nobody has created; init_upload opens it.
NewUpload == [state |-> "new", received |-> 0, blob |-> <<>>]

Idle == [pc |-> "idle", upload |-> NoUpload, offset |-> 0, len |-> 0, good |-> TRUE,
         data |-> <<>>, known |-> FALSE, reap |-> {}]
Return(r) == req' = [req EXCEPT ![r] = Idle]

Fault(kind) ==
  /\ kind \in FaultKinds
  /\ faults < MaxFaults
  /\ faults' = faults + 1

\* get_upload: the row exists and has not expired.
Visible(u) == row[u].state \notin {"new", "gone"}
              /\ (u \in expired => row[u].state = "finalized")

-----------------------------------------------------------------------------
(* init_upload and gc_expired_uploads. *)

\* The rows gc_expired_uploads selects.
Reapable == {u \in expired : row[u].state \in {"open", "received"}}

\* TempUploadStore.discard of each of them.
Discarded == [u \in Upload |-> IF u \in Reapable THEN NoFile ELSE temp[u]]

\* init_upload up to its flush: the expired uploads' files are discarded, and an
\* existing row with the same key is looked up.
InitRead(r, u) ==
  /\ req[r] = Idle
  /\ row[u].state = "new"
  /\ temp' = Discarded
  /\ req' = [req EXCEPT ![r] =
       [Idle EXCEPT !.pc = "init", !.upload = u, !.reap = Reapable,
          !.known = \E v \in Upload \ Reapable :
                      Key[v] = Key[u] /\ row[v].state \notin {"new", "gone"}]]
  /\ UNCHANGED <<row, expired, blobs, bucket, blobRows, faults>>

\* Mutant of InitCommit: no unique index behind the look-up of the key.
InitCommitTwice(r) ==
  LET me == req[r]
      kept == [v \in Upload |-> IF v \in me.reap THEN [row[v] EXCEPT !.state = "gone"]
                                                 ELSE row[v]]
  IN  /\ me.pc = "init"
      /\ row' = IF me.known THEN kept ELSE [kept EXCEPT ![me.upload].state = "open"]
      /\ Return(r)
      /\ UNCHANGED <<expired, temp, blobs, bucket, blobRows, faults>>

\* The transaction: the deletes, by id, and the new row; or, when the key was
\* taken meanwhile, an IntegrityError that rolls both back.
InitCommit(r) ==
  LET me == req[r]
      kept == [v \in Upload |-> IF v \in me.reap THEN [row[v] EXCEPT !.state = "gone"]
                                                 ELSE row[v]]
      taken == \E v \in Upload \ me.reap :
                 Key[v] = Key[me.upload] /\ row[v].state \notin {"new", "gone"}
  IN  /\ me.pc = "init"
      /\ \/ me.known /\ row' = kept
         \/ ~me.known /\ taken /\ UNCHANGED row
         \/ ~me.known /\ ~taken /\ row' = [kept EXCEPT ![me.upload].state = "open"]
      /\ Return(r)
      /\ UNCHANGED <<expired, temp, blobs, bucket, blobRows, faults>>

\* The janitor's gc_expired_uploads phase: files first, the rows at the commit.
GcRead(r) ==
  /\ req[r] = Idle
  /\ Reapable # {}
  /\ temp' = Discarded
  /\ req' = [req EXCEPT ![r] = [Idle EXCEPT !.pc = "gc", !.reap = Reapable]]
  /\ UNCHANGED <<row, expired, blobs, bucket, blobRows, faults>>

GcCommit(r) ==
  /\ req[r].pc = "gc"
  /\ row' = [v \in Upload |-> IF v \in req[r].reap THEN [row[v] EXCEPT !.state = "gone"]
                                                   ELSE row[v]]
  /\ Return(r)
  /\ UNCHANGED <<expired, temp, blobs, bucket, blobRows, faults>>

\* expires_at passes.
Expire(u) ==
  /\ row[u].state \in {"open", "received"}
  /\ u \notin expired
  /\ expired' = expired \cup {u}
  /\ UNCHANGED <<row, temp, blobs, bucket, blobRows, req, faults>>

-----------------------------------------------------------------------------
(* append_chunk. *)

\* The row is read and passes the checks.
PatchRead(r, u, offset, n) ==
  /\ req[r] = Idle
  /\ Visible(u)
  /\ row[u].state = "open"
  /\ offset = row[u].received
  /\ offset + n <= Size(u)
  /\ req' = [req EXCEPT ![r] =
       [Idle EXCEPT !.pc = "append", !.upload = u, !.offset = offset, !.len = n]]
  /\ UNCHANGED <<row, expired, temp, blobs, bucket, blobRows, faults>>

\* What opening the file with "a+b" and writing k bytes of the chunk leaves.
Written(r, k) ==
  LET u == req[r].upload
  IN  [temp EXCEPT ![u] = (IF @ = NoFile THEN <<>> ELSE @) \o Chunk(u, req[r].offset, k)]

\* Mutant of PatchAppend: the offset is not compared with the size of the file.
PatchAppendUnchecked(r) ==
  /\ req[r].pc = "append"
  /\ temp' = Written(r, req[r].len)
  /\ req' = [req EXCEPT ![r].pc = "patch"]
  /\ UNCHANGED <<row, expired, blobs, bucket, blobRows, faults>>

\* TempUploadStore.append.
PatchAppend(r) ==
  LET me == req[r]
  IN  /\ me.pc = "append"
      /\ \/ /\ me.offset # FileSize(me.upload)
            /\ temp' = Written(r, 0)
            /\ Return(r)
         \/ /\ me.offset = FileSize(me.upload)
            /\ temp' = Written(r, me.len)
            /\ req' = [req EXCEPT ![r].pc = "patch"]
      /\ UNCHANGED <<row, expired, blobs, bucket, blobRows, faults>>

\* The write fails, or the process dies, part of the way.
PatchWriteFails(r) ==
  /\ req[r].pc = "append"
  /\ req[r].offset = FileSize(req[r].upload)
  /\ Fault("write")
  /\ \E k \in 0..(req[r].len - 1) : temp' = Written(r, k)
  /\ Return(r)
  /\ UNCHANGED <<row, expired, blobs, bucket, blobRows>>

\* The commit: received_bytes as it was loaded plus the chunk, and the state only
\* when that completes the upload.
PatchCommit(r) ==
  LET me == req[r]
      u == me.upload
      received == me.offset + me.len
  IN  /\ me.pc = "patch"
      /\ row' = IF row[u].state = "gone" THEN row
                ELSE [row EXCEPT ![u].received = received,
                                 ![u].state = IF received = Size(u) THEN "received" ELSE @]
      /\ Return(r)
      /\ UNCHANGED <<expired, temp, blobs, bucket, blobRows, faults>>

-----------------------------------------------------------------------------
(* finalize_upload. *)

\* The row is read: a finalized one is returned as it is, an incomplete one is
\* rejected.  A client may send the wrong sha.
FinRead(r, u, good) ==
  /\ req[r] = Idle
  /\ Visible(u)
  /\ row[u].state = "received" \/ (row[u].state = "open" /\ row[u].received = Size(u))
  /\ IF good THEN UNCHANGED faults ELSE Fault("badsha")
  /\ req' = [req EXCEPT ![r] = [Idle EXCEPT !.pc = "move", !.upload = u, !.good = good]]
  /\ UNCHANGED <<row, expired, temp, blobs, bucket, blobRows>>

\* Mutant of Pushed: a content in the cache is taken to be in the bucket.
PushedUnlessCached(data) == IF data \in blobs THEN bucket ELSE bucket \cup {data}

\* S3BlobStore: whatever the cache holds, the bucket is asked before the upload is
\* skipped.
Pushed(data) == bucket \cup {data}

\* put_stream of the two stores: the content is moved under its hash, once; with S3 it
\* is in the bucket too when the call returns.
FSBlobStore(data) == blobs' = blobs \cup {data} /\ UNCHANGED bucket
S3BlobStore(data) == blobs' = blobs \cup {data} /\ bucket' = Pushed(data)

\* get_blob_store: the store the settings name.
put_stream(data) == IF Backend = "s3" THEN S3BlobStore(data) ELSE FSBlobStore(data)

\* TempUploadStore.finalize_into: only what has been stored is removed.
finalize_into(u) == put_stream(temp[u]) /\ temp' = [temp EXCEPT ![u] = NoFile]

\* The payload is moved, then its sha and its size are checked.
FinMove(r) ==
  LET u == req[r].upload
  IN  /\ req[r].pc = "move"
      /\ IF temp[u] = NoFile
           THEN Return(r) /\ UNCHANGED <<temp, blobs, bucket>>
           ELSE /\ finalize_into(u)
                /\ IF req[r].good /\ Len(temp[u]) = Size(u)
                     THEN req' = [req EXCEPT ![r].pc = "look", ![r].data = temp[u]]
                     ELSE Return(r)
      /\ UNCHANGED <<row, expired, blobRows, faults>>

\* The bucket cannot be reached, or the process dies before the push: the cache has
\* the content, the working file stays for the next finalize.
FinPushFails(r) ==
  LET u == req[r].upload
  IN  /\ req[r].pc = "move"
      /\ Backend = "s3" /\ temp[u] # NoFile
      /\ Fault("push")
      /\ blobs' = blobs \cup {temp[u]}
      /\ Return(r)
      /\ UNCHANGED <<row, expired, temp, bucket, blobRows>>

\* session.get(Blob, sha).
FinLook(r) ==
  /\ req[r].pc = "look"
  /\ req' = [req EXCEPT ![r].pc = "seal", ![r].known = req[r].data \in blobRows]
  /\ UNCHANGED <<row, expired, temp, blobs, bucket, blobRows, faults>>

\* The insert of the Blob row and the update of the Upload row, in one
\* transaction: it fails when another upload registered the same content
\* meanwhile, or when the row has been collected.
FinCommit(r) ==
  LET me == req[r]
      u == me.upload
  IN  /\ me.pc = "seal"
      /\ IF (~me.known /\ me.data \in blobRows) \/ row[u].state = "gone"
           THEN UNCHANGED <<row, blobRows>>
           ELSE /\ blobRows' = blobRows \cup {me.data}
                /\ row' = [row EXCEPT ![u].state = "finalized", ![u].blob = me.data]
      /\ Return(r)
      /\ UNCHANGED <<expired, temp, blobs, bucket, faults>>

\* A request dies before its commit: the statement raises, the connection to the
\* database is lost or the process goes down.
Abort(r) ==
  /\ req[r] # Idle
  /\ Fault("abort")
  /\ Return(r)
  /\ UNCHANGED <<row, expired, temp, blobs, bucket, blobRows>>

-----------------------------------------------------------------------------
UploadsInit ==
  /\ row = [u \in Upload |-> NewUpload]
  /\ expired = {}
  /\ temp = [u \in Upload |-> NoFile]
  /\ blobs = {}
  /\ bucket = {}
  /\ blobRows = {}
  /\ req = [r \in Request |-> Idle]
  /\ faults = 0

UploadsNext ==
  \/ \E r \in Request, u \in Upload :
       \/ InitRead(r, u)
       \/ \E offset \in 0..Size(u), n \in 1..Size(u) : PatchRead(r, u, offset, n)
       \/ \E good \in BOOLEAN : FinRead(r, u, good)
  \/ \E r \in Request :
       \/ InitCommit(r) \/ GcRead(r) \/ GcCommit(r)
       \/ PatchAppend(r) \/ PatchWriteFails(r) \/ PatchCommit(r)
       \/ FinMove(r) \/ FinPushFails(r) \/ FinLook(r) \/ FinCommit(r)
       \/ Abort(r)
  \/ \E u \in Upload : Expire(u)

UploadsSpec == UploadsInit /\ [][UploadsNext]_uploadVars

-----------------------------------------------------------------------------
UploadsTypeOK ==
  /\ \A u \in Upload :
       /\ row[u].state \in {"new", "open", "received", "finalized", "gone"}
       /\ row[u].received \in 0..Size(u)
       /\ row[u].blob \in Seq(Bytes)
       /\ temp[u] \in Seq(Bytes) \cup {NoFile}
  /\ expired \subseteq Upload
  /\ blobs \subseteq Seq(Bytes)
  /\ bucket \subseteq Seq(Bytes)
  /\ blobRows \subseteq Seq(Bytes)
  /\ \A r \in Request :
       /\ req[r].pc \in {"idle", "init", "gc", "append", "patch", "move", "look", "seal"}
       /\ req[r].upload \in Upload \cup {NoUpload}
       /\ req[r].reap \subseteq Upload
  /\ faults \in 0..MaxFaults

\* However PATCHes are repeated, raced, retried or cut short, and whatever is
\* finalized or collected around them, a working file only ever holds a prefix of
\* what the client sends: no chunk lands twice and none lands in the wrong place.
TempIsPrefix ==
  \A u \in Upload : temp[u] # NoFile => IsPrefix(temp[u], Content[u])

\* A finalized upload names the whole of its content, which is in the blob store
\* (with S3, in the bucket, where every host finds it) and has its Blob row, although
\* the file, the cache, the bucket and the rows are written by different steps that
\* stale requests and failures get in between.
SealedIsWhole ==
  \A u \in Upload : row[u].state = "finalized" =>
    /\ row[u].blob = Content[u]
    /\ Content[u] \in blobs \cap blobRows
    /\ Backend = "s3" => Content[u] \in bucket

\* A client that repeats an init with its Idempotency-Key, even while the first
\* one is still in flight or an expired upload of that key is being collected,
\* never ends up with two uploads under the key.
OneUploadPerKey ==
  \A u, v \in Upload : u # v /\ Key[u] = Key[v] =>
    row[u].state \in {"new", "gone"} \/ row[v].state \in {"new", "gone"}

\* No request on an upload is between its first and its last step.
Settled(u) == \A r \in Request : req[r].upload # u /\ u \notin req[r].reap

\* "Resume at received_bytes": once the requests on an open upload are over, a
\* chunk at received_bytes is one that TempUploadStore.append accepts.
Resumable ==
  \A u \in Upload : Settled(u) /\ Visible(u) /\ row[u].state = "open" =>
    row[u].received = FileSize(u)

\* "received: full payload uploaded; awaiting client finalize": once the requests
\* on a received upload are over, the payload is there for the next finalize.
ReceivedHasPayload ==
  \A u \in Upload : Settled(u) /\ Visible(u) /\ row[u].state = "received" =>
    temp[u] = Content[u]

\* "finalized: sealed": an upload that was finalized stays so.
SealedStays ==
  [][\A u \in Upload : row[u].state = "finalized" => row'[u].state = "finalized"]_uploadVars

=============================================================================
