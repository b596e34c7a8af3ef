---------------------------- MODULE PlainRequests ----------------------------
(***************************************************************************)
(* The operations of BucketOp, ObjectOp and ServiceOp that are one request *)
(* and keep nothing: a request body may have to be made, and NormalAction  *)
(* sends the request (UploadAction for AppendObject, whose loop is the     *)
(* same).  A server that has carried a request out may refuse it when it   *)
(* comes again (a bucket that is there, a position that is past), or carry *)
(* it out again (a setting, or one more job).                              *)
(***************************************************************************)
EXTENDS NormalAction

VARIABLES request,  \* what kind of operation it is
          once,     \* whether the server refuses a repetition
          effects   \* history: how often the server has carried it out

plainVars == <<request, once, effects>>

\* An operation reads or changes something, and can fail before its request
\* (body) if GenerateRequestBody does, or if a part of the request is missing.
Reads0   == [changes |-> FALSE, body |-> FALSE]
Asks     == [changes |-> FALSE, body |-> TRUE]
Changes0 == [changes |-> TRUE,  body |-> FALSE]
Sets     == [changes |-> TRUE,  body |-> TRUE]

\* The operations, by the part of the source they are in.
BucketBasics ==
  [HeadBucket |-> Reads0, PutBucket |-> Changes0, GetBucket |-> Reads0,
   ListMultipartUpload |-> Reads0, DeleteBucket |-> Changes0,
   GetBucketVersioning |-> Reads0, PutBucketVersioning |-> Sets,
   GetBucketReplication |-> Reads0, PutBucketReplication |-> Sets,
   DeleteBucketReplication |-> Changes0, GetBucketLifecycle |-> Reads0]

BucketRules ==
  [PutBucketLifecycle |-> Sets, DeleteBucketLifecycle |-> Changes0,
   GetBucketACL |-> Reads0, PutBucketACL |-> Sets, PutBucketPolicy |-> Changes0,
   GetBucketPolicy |-> Reads0, DeleteBucketPolicy |-> Changes0,
   GetBucketCORS |-> Reads0, PutBucketCORS |-> Sets, DeleteBucketCORS |-> Changes0,
   GetBucketLocation |-> Reads0]

BucketSettings ==
  [GetBucketObjectVersions |-> Reads0, PutBucketLogging |-> Sets,
   GetBucketLogging |-> Reads0, PutBucketDomain |-> Sets, GetBucketDomain |-> Reads0,
   PutBucketWebsite |-> Sets, GetBucketWebsite |-> Reads0, DeleteBucketWebsite |-> Changes0,
   PutBucketTagging |-> Sets, GetBucketTagging |-> Reads0, DeleteBucketTagging |-> Changes0]

BucketInventory ==
  [PutBucketInventory |-> Sets, GetBucketInventory |-> Asks,
   ListBucketInventoryConfigurations |-> Reads0, DeleteBucketInventory |-> Sets,
   PutBucketReferer |-> Sets, GetBucketReferer |-> Asks, ListLiveChannel |-> Reads0,
   PutBucketIntelligentTiering |-> Sets, GetBucketIntelligentTiering |-> Reads0,
   PutBucketToCI |-> Changes0]

\* Most operations of the data processing service end in BucketOp::ProcessReq.
ProcessingJobs ==
  [CreateDocBucket |-> Changes0, CreateDocProcessJobs |-> Sets,
   DescribeDocProcessJob |-> Asks, DescribeDocProcessJobs |-> Asks,
   DescribeDocProcessQueues |-> Asks, UpdateDocProcessQueue |-> Sets,
   DescribeMediaBuckets |-> Asks, CreateMediaBucket |-> Changes0,
   DescribeMediaQueues |-> Asks, UpdateMediaQueue |-> Sets,
   DescribeFileBuckets |-> Asks, CreateFileBucket |-> Changes0,
   BatchImageAuditing |-> Sets, CreateDataProcessJobs |-> Sets,
   CancelDataProcessJob |-> Sets, DescribeDataProcessJob |-> Asks,
   DescribeImageAuditingJob |-> Asks]

AuditingJobs ==
  [CreateVideoAuditingJob |-> Sets, DescribeVideoAuditingJob |-> Asks,
   CreateAudioAuditingJob |-> Sets, DescribeAudioAuditingJob |-> Asks,
   CreateTextAuditingJob |-> Sets, DescribeTextAuditingJob |-> Asks,
   CreateDocumentAuditingJob |-> Sets, DescribeDocumentAuditingJob |-> Asks,
   CreateWebPageAuditingJob |-> Sets, DescribeWebPageAuditingJob |-> Asks]

ObjectBasics ==
  [DeleteObject |-> Sets, DeleteObjects |-> Sets]

ObjectParts ==
  [ListParts |-> Reads0, UploadPartCopyData |-> Changes0, GetObjectACL |-> Reads0,
   PutObjectACL |-> Sets, PutObjectTagging |-> Sets, GetObjectTagging |-> Reads0,
   DeleteObjectTagging |-> Changes0]

ObjectExtras ==
  [OptionsObject |-> Reads0, SelectObjectContent |-> Asks, AppendObject |-> Changes0,
   PutLiveChannel |-> Sets, PutLiveChannelSwitch |-> Changes0, GetLiveChannel |-> Reads0,
   GetLiveChannelHistory |-> Reads0, GetLiveChannelStatus |-> Reads0,
   DeleteLiveChannel |-> Changes0, GetLiveChannelVodPlaylist |-> Reads0,
   PostLiveChannelVodPlaylist |-> Changes0]

ImageRequests ==
  [CloudImageProcess |-> Changes0, GetQRcode |-> Reads0, DescribeDocProcessBuckets |-> Reads0,
   GetMediaInfo |-> Reads0, GetImageAuditing |-> Reads0]

Kinds(table) == {table[op] : op \in DOMAIN table}

Requests ==
  UNION {Kinds(BucketBasics), Kinds(BucketRules), Kinds(BucketSettings), Kinds(BucketInventory),
         Kinds(ProcessingJobs), Kinds(AuditingJobs), Kinds(ObjectBasics), Kinds(ObjectParts),
         Kinds(ObjectExtras), Kinds(ImageRequests)}

PlainInit == request \in Requests /\ once \in BOOLEAN /\ effects = 0

-----------------------------------------------------------------------------
PlainRefused ==
  /\ request.body /\ attempt = 0
  /\ FailHere("plain")
  /\ UNCHANGED plainVars

PlainRead ==
  /\ ~request.changes
  /\ Reads("plain", UNCHANGED effects, UNCHANGED effects, "done", "done")
  /\ UNCHANGED <<request, once>>

PlainChange ==
  /\ request.changes
  /\ Changes("plain", once => effects = 0, effects' = effects + 1, UNCHANGED effects, "done", "done")
  /\ UNCHANGED <<request, once>>

Plain == PlainRefused \/ PlainRead \/ PlainChange
=============================================================================
