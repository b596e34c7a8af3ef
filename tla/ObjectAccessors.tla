---------------------------- MODULE ObjectAccessors ----------------------------
(***************************************************************************)
(* What the requests on an object send in their bodies, and what is read   *)
(* of the answers: multipart uploads, copies, deletions, tags, restores,   *)
(* queries, live channels.                                                 *)
(***************************************************************************)
EXTENDS Accessors

InitMultiUploadResp == Members({"Bucket", "Key", "UploadId"}, {})
ParseInitMultiUpload == Reader(InitMultiUploadResp, FieldsOf(InitMultiUploadResp))

\* Part numbers and ETags are two vectors.
CompleteMultiUploadReq == Members({"PartNumber", "ETag"}, {"PartNumber", "ETag"})
GenerateCompleteBody ==
  [Writer(CompleteMultiUploadReq, <<"PartNumber", "ETag">>)
   EXCEPT !.pairs = {<<"PartNumber", "ETag">>}]

CompleteMultiUploadResp == Members({"Location", "Bucket", "Key", "ETag"}, {})
ParseCompleteMultiUpload == Reader(CompleteMultiUploadResp, FieldsOf(CompleteMultiUploadResp))
ParseMultiPutObject == Reader(CompleteMultiUploadResp, FieldsOf(CompleteMultiUploadResp))

Part == Members({"PartNumber", "LastModified", "ETag", "Size"}, {})
ParsePart == Reader(Part, FieldsOf(Part))

ListPartsResp ==
  Members({"Bucket", "EncodingType", "Key", "UploadId", "InitiatorID", "InitiatorDisplayName",
           "OwnerID", "OwnerDisplayName", "PartNumberMarker", "Part", "NextPartNumberMarker",
           "StorageClass", "MaxParts", "IsTruncated"}, {"Part"})

\* The encoding has two spellings.
ParseListParts ==
  LET same == Reader(ListPartsResp, FieldsOf(ListPartsResp))
  IN  [same EXCEPT !.takes = [e \in {"Encoding-type"} |-> "EncodingType"] @@ @]

PutObjectCopyResp == Members({"ETag", "LastModified", "VersionId", "CRC64"}, {})
ParsePutObjectCopy == Reader(PutObjectCopyResp, FieldsOf(PutObjectCopyResp))

UploadPartCopyDataResp == Members({"ETag", "LastModified"}, {})
ParseUploadPartCopyData == Reader(UploadPartCopyDataResp, FieldsOf(UploadPartCopyDataResp))

-----------------------------------------------------------------------------
\* Deletion: Quiet is written in any case.
ObjectVersionPair == Members({"Key", "VersionId"}, {})
PutObjectVersionPair == Writer(ObjectVersionPair, <<"Key", "VersionId">>)

DeleteObjectsReq == Members({"Quiet", "Object"}, {"Object"})
GenerateDeleteBody == [Writer(DeleteObjectsReq, <<"Quiet", "Object">>) EXCEPT !.starts = <<"Quiet">>]

DeletedInfo == Members({"Key", "DeleteMarker", "DeleteMarkerVersionId", "VersionId"}, {})
ParseDeletedInfo == Reader(DeletedInfo, FieldsOf(DeletedInfo))

ErrorInfo == Members({"Key", "Code", "Message", "VersionId"}, {})
ParseErrorInfo == Reader(ErrorInfo, FieldsOf(ErrorInfo))

DeleteObjectsResp == Members({"Deleted", "Error"}, {"Deleted", "Error"})
ParseDeleteObjects == Reader(DeleteObjectsResp, {"Deleted", "Error"})

-----------------------------------------------------------------------------
\* Restoring and querying. The setter of the expression's type stores into the
\* expression; the type is SQL from construction on, and there are a format of what
\* is queried and one of the answer.
PostObjectRestoreReq == Members({"Days", "Tier"}, {})
GenerateRestoreBody ==
  [Writer(PostObjectRestoreReq, <<"Days", "Tier">>) EXCEPT !.starts = <<"Days", "Tier">>]

SelectObjectContentReq ==
  [Members({"Expression", "ExpressionType", "InputSerialization", "OutputSerialization",
            "RequestProgress"}, {})
   EXCEPT !.into["ExpressionType"] = "Expression"]
GenerateSelectBody ==
  [Writer(SelectObjectContentReq,
          <<"Expression", "InputSerialization", "OutputSerialization", "RequestProgress">>)
   EXCEPT !.needs = {"Expression", "InputSerialization", "OutputSerialization"},
          !.starts = <<"InputSerialization", "OutputSerialization", "RequestProgress">>,
          !.adds = <<Element("ExpressionType", 0)>>]

\* The answer is a stream of messages; after an End, an error or an unknown event
\* none is read, and a Cont is passed over.
SelectObjectContentResp == Members({"Message"}, {"Message"})
ParseSelectObjectContent ==
  LET events == {"Records", "Progress", "Stats"}
  IN  [Reader(SelectObjectContentResp, {})
       EXCEPT !.takes = [e \in events |-> "Message"], !.skips = {"Cont"}, !.stops = TRUE]

-----------------------------------------------------------------------------
\* Live channels. The urls are the server's; the two numbers have some value from
\* construction on. The readers give up at an element they do not know.
LiveChannelConfiguration ==
  Members({"Description", "Switch", "Type", "FragDuration", "FragCount", "PlaylistName",
           "PublishUrls", "PlayUrls"}, {})
GenerateLiveChannelBody ==
  [Writer(Without(LiveChannelConfiguration, {"PublishUrls", "PlayUrls"}),
          <<"Description", "Switch", "Type", "FragDuration", "FragCount", "PlaylistName">>)
   EXCEPT !.starts = <<"FragDuration", "FragCount">>]
ParseGetLiveChannel ==
  [Reader(LiveChannelConfiguration, FieldsOf(LiveChannelConfiguration)) EXCEPT !.stops = TRUE]

LiveRecord == Members({"StartTime", "EndTime", "RemoteAddr", "RequestId"}, {})
ParseLiveRecord == [Reader(LiveRecord, FieldsOf(LiveRecord)) EXCEPT !.stops = TRUE]

GetLiveChannelHistoryResp == Members({"LiveRecord"}, {"LiveRecord"})
ParseLiveChannelHistory ==
  [Reader(GetLiveChannelHistoryResp, {"LiveRecord"}) EXCEPT !.stops = TRUE]

LiveChannelStatus ==
  Members({"Status", "ConnectedTime", "RemoteAddr", "RequestId", "VideoWidth", "VideoHeight",
           "VideoFrameRate", "VideoBandwidth", "VideoCodec", "AudioBandwidth",
           "AudioSampleRate", "AudioCodec"}, {})
ParseLiveChannelStatus ==
  [Reader(LiveChannelStatus, FieldsOf(LiveChannelStatus)) EXCEPT !.stops = TRUE]
=============================================================================
