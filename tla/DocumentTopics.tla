---------------------------- MODULE DocumentTopics ----------------------------
(***************************************************************************)
(* The requests and answers of the SDK that carry documents, and the       *)
(* objects inside them: who writes each, who reads it, and which of its    *)
(* fields the code mixes up.                                               *)
(***************************************************************************)
EXTENDS AuditingAccessors, BucketAccessors, ObjectAccessors, JobAccessors

\* What is found, inside an answer: an object is made anew for every element.
PartsOfAuditing ==
  [Location |-> Answer(ParseLocation, {}), OcrResult |-> Answer(ParseOcrResultInfo, {}),
   ObjectResults |-> Answer(ParseObjectResults, {}),
   RecognitionResult |-> Answer(ParseRecognitionResult, {}),
   LibResults |-> Answer(ParseLibResults, {"LibName", "Keywords"}),
   SceneResultInfo |-> Answer(ParseSceneResultInfo, {}),
   UserInfo |-> Answer(ParseUserInfo, {"Room"}),
   SegmentResult |-> Answer(ParseSegmentResult, {}),
   Labels |-> Answer(ParseLabels, {}), ListResult |-> Answer(ParseListResult, {}),
   ListInfo |-> Answer(ParseListInfo, {}), Result |-> Answer(ParseResults, {}),
   PageSegment |-> Answer(ParsePageSegment, {})]

\* Members of a response, or the whole of it.
AnswersAboutAuditing ==
  [Image |-> Answer(ParseImageAuditingJobsDetail,
                    {"TerrorismInfo", "UserInfo", "ForbidState", "ListInfo"}),
   Video |-> Answer(ParseVideoJobsDetail,
                    {"Snapshot", "AudioSection", "UserInfo", "ForbidState", "ListInfo"}),
   Audio |-> Answer(ParseAudioJobsDetail, {}),
   Text |-> Answer(ParseTextJobsDetail, {"UserInfo", "ForbidState", "ListInfo"}),
   Pages |-> Answer(ParseDocumentJobsDetail, {"ForbidState", "ListInfo"}),
   WebPage |-> Answer(ParseWebPageJobsDetail, {"UserInfo", "ListInfo"}),
   AuditingResp |-> Answer(ParseJobs, {}), BatchResp |-> Answer(ParseBatch, {}),
   ImageJobResp |-> Answer(ParseImageJob, {})]

RequestsForAuditing ==
  [CreateInput |-> Asked(CreateInput, {"Interval", "MaxFrames", "LargeImageDetect"}),
   BatchInput |-> Asked(BatchInput, {"Content", "Type"}),
   CreateUser |-> Asked(CreateUser, {"Room", "ReceiveTokenId", "Gender", "Level", "Role"}),
   BatchUser |-> Asked(BatchUser, {"Room"}),
   CreateSnapshot |-> Asked(CreateSnapshot, {"Mode", "Count"}),
   CreateConf |-> Asked(CreateConf, {"BizType", "DetectType", "Callback", "CallbackVersion",
                                     "ReturnHighlightHtml", "Async", "Freeze", "Timeout"}),
   BatchConf |-> Asked(BatchConf, {"BizType", "DetectType", "Snapshot", "Callback",
                                   "CallbackVersion", "DetectContent", "ReturnHighlightHtml",
                                   "Freeze"}),
   BatchBody |-> Asked(BatchBody, {})]

PartsOfBuckets ==
  [Content |-> Answer(ParseContents, {}), Upload |-> Answer(ParseUpload, {}),
   VersionSummary |-> Answer(ParseVersionSummary, {}),
   LiveChannel |-> Answer(ParseLiveChannel, {}),
   ReplicationRule |-> Setting(PutReplicationRule, ParseReplicationRule, {}),
   LifecycleTag |-> Setting(PutLifecycleTag, ParseLifecycleTag, {}),
   LifecycleFilter |-> Setting(PutLifecycleFilter, ParseLifecycleFilter, {}),
   LifecycleTransition |-> Setting(PutLifecycleTransition, ParseLifecycleTransition, {}),
   LifecycleExpiration |-> Setting(PutLifecycleExpiration, ParseLifecycleExpiration, {}),
   NonCurrTransition |-> Setting(PutNonCurrTransition, ParseNonCurrTransition, {}),
   NonCurrExpiration |-> Setting(PutNonCurrExpiration, ParseNonCurrExpiration, {}),
   LifecycleRule |-> Setting(PutLifecycleRule, ParseLifecycleRule, {}),
   Grantee |-> Setting(PutGrantee, ParseGrantee, {}),
   CORSRule |-> Setting(PutCORSRule, ParseCORSRule, {}),
   Condition |-> Answer(ParseCondition, {}), Redirect |-> Answer(ParseRedirect, {}),
   RoutingRule |-> Setting(PutRoutingRule, ParseFromXmlRoutingRule, {}),
   Tag |-> Setting(PutTag, ParseTag, {}),
   Destination |-> Setting(PutDestination, ParseFromXmlCOSBucketDestination, {}),
   OptionalFields |-> Setting(PutOptionalFields, ParseFromXmlOptionalFields,
                              {"IsMultipartUploaded", "ReplicationStatus"}),
   Inventory |-> Setting(PutBucketInventory, ParseFromXmlInventoryConfiguration, {})]

AnswersAboutBuckets ==
  [GetBucket |-> Answer(ParseListBucket, {}),
   ListMultipartUpload |-> Answer(ParseListMultipartUpload, {}),
   ObjectVersions |-> Answer(ParseObjectVersions, {"NextVersionIdMarker"}),
   ListLiveChannel |-> Answer(ParseListLiveChannel, {}),
   LocationConstraint |-> Answer(ParseLocationConstraint, {}),
   DomainError |-> Answer(ParseDomainError, {}),
   Inventories |-> Answer(ParseInventories, {})]

SettingsOfBuckets ==
  [BucketReplication |-> Setting(PutBucketReplication, ParseReplication, {}),
   BucketLifecycle |-> Setting(PutBucketLifecycle, ParseLifecycle, {}),
   AccessControlPolicy |-> Setting(GenerateAclRequestBody, ParseFromACLXMLString, {}),
   BucketCORS |-> Setting(PutBucketCORS, ParseCORS, {}),
   BucketReferer |-> Setting(PutBucketReferer, ParseReferer, {}),
   BucketVersioning |-> Setting(PutBucketVersioning, ParseVersioning, {}),
   IntelligentTiering |-> Setting(PutBucketIntelligentTiering, ParseIntelligentTiering, {}),
   BucketLogging |-> Setting(PutBucketLogging, ParseLogging, {}),
   BucketDomain |-> Setting(PutBucketDomain, ParseDomain, {}),
   BucketWebsite |-> Setting(PutBucketWebsite, ParseWebsite, {}),
   TagSet |-> Setting(PutBucketTagging, ParseTagging, {})]

PartsOfObjects ==
  [Part |-> Answer(ParsePart, {}), ObjectVersionPair |-> Asked(PutObjectVersionPair, {}),
   DeletedInfo |-> Answer(ParseDeletedInfo, {}), ErrorInfo |-> Answer(ParseErrorInfo, {}),
   LiveRecord |-> Answer(ParseLiveRecord, {})]

SettingsOfObjects ==
  [InitMultiUpload |-> Answer(ParseInitMultiUpload, {}),
   CompleteMultiUpload |-> Asked(GenerateCompleteBody, {}),
   CompleteMultiUploadResp |-> Answer(ParseCompleteMultiUpload, {}),
   MultiPutObject |-> Answer(ParseMultiPutObject, {}),
   ListParts |-> Answer(ParseListParts, {}),
   PutObjectCopy |-> Answer(ParsePutObjectCopy, {}),
   UploadPartCopyData |-> Answer(ParseUploadPartCopyData, {}),
   DeleteObjects |-> Asked(GenerateDeleteBody, {}),
   DeleteObjectsResp |-> Answer(ParseDeleteObjects, {}),
   PostObjectRestore |-> Asked(GenerateRestoreBody, {}),
   SelectObjectContent |-> Asked(GenerateSelectBody, {"Expression", "ExpressionType"}),
   SelectObjectContentResp |-> Answer(ParseSelectObjectContent, {}),
   LiveChannelConfiguration |-> Setting(GenerateLiveChannelBody, ParseGetLiveChannel, {}),
   LiveChannelHistory |-> Answer(ParseLiveChannelHistory, {}),
   LiveChannelStatus |-> Answer(ParseLiveChannelStatus, {})]

PartsOfJobs ==
  [QRcodeInfo |-> Answer(ParseQRcodeInfo, {}), ProcessedObject |-> Answer(ParseObject, {}),
   BucketInfo |-> Answer(ParseBucketInfo, {}), PageInfo |-> Answer(ParsePageInfo, {}),
   JobWatermark |-> Setting(PutWatermark, ParseWatermark, {"SlideConfig"}),
   Subtitle |-> Setting(PutSubtitle, ParseSubtitle, {}),
   ConcatFragment |-> Setting(PutConcatFragment, ParseConcatFragment, {})]

AnswersAboutJobs ==
  [ImageInfo |-> Answer(ParseImageInfo, {}), OriginalInfo |-> Answer(ParseOriginalInfo, {}),
   UploadResult |-> Answer(ParseUploadResult, {}), QRcode |-> Answer(ParseGetQRcode, {}),
   DocBuckets |-> Answer(ParseDocBuckets, {}), DocBucket |-> Answer(ParseCreateDocBucket, {}),
   MediaBuckets |-> Answer(ParseMediaBuckets, {}),
   MediaBucket |-> Answer(ParseCreateMediaBucket, {}),
   FileBuckets |-> Answer(ParseFileBuckets, {}),
   FileBucket |-> Answer(ParseCreateFileBucket, {}),
   NonExistPIDs |-> Answer(ParseNonExistPIDs, {}), JobQueue |-> Answer(ParseQueueList, {}),
   Queues |-> Answer(ParseDescribeQueues, {}), UpdatedQueue |-> Answer(ParseUpdateQueue, {}),
   DocProcessResult |-> Answer(ParseDocProcessResult, {}),
   DocOperation |-> Answer(ParseOperation, {}), DocJob |-> Answer(ParseJobsDetail, {}),
   DocJobs |-> Answer(ParseDocProcessJobs, {}), VideoInfo |-> Answer(ParseVideoInfo, {}),
   AudioInfo |-> Answer(ParseAudioInfo, {}), SubtitleInfo |-> Answer(ParseSubtitleInfo, {}),
   StreamInfo |-> Answer(ParseStream, {}), FormatInfo |-> Answer(ParseFormat, {}),
   MediaInfo |-> Answer(ParseMediaInfo, {}), GetMediaInfo |-> Answer(ParseGetMediaInfo, {}),
   MediaResult |-> Answer(ParseMediaResult, {}),
   UncompressResult |-> Answer(ParseFileUncompressResult, {}),
   JobOperation |-> Answer(ParseJobsOperation, {}),
   DataProcessJob |-> Answer(ParseDataProcessJob, {})]

RequestsForJobs ==
  [UpdateQueue |-> Asked(PutUpdateQueue, {}), DocProcessJobs |-> Asked(PutDocProcessJobs, {}),
   CallBackMqConfig |-> Asked(PutCallBackMqConfig, {}),
   DataProcessJobs |-> Asked(PutDataProcessJobs, {})]
  @@ [tag \in DOMAIN PutOperation |-> Asked(PutOperation[tag], {})]

\* What the options of a job hold is also in the answers about it.
SettingsOfJobs ==
  [NotifyConfig |-> Setting(PutNotifyConfig, ParseNotifyConfig, {}),
   DocProcess |-> Setting(PutDocProcess, ParseDocProcess, {"PaperSize"}),
   EffectConfig |-> Setting(PutEffectConfig, ParseEffectConfig, {}),
   AudioMix |-> Setting(GenerateAudioMixNode, ParseAudioMix, {}),
   VideoSettings |-> Setting(GenerateVideoNode, ParseVideo, {"Roi", "AnimateOnlyKeepKeyFrame"}),
   AudioSettings |-> Setting(GenerateAudioNode, ParseAudio, {}),
   TimeInterval |-> Setting(PutTimeInterval, ParseTimeInterval, {}),
   ClipConfig |-> Setting(PutClipConfig, ParseClipConfig, {"Duration"}),
   JobContainer |-> Setting(GenerateContainerNode, ParseContainer, {}),
   HlsEncrypt |-> Setting(PutHlsEncrypt, ParseHlsEncrypt, FieldsOf(HlsEncrypt)),
   DashEncrypt |-> Setting(PutDashEncrypt, ParseDashEncrypt, FieldsOf(DashEncrypt)),
   TransConfig |-> Setting(PutTransConfig, ParseTransConfig, {}),
   TranscodeSettings |-> Setting(PutTranscode, ParseTranscode, {}),
   SpriteSnapshot |-> Setting(PutSpriteSnapshot, ParseSpriteSnapshot, {}),
   SnapshotSettings |-> Setting(PutSnapshot, ParseSnapshot, {}),
   SlideConfig |-> Setting(PutSlideConfig, ParseSlideConfig, {}),
   WatermarkText |-> Setting(PutText, ParseText, {}),
   WatermarkImage |-> Setting(PutImage, ParseImage, {"Background"}),
   RemoveWatermark |-> Setting(PutRemoveWatermark, ParseRemoveWatermark, {}),
   DigitalWatermarkSettings |-> Setting(PutDigitalWatermark, ParseDigitalWatermark, {}),
   ExtractSettings |-> Setting(PutExtractDigitalWatermark, ParseExtractDigitalWatermark, {}),
   Subtitles |-> Setting(PutSubtitles, ParseSubtitles, {}),
   UncompressConfig |-> Setting(PutFileUncompress, ParseFileUncompressConfig, {}),
   AnimationSettings |-> Setting(PutAnimation, ParseAnimation, {}),
   SmartCoverSettings |-> Setting(PutSmartCover, ParseSmartCover, {}),
   SegmentSettings |-> Setting(PutSegment, ParseSegment, {}),
   AudioConfig |-> Setting(PutAudioConfig, ParseAudioConfig, {}),
   VoiceSettings |-> Setting(PutVoiceSeparate, ParseVoiceSeparate, {}),
   MontageSettings |-> Setting(PutVideoMontage, ParseVideoMontage, {}),
   SceneChangeInfo |-> Setting(PutSceneChangeInfo, ParseSceneChangeInfo, {}),
   ConcatSettings |-> Setting(PutConcat, ParseConcat, {}),
   JobInput |-> Setting(PutInput, ParseInput, {}),
   JobOutput |-> Setting(PutOutput, ParseOutput, {"DrumObject"})]

PartTopics == PartsOfAuditing @@ PartsOfBuckets @@ PartsOfObjects @@ PartsOfJobs

AllParts == DOMAIN PartTopics
AllTopics == PartTopics @@ AnswersAboutAuditing @@ RequestsForAuditing @@ AnswersAboutBuckets
             @@ SettingsOfBuckets @@ SettingsOfObjects @@ AnswersAboutJobs @@ RequestsForJobs
             @@ SettingsOfJobs
=============================================================================
