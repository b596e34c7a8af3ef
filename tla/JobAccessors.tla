----------------------------- MODULE JobAccessors -----------------------------
(***************************************************************************)
(* Jobs on media, documents and pictures: their options, which a request   *)
(* writes, and what an answer tells of them.  The structures have no mask. *)
(* An element that stands alone is read into the structure where it lies;  *)
(* one that may come several times is read into a new one, which is added. *)
(***************************************************************************)
EXTENDS Accessors

EachOf(class) == Reader(class, FieldsOf(class))
UpToUnknown(class) == [EachOf(class) EXCEPT !.stops = TRUE]

\* The elements of this writer are emitted only together with those fields.
OnlyWith(writer, fields) == [writer EXCEPT !.with = [e \in Range(writer.emits) |-> fields]]

\* Pictures.
ImageInfo == Members({"Format", "Width", "Height", "Quality", "Ave", "Orientation"}, {})
ParseImageInfo == EachOf(ImageInfo)
OriginalInfo == Members({"Key", "Location", "ETag", "ImageInfo"}, {})
ParseOriginalInfo == EachOf(OriginalInfo)
Object == Members({"Key", "Location", "Format", "Width", "Height", "Size", "Quality", "ETag",
                   "CodeStatus", "WatermarkStatus", "QRcodeInfo"}, {"QRcodeInfo"})
ParseObject == EachOf(Object)
QRcodeInfo == Members({"CodeUrl", "CodeLocation"}, {})
ParseQRcodeInfo == EachOf(QRcodeInfo)
UploadResult == Members({"OriginalInfo", "ProcessResults"}, {"ProcessResults"})
ParseUploadResult == UpToUnknown(UploadResult)
GetQRcodeResult == Members({"CodeStatus", "QRcodeInfo", "ResultImage"}, {"QRcodeInfo"})
ParseGetQRcode == UpToUnknown(GetQRcodeResult)

\* Buckets and queues of the services.
BucketInfo == Members({"BucketId", "Name", "Region", "CreateTime", "AliasBucketId"}, {})
ParseBucketInfo == EachOf(BucketInfo)
DocBucketResponse ==
  Members({"RequestId", "TotalCount", "PageNumber", "PageSize", "DocBucketList"},
          {"DocBucketList"})
ParseDocBuckets == UpToUnknown(DocBucketResponse)
CreateDocBucketResult == Members({"RequestId", "DocBucket"}, {})
ParseCreateDocBucket == UpToUnknown(CreateDocBucketResult)
DescribeMediaBucketsResult ==
  Members({"RequestId", "TotalCount", "PageNumber", "PageSize", "MediaBucketList"},
          {"MediaBucketList"})
ParseMediaBuckets == UpToUnknown(DescribeMediaBucketsResult)
CreateMediaBucketResult == Members({"RequestId", "MediaBucket"}, {})
ParseCreateMediaBucket == UpToUnknown(CreateMediaBucketResult)
DescribeFileBucketsResult ==
  Members({"RequestId", "TotalCount", "PageNumber", "PageSize", "FileBucketList"},
          {"FileBucketList"})
ParseFileBuckets == UpToUnknown(DescribeFileBucketsResult)
CreateFileBucketResult == Members({"RequestId", "FileBucket"}, {})
ParseCreateFileBucket == UpToUnknown(CreateFileBucketResult)

NotifyConfig == Members({"Url", "State", "Type", "Event"}, {})
PutNotifyConfig == Writer(NotifyConfig, <<"Url", "Type", "Event", "State">>)
ParseNotifyConfig == EachOf(NotifyConfig)
QueueList == Members({"QueueId", "Name", "State", "NotifyConfig", "MaxSize", "MaxConcurrent",
                      "UpdateTime", "CreateTime", "BucketId", "Category"}, {})
ParseQueueList == EachOf(QueueList)
NonExistPIDs == Members({"QueueId"}, {"QueueId"})
ParseNonExistPIDs == EachOf(NonExistPIDs)

\* Every queue of the answer is read into the one member there is.
DescribeQueuesResp == Members({"TotalCount", "RequestId", "PageNumber", "PageSize", "QueueList",
                               "NonExistPIDs"}, {})
ParseDescribeQueues == EachOf(DescribeQueuesResp)
UpdateQueueResp == Members({"RequestId", "Queue"}, {})
ParseUpdateQueue == UpToUnknown(UpdateQueueResp)
UpdateQueueReq == Members({"Name", "QueueID", "State", "NotifyConfig"}, {})
PutUpdateQueue == Writer(UpdateQueueReq, <<"Name", "QueueID", "State", "NotifyConfig">>)

-----------------------------------------------------------------------------
\* Documents. The size of the paper is not written.
DocProcess ==
  Members({"SrcType", "TgtType", "SheetId", "StartPage", "EndPage", "PaperSize", "ImageParams",
           "DocPassword", "Comments", "PaperDirection", "Quality", "Zoom"}, {})
PutDocProcess ==
  Writer(DocProcess, <<"SrcType", "TgtType", "SheetId", "StartPage", "EndPage", "ImageParams",
                       "DocPassword", "Comments", "PaperDirection", "Quality", "Zoom">>)
ParseDocProcess == EachOf(DocProcess)
PageInfo == Members({"PageNo", "TgtUri", "X-SheetPics", "PicIndex", "PicNum"}, {})
ParsePageInfo == EachOf(PageInfo)
DocProcessResult ==
  Members({"PageInfo", "TgtType", "TaskId", "TotalPageCount", "SuccPageCount", "FailPageCount",
           "TotalSheetCount"}, {"PageInfo"})
ParseDocProcessResult == EachOf(DocProcessResult)
Operation == Members({"DocProcess", "DocProcessResult", "Output"}, {})
ParseOperation == EachOf(Operation)
JobsDetail == Members({"Code", "Message", "JobId", "Tag", "State", "CreationTime", "EndTime",
                       "QueueId", "Input", "Operation"}, {})
ParseJobsDetail == EachOf(JobsDetail)
DescribeDocProcessJobsResp == Members({"JobsDetail", "NextToken"}, {"JobsDetail"})
ParseDocProcessJobs == UpToUnknown(DescribeDocProcessJobsResp)
CreateDocProcessJobsReq == Members({"Tag", "Input", "Operation", "QueueId"}, {})
PutDocProcessJobs ==
  Writer(CreateDocProcessJobsReq, <<"Tag", "Input", "Operation", "QueueId">>)

-----------------------------------------------------------------------------
\* What a medium is like.
VideoInfo ==
  Members({"Index", "CodecName", "CodecLongName", "CodecTimeBase", "CodecTagString", "CodecTag",
           "ColorPrimaries", "ColorRange", "ColorTransfer", "Profile", "Height", "Width",
           "HasBFrame", "RefFrames", "Sar", "Dar", "PixFormat", "FieldOrder", "Level", "Fps",
           "AvgFps", "Timebase", "StartTime", "Duration", "Bitrate", "NumFrames", "Language"}, {})
ParseVideoInfo == EachOf(VideoInfo)
AudioInfo ==
  Members({"Index", "CodecName", "CodecLongName", "CodecTimeBase", "CodecTagString", "CodecTag",
           "SampleFmt", "SampleRate", "Channel", "ChannelLayout", "Timebase", "StartTime",
           "Duration", "Bitrate", "Language"}, {})
ParseAudioInfo == EachOf(AudioInfo)
SubtitleInfo == Members({"Index", "Language"}, {})
ParseSubtitleInfo == EachOf(SubtitleInfo)
StreamInfo == Members({"Video", "Audio", "Subtitle"}, {})
ParseStream == EachOf(StreamInfo)
FormatInfo == Members({"NumStream", "NumProgram", "FormatName", "FormatLongName", "StartTime",
                       "Duration", "Bitrate", "Size"}, {})
ParseFormat == EachOf(FormatInfo)
MediaInfo == Members({"Stream", "Format"}, {})
ParseMediaInfo == EachOf(MediaInfo)
GetMediaInfoResult == Members({"MediaInfo"}, {})
ParseGetMediaInfo == UpToUnknown(GetMediaInfoResult)

-----------------------------------------------------------------------------
\* The settings of a medium.
EffectConfig == Members({"EnableStartFadein", "StartFadeinTime", "EnableEndFadeout",
                         "EndFadeoutTime", "EnableBgmFade", "BgmFadeTime"}, {})
PutEffectConfig == Writer(EffectConfig, <<"EnableStartFadein", "StartFadeinTime",
                          "EnableEndFadeout", "EndFadeoutTime", "EnableBgmFade", "BgmFadeTime">>)
ParseEffectConfig == EachOf(EffectConfig)
AudioMix == Members({"AudioSource", "MixMode", "Replace", "EffectConfig"}, {})
GenerateAudioMixNode ==
  OnlyWith(Writer(AudioMix, <<"AudioSource", "MixMode", "Replace", "EffectConfig">>),
           {"AudioSource"})
ParseAudioMix == EachOf(AudioMix)

\* One field is not written, and the region of interest under another name.
Video ==
  Members({"Codec", "Width", "Height", "Fps", "Remove", "Profile", "Bitrate", "Crt", "Gop",
           "Preset", "Bufsize", "Maxrate", "Pixfmt", "LongShortMode", "Rotate", "Roi", "Crop",
           "Interlaced", "AnimateOnlyKeepKeyFrame", "AnimateTimeIntervalOfFrame",
           "AnimateFramesPerSecond", "Quality"}, {})
GenerateVideoNode ==
  [Writer(Video, <<"Codec", "Width", "Height", "Fps", "Remove", "Profile", "Bitrate", "Crt",
                   "Gop", "Preset", "Bufsize", "Maxrate", "Pixfmt", "LongShortMode", "Rotate",
                   "Roo", "Crop", "Interlaced", "AnimateTimeIntervalOfFrame",
                   "AnimateFramesPerSecond", "Quality">>)
   EXCEPT !.from["Roo"] = "Roi"]
ParseVideo == EachOf(Video)
Audio == Members({"Codec", "Samplerate", "Bitrate", "Channels", "Remove", "SampleFormat"}, {})
GenerateAudioNode == Writer(Audio, <<"Codec", "Samplerate", "Bitrate", "Channels", "Remove",
                                     "SampleFormat">>)
ParseAudio == EachOf(Audio)
TimeInterval == Members({"Start", "Duration"}, {})
PutTimeInterval == OnlyWith(Writer(TimeInterval, <<"Duration", "Start">>), {"Start", "Duration"})
ParseTimeInterval == EachOf(TimeInterval)

\* The duration of a clip is read under another name.
ClipConfig == Members({"Duration"}, {})
PutClipConfig == Writer(ClipConfig, <<"Duration">>)
ParseClipConfig == [Reader(ClipConfig, {}) EXCEPT !.takes = [Durtion |-> "Duration"]]
Container == Members({"Format", "ClipConfig"}, {})
GenerateContainerNode == Writer(Container, <<"Format", "ClipConfig">>)
ParseContainer == EachOf(Container)

\* Encryption is written if it is on; what is read is the name of the element.
HlsEncrypt == Members({"IsHlsEncrypt", "UriKey"}, {})
PutHlsEncrypt == OnlyWith(Writer(HlsEncrypt, <<"IsHlsEncrypt", "UriKey">>), {"IsHlsEncrypt"})
ParseHlsEncrypt == [EachOf(HlsEncrypt) EXCEPT !.named = FieldsOf(HlsEncrypt)]
DashEncrypt == Members({"IsEncrypt", "UriKey"}, {})
PutDashEncrypt == OnlyWith(Writer(DashEncrypt, <<"IsEncrypt", "UriKey">>), {"IsEncrypt"})
ParseDashEncrypt == [EachOf(DashEncrypt) EXCEPT !.named = FieldsOf(DashEncrypt)]

\* The colour conversion is written a second time, as a codec.
TransConfig ==
  Members({"AdjDarMethod", "IsCheckReso", "ResoAdjMethod", "IsCheckVideoBitrate",
           "VideoBitrateAdjMethod", "IsCheckAudioBitrate", "AudioBitrateAdjMethod",
           "IsCheckVideoFps", "VideoFpsAdjMethod", "DeleteMetadata", "IsHdr2Sdr",
           "TranscodeIndex", "HlsEncrypt", "DashEncrypt"}, {})
PutTransConfig ==
  [Writer(TransConfig, <<"AdjDarMethod", "IsCheckReso", "ResoAdjMethod", "IsCheckVideoBitrate",
                         "VideoBitrateAdjMethod", "IsCheckAudioBitrate", "AudioBitrateAdjMethod",
                         "IsCheckVideoFps", "VideoFpsAdjMethod", "DeleteMetadata", "IsHdr2Sdr",
                         "TranscodeIndex", "Codec", "HlsEncrypt", "DashEncrypt">>)
   EXCEPT !.from["Codec"] = "IsHdr2Sdr"]
ParseTransConfig == EachOf(TransConfig)

\* The parts of a job, each written for a tag of its own.
Transcode == Members({"TimeInterval", "Container", "Video", "Audio", "TransConfig", "AudioMix",
                      "AudioMixArray"}, {"AudioMixArray"})
PutTranscode == Writer(Transcode, <<"TimeInterval", "Container", "Video", "Audio", "TransConfig",
                                    "AudioMix", "AudioMixArray">>)
ParseTranscode == EachOf(Transcode)
SpriteSnapShotConfig == Members({"CellWidth", "CellHeight", "Margin", "Padding", "Color",
                                 "Columns", "Lines", "ScaleMethod"}, {})
PutSpriteSnapshot == Writer(SpriteSnapShotConfig, <<"CellWidth", "CellHeight", "Margin",
                            "Padding", "Color", "Columns", "Lines", "ScaleMethod">>)
ParseSpriteSnapshot == EachOf(SpriteSnapShotConfig)
Snapshot ==
  Members({"Mode", "Start", "TimeInterval", "Count", "Width", "Height", "CIParam", "IsCheckCount",
           "IsCheckBlack", "BlackLevel", "PixelBlackThreshold", "SnapshotOutMode",
           "SpriteSnapshotConfig"}, {})
PutSnapshot ==
  Writer(Snapshot, <<"Mode", "Start", "TimeInterval", "Count", "Width", "Height", "CIParam",
                     "IsCheckCount", "IsCheckBlack", "BlackLevel", "PixelBlackThreshold",
                     "SnapshotOutMode", "SpriteSnapshotConfig">>)
ParseSnapshot == EachOf(Snapshot)

\* What slides and what is behind a picture are read under other names.
SlideConfig == Members({"SlideMode", "XSlideSpeed", "YSlideSpeed"}, {})
PutSlideConfig ==
  OnlyWith(Writer(SlideConfig, <<"SlideMode", "XSlideSpeed", "YSlideSpeed">>), {"SlideMode"})
ParseSlideConfig == EachOf(SlideConfig)
Text == Members({"FontSize", "FontType", "FontColor", "Transparency", "Text"}, {})
PutText == Writer(Text, <<"FontSize", "FontType", "FontColor", "Transparency", "Text">>)
ParseText == EachOf(Text)
Image == Members({"Url", "Mode", "Width", "Height", "Transparency", "Background"}, {})
PutImage == Writer(Image, <<"Url", "Mode", "Width", "Height", "Transparency", "Background">>)
ParseImage ==
  [Reader(Image, {"Url", "Mode", "Width", "Height", "Transparency"})
   EXCEPT !.takes = [Backgroud |-> "Background"] @@ @]
Watermark == Members({"Type", "Pos", "LocMode", "Dx", "Dy", "StartTime", "EndTime", "SlideConfig",
                      "Text", "Image"}, {})
PutWatermark == Writer(Watermark, <<"Type", "Pos", "LocMode", "Dx", "Dy", "StartTime", "EndTime",
                                    "SlideConfig", "Text", "Image">>)
ParseWatermark ==
  [Reader(Watermark, FieldsOf(Watermark) \ {"SlideConfig"})
   EXCEPT !.takes = [SlidConfig |-> "SlideConfig"] @@ @]
RemoveWatermark == Members({"Dx", "Dy", "Width", "Height"}, {})
PutRemoveWatermark == OnlyWith(Writer(RemoveWatermark, <<"Dx", "Dy", "Width", "Height">>),
                               {"Dx", "Dy", "Width", "Height"})
ParseRemoveWatermark == EachOf(RemoveWatermark)
DigitalWatermark == Members({"Message", "Type", "Version", "IgnoreError", "State"}, {})
PutDigitalWatermark ==
  OnlyWith(Writer(DigitalWatermark, <<"Message", "Type", "Version", "IgnoreError", "State">>),
           {"Message"})
ParseDigitalWatermark == EachOf(DigitalWatermark)
ExtractDigitalWatermark == Members({"Message", "Type", "Version"}, {})
PutExtractDigitalWatermark ==
  Writer(Without(ExtractDigitalWatermark, {"Message"}), <<"Type", "Version">>)
ParseExtractDigitalWatermark == EachOf(ExtractDigitalWatermark)

Subtitle == Members({"Url"}, {})
PutSubtitle == Writer(Subtitle, <<"Url">>)
ParseSubtitle == EachOf(Subtitle)
Subtitles == Members({"Subtitle"}, {"Subtitle"})
PutSubtitles == Writer(Subtitles, <<"Subtitle">>)
ParseSubtitles == EachOf(Subtitles)
FileUncompressConfig == Members({"Prefix", "UnCompressKey", "PrefixReplaced"}, {})
PutFileUncompress == Writer(FileUncompressConfig, <<"Prefix", "UnCompressKey", "PrefixReplaced">>)
ParseFileUncompressConfig == EachOf(FileUncompressConfig)
FileUncompressResult == Members({"Bucket", "Region", "FileCount"}, {})
ParseFileUncompressResult == EachOf(FileUncompressResult)
Animation == Members({"TimeInterval", "Container", "Video"}, {})
PutAnimation == Writer(Animation, <<"TimeInterval", "Container", "Video">>)
ParseAnimation == EachOf(Animation)
SmartCover == Members({"Format", "Width", "Height", "Count", "DeleteDuplicates"}, {})
PutSmartCover == Writer(SmartCover, <<"Format", "Width", "Height", "Count", "DeleteDuplicates">>)
ParseSmartCover == EachOf(SmartCover)

\* A segment's encryption is written in any case.
Segment == Members({"Format", "Duration", "TranscodeIndex", "StartTime", "EndTime", "HlsEncrypt"},
                   {})
PutSegment == Writer(Segment, <<"Format", "Duration", "TranscodeIndex", "StartTime", "EndTime",
                                "HlsEncrypt">>)
ParseSegment == EachOf(Segment)
AudioConfig == Members({"Codec", "Samplerate", "Bitrate", "Channels"}, {})
PutAudioConfig == Writer(AudioConfig, <<"Codec", "Channels", "Bitrate", "Samplerate">>)
ParseAudioConfig == EachOf(AudioConfig)
VoiceSeparate == Members({"AudioMode", "AudioConfig"}, {})
PutVoiceSeparate == Writer(VoiceSeparate, <<"AudioMode", "AudioConfig">>)
ParseVoiceSeparate == EachOf(VoiceSeparate)
VideoMontage == Members({"Scene", "Container", "Video", "Audio", "AudioMix", "AudioMixArray"},
                        {"AudioMixArray"})
PutVideoMontage == Writer(VideoMontage, <<"Scene", "Container", "Video", "Audio", "AudioMix",
                                          "AudioMixArray">>)
ParseVideoMontage == EachOf(VideoMontage)
ConcatFragment == Members({"Url", "FragmentIndex", "StartTime", "EndTime"}, {})
PutConcatFragment == Writer(ConcatFragment, <<"Url", "FragmentIndex", "StartTime", "EndTime">>)
ParseConcatFragment == EachOf(ConcatFragment)
SceneChangeInfo == Members({"Mode", "Time"}, {})
PutSceneChangeInfo == Writer(SceneChangeInfo, <<"Mode", "Time">>)
ParseSceneChangeInfo == EachOf(SceneChangeInfo)
Concat == Members({"Index", "DirectConcat", "Container", "Video", "Audio", "AudioMix",
                   "AudioMixArray", "ConcatFragment", "SceneChangeInfo"},
                  {"AudioMixArray", "ConcatFragment"})
PutConcat == Writer(Concat, <<"Index", "DirectConcat", "Container", "Video", "Audio", "AudioMix",
                              "AudioMixArray", "ConcatFragment", "SceneChangeInfo">>)
ParseConcat == EachOf(Concat)

-----------------------------------------------------------------------------
\* A job. Of the place of its input only the object or the url are written; the
\* drums of the output are read under another name.
Input == Members({"Region", "Bucket", "Object", "Url"}, {})
PutInput == Writer(Without(Input, {"Region", "Bucket"}), <<"Object", "Url">>)
ParseInput == EachOf(Input)
Output == Members({"Region", "Bucket", "Object", "SpriteObject", "AuObject", "BassObject",
                   "DrumObject"}, {})
PutOutput == Writer(Output, <<"Region", "Bucket", "Object", "SpriteObject", "AuObject",
                              "BassObject", "DrumObject">>)
ParseOutput == [Reader(Output, FieldsOf(Output) \ {"DrumObject"})
                EXCEPT !.takes = [Drum |-> "DrumObject"] @@ @]

\* The files are looked for inside the first one's first element, so none is found.
MediaResult == Members({"OutputFile"}, {})
ParseMediaResult == Reader(MediaResult, {})

JobsOperation ==
  Members({"TemplateId", "TemplateName", "UserData", "JobLevel", "Output", "MediaResult",
           "Snapshot", "FileUncompressConfig", "FileUncompressResult", "Transcode", "Watermark",
           "WatermarkTemplateId", "RemoveWatermark", "Subtitles", "Animation", "SmartCover",
           "ConcatTemplate", "DigitalWatermark", "ExtractDigitalWatermark", "VideoMontage",
           "VoiceSeparate", "Segment"}, {"Watermark", "WatermarkTemplateId"})

\* What the writer adds for a tag to what it writes for all of them.
PartsOfTag ==
  [Snapshot |-> <<"Snapshot">>, Animation |-> <<"Animation">>, SmartCover |-> <<"SmartCover">>,
   Transcode |-> <<"Transcode", "WatermarkTemplateId", "Watermark", "RemoveWatermark",
                   "Subtitles", "DigitalWatermark">>,
   Watermark |-> <<"WatermarkTemplateId", "Watermark">>,
   VideoEnhance |-> <<"WatermarkTemplateId", "Watermark", "DigitalWatermark">>,
   SuperResolution |-> <<"WatermarkTemplateId", "Watermark">>, Segment |-> <<"Segment">>,
   DigitalWatermark |-> <<"DigitalWatermark">>, FileUncompress |-> <<"FileUncompressConfig">>,
   VoiceSeparate |-> <<"VoiceSeparate">>, VideoMontage |-> <<"VideoMontage">>,
   Concat |-> <<"ConcatTemplate">>]

\* The user sets the options that are for the tag.
PutOperation ==
  LET Of(emits) == Writer(Without(JobsOperation, FieldsOf(JobsOperation) \ Range(emits)), emits)
  IN  [tag \in DOMAIN PartsOfTag |->
         Of(<<"Output", "JobLevel", "UserData", "TemplateId">> \o PartsOfTag[tag])]
      @@ [ExtractDigitalWatermark |->
            Of(<<"JobLevel", "UserData", "TemplateId", "ExtractDigitalWatermark">>)]
ParseJobsOperation ==
  Reader(JobsOperation, FieldsOf(JobsOperation) \ {"WatermarkTemplateId"})

CallBackMqConfig == Members({"MqMode", "MqRegion", "MqName"}, {})
PutCallBackMqConfig == OnlyWith(Writer(CallBackMqConfig, <<"MqMode", "MqRegion", "MqName">>),
                                {"MqMode", "MqRegion", "MqName"})
JobsOptions == Members({"Tag", "QueueId", "Input", "Operation", "CallBackFormat", "CallBackType",
                        "CallBack", "CallBackMqConfig"}, {})
PutDataProcessJobs ==
  Writer(JobsOptions, <<"Tag", "QueueId", "Input", "Operation", "CallBackFormat", "CallBackType",
                        "CallBack", "CallBackMqConfig">>)
JobsDetails ==
  Members({"Code", "Message", "JobId", "Tag", "State", "CreationTime", "EndTime", "QueueId",
           "QueueType", "StartTime", "Progress", "Input", "Operation"}, {})
ParseDataProcessJob == EachOf(JobsDetails)
=============================================================================
