--------------------------- MODULE AuditingAccessors ---------------------------
(***************************************************************************)
(* The classes of the content auditing service: what was found, by scene,  *)
(* in pictures, videos, sounds, texts, documents and web pages, and the    *)
(* settings of an auditing job.                                            *)
(***************************************************************************)
EXTENDS Accessors

Scenes == {"PornInfo", "AdsInfo", "IllegalInfo", "AbuseInfo", "PoliticsInfo", "TerrorismInfo"}

Location == Masked({"X", "Y", "Width", "Height", "Rotate"}, {})
ParseLocation == Reader(Location, {"X", "Y", "Height", "Width", "Rotate"})

OcrResult == Masked({"Text", "Keywords", "Location"}, {"Keywords"})
ParseOcrResultInfo == Reader(OcrResult, {"Text", "Keywords", "Location"})

ObjectResults == Masked({"Name", "Location"}, {})
ParseObjectResults == Reader(ObjectResults, {"Name", "Location"})

RecognitionResult == Masked({"Label", "Score", "StartTime", "EndTime"}, {})
ParseRecognitionResult == Reader(RecognitionResult, {"Label", "Score", "StartTime", "EndTime"})

\* All three Has functions test the bit of LibType, and the keywords are never read:
\* the name compared with "Keywords" is that of the parent.
LibResults == [Masked({"LibType", "LibName", "Keywords"}, {"Keywords"}) EXCEPT
                 !.tests = [f \in {"LibType", "LibName", "Keywords"} |-> "LibType"]]
ParseLibResults == Reader(LibResults, {"LibType", "LibName"})

SceneResultInfo ==
  Masked({"Code", "Msg", "HitFlag", "Score", "Label", "Category", "SubLabel", "Count",
          "OcrResults", "ObjectResults", "Keywords", "LibResults", "SpeakerResults",
          "RecognitionResults"},
         {"OcrResults", "Keywords", "LibResults", "SpeakerResults", "RecognitionResults"})
ParseSceneResultInfo ==
  Reader(SceneResultInfo,
         {"Code", "Msg", "Count", "HitFlag", "Score", "Label", "SubLabel", "Category",
          "OcrResults", "ObjectResults", "Keywords", "LibResults", "SpeakerResults",
          "RecognitionResults"})

\* GetRoom returns the device.
UserInfo == [Masked({"TokenId", "Nickname", "DeviceId", "AppId", "Room", "IP", "Type",
                     "ReceiveTokenId", "Gender", "Level", "Role"}, {})
             EXCEPT !.shows["Room"] = "DeviceId"]
ParseUserInfo == Reader(UserInfo, {"TokenId", "Nickname", "DeviceId", "AppId", "Room", "IP",
                                   "Type", "ReceiveTokenId", "Gender", "Level", "Role"})

SegmentResult ==
  Masked({"Url", "SnapShotTime", "OffsetTime", "Duration", "Text", "Label", "Result",
          "StartByte", "TeenagerInfo", "LanguageResults"} \cup Scenes, {"LanguageResults"})
ParseSegmentResult ==
  Reader(SegmentResult,
         {"Url", "SnapShotTime", "Text", "OffsetTime", "Duration", "Label", "Result",
          "StartByte", "TeenagerInfo", "LanguageResults"} \cup Scenes)

Labels == Masked(Scenes, {})
ParseLabels == Reader(Labels, Scenes)

ListResult == Masked({"ListType", "ListName", "Entity"}, {})
ParseListResult == Reader(ListResult, {"ListType", "ListName", "Entity"})

ListInfo == Masked({"ListResults"}, {"ListResults"})
ParseListInfo == Reader(ListInfo, {"ListResults"})

Result == Masked({"Url", "PageNumber", "SheetNumber", "Text", "Label", "Suggestion"}
                 \cup Scenes, {})
ParseResults == Reader(Result, {"Url", "PageNumber", "Text", "SheetNumber", "Label",
                                "Suggestion"} \cup Scenes)

PageSegment == Masked({"Results"}, {"Results"})
ParsePageSegment == Reader(PageSegment, {"Results"})

-----------------------------------------------------------------------------
\* The answers: a job of each kind. ForbidState is the field of SetForbitState.
AuditingJobsDetail == {"Code", "Message", "DataId", "JobId", "State", "CreationTime", "UserInfo"}

\* The user of a picture can only get at the member of the base class, which nothing
\* sets, and its freezing and lists cannot be got at all.
ImageAuditingJobsDetail ==
  [Masked(AuditingJobsDetail \cup Scenes
          \cup {"Object", "Url", "CompressionResult", "Text", "Label", "Result", "Category",
                "SubLabel", "ForbidState", "ListInfo"}, {})
   EXCEPT !.shows = [UserInfo |-> "none", ForbidState |-> "none", ListInfo |-> "none"] @@ @]

\* QualityInfo goes where TerrorismInfo goes.
ParseImageAuditingJobsDetail ==
  LET same == Reader(ImageAuditingJobsDetail, FieldsOf(ImageAuditingJobsDetail))
  IN  [same EXCEPT !.takes = ("QualityInfo" :> "TerrorismInfo") @@ @]

\* The setters from AddSnapShot on are 8 bits ahead of the Has functions.
VideoAuditingJobsDetail ==
  [Masked(AuditingJobsDetail \cup Scenes
          \cup {"Object", "Url", "SnapshotCount", "Label", "Result", "Snapshot", "AudioSection",
                "ForbidState", "ListInfo"}, {"Snapshot", "AudioSection"})
   EXCEPT !.sets = [Snapshot |-> "UserInfo", AudioSection |-> "ForbidState",
                    UserInfo |-> "ListInfo", ForbidState |-> "none", ListInfo |-> "none"] @@ @]
ParseVideoJobsDetail == Reader(VideoAuditingJobsDetail, FieldsOf(VideoAuditingJobsDetail))

AudioAuditingJobsDetail ==
  Masked(AuditingJobsDetail \cup Scenes
         \cup {"Object", "Url", "Label", "Result", "AudioText", "Section", "TeenagerInfo",
               "SubLabel", "ForbidState", "ListInfo"}, {"Section"})
ParseAudioJobsDetail == Reader(AudioAuditingJobsDetail, FieldsOf(AudioAuditingJobsDetail))

\* The last three Has functions test bits that nothing sets.
TextAuditingJobsDetail ==
  [Masked(AuditingJobsDetail \cup Scenes
          \cup {"Object", "Content", "SectionCount", "Label", "Result", "Section",
                "ForbidState", "ListInfo"}, {"Section"})
   EXCEPT !.tests = [UserInfo |-> "none", ForbidState |-> "none", ListInfo |-> "none"] @@ @]
ParseTextJobsDetail == Reader(TextAuditingJobsDetail, FieldsOf(TextAuditingJobsDetail))

DocumentAuditingJobsDetail ==
  [Masked(AuditingJobsDetail
          \cup {"Object", "Url", "Label", "Suggestion", "PageCount", "Labels", "PageSegment",
                "ForbidState", "ListInfo"}, {})
   EXCEPT !.tests = [ForbidState |-> "none", ListInfo |-> "none"] @@ @]
ParseDocumentJobsDetail == Reader(DocumentAuditingJobsDetail, FieldsOf(DocumentAuditingJobsDetail))

WebPageAuditingJobsDetail ==
  [Masked(AuditingJobsDetail
          \cup {"Url", "Label", "Suggestion", "PageCount", "ImageResults", "TextResults",
                "HighlightHtml", "Labels", "ListInfo"}, {})
   EXCEPT !.tests = [UserInfo |-> "none", ListInfo |-> "none"] @@ @]
ParseWebPageJobsDetail == Reader(WebPageAuditingJobsDetail, FieldsOf(WebPageAuditingJobsDetail))

\* A repeated JobsDetail is one more picture, or is read into the same job.
AuditingResp == Members({"RequestId", "JobsDetail"}, {"JobsDetail"})
ParseJobs == Reader(AuditingResp, {"RequestId", "JobsDetail"})
ParseBatch == Reader(AuditingResp, {"RequestId", "JobsDetail"})
ParseImageJob == Reader(AuditingResp, {"RequestId", "JobsDetail"})

-----------------------------------------------------------------------------
\* The requests: what is audited, and how.
AuditingInput ==
  Masked({"Object", "Url", "Interval", "MaxFrames", "DataId", "LargeImageDetect", "UserInfo",
          "Content", "Type"}, {})
CreateInput == Writer(AuditingInput, <<"Object", "Url", "DataId", "Content", "Type", "UserInfo">>)
BatchInput == Writer(AuditingInput, <<"Object", "Url", "DataId", "Interval", "MaxFrames",
                                      "LargeImageDetect", "UserInfo">>)

CreateUser == Writer(UserInfo, <<"TokenId", "Nickname", "DeviceId", "AppId", "Room", "IP", "Type">>)
BatchUser == Writer(UserInfo, <<"TokenId", "Nickname", "DeviceId", "AppId", "Room", "IP", "Type",
                                "ReceiveTokenId", "Gender", "Level", "Role">>)

\* SetTimeIterval assigns the mask.
SnapShotConf == [Masked({"Mode", "Count", "TimeInterval"}, {}) EXCEPT !.wipes = {"TimeInterval"}]
CreateSnapshot == Writer(SnapShotConf, <<"Mode", "Count", "TimeInterval">>)

\* SetDetectType and GetDetectType use the member of BizType.
Conf == [Masked({"BizType", "DetectType", "Snapshot", "Callback", "CallbackVersion",
                 "DetectContent", "ReturnHighlightHtml", "Async", "Freeze", "Timeout"}, {})
         EXCEPT !.into["DetectType"] = "BizType", !.shows["DetectType"] = "BizType"]

\* The two writers name the callback each in its own way. What Freeze says is
\* built and never appended.
CreateConf == [Writer(Conf, <<"BizType", "DetectType", "Snapshot", "Callbcak", "CallbcakVersion",
                              "DetectContent">>)
               EXCEPT !.from = [Callbcak |-> "Callback", CallbcakVersion |-> "CallbackVersion"] @@ @]
BatchConf == [Writer(Conf, <<"BizType", "DetectType", "Async", "CallBack", "Timeout">>)
              EXCEPT !.from["CallBack"] = "Callback"]

\* A batch needs a picture, and has a Conf in any case.
BatchImageAuditingReq == Members({"Input"}, {"Input"})
BatchBody == [Writer(BatchImageAuditingReq, <<"Input">>) EXCEPT
                !.needs = {"Input"}, !.adds = <<Element("Conf", 0)>>]
=============================================================================
