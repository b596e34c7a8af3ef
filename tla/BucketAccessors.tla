---------------------------- MODULE BucketAccessors ----------------------------
(***************************************************************************)
(* The settings of a bucket and what its listings say: lifecycle, access,  *)
(* replication, logging, domain, website, tags, inventory, tiering,        *)
(* referers.  The readers make a new object for an element with children   *)
(* and add it to a vector of the response, which they never clear.         *)
(***************************************************************************)
EXTENDS Accessors

\* Listings. The owner of an object is its id alone.
Content == Members({"Key", "LastModified", "ETag", "Size", "StorageClass", "StorageTier",
                    "RestoreStatus", "Owner"}, {"Owner"})
ParseContents == Reader(Content, FieldsOf(Content))

GetBucketResp == Members({"Name", "EncodingType", "NextMarker", "Delimiter", "Prefix", "Marker",
                          "MaxKeys", "IsTruncated", "CommonPrefixes", "Contents"},
                         {"CommonPrefixes", "Contents"})
ParseListBucket == Reader(GetBucketResp, FieldsOf(GetBucketResp))

\* Each child of an Initiator or Owner element, its ID and its DisplayName, becomes
\* an owner of its own.
Upload == Members({"Key", "UploadId", "StorageClass", "Initiator", "Owner", "Initiated"},
                  {"Initiator", "Owner"})
ParseUpload ==
  [Reader(Upload, {"Key", "UploadId", "StorageClass", "Initiated"})
   EXCEPT !.takes = [InitiatorID |-> "Initiator", InitiatorDisplayName |-> "Initiator",
                     OwnerID |-> "Owner", OwnerDisplayName |-> "Owner"] @@ @]

ListMultipartUploadResp ==
  Members({"Bucket", "EncodingType", "KeyMarker", "UploadIdMarker", "NextKeyMarker",
           "NextUploadIdMarker", "MaxUploads", "Delimiter", "Prefix", "IsTruncated",
           "CommonPrefixes", "Upload"}, {"CommonPrefixes", "Upload"})
ParseListMultipartUpload == Reader(ListMultipartUploadResp, FieldsOf(ListMultipartUploadResp))

COSVersionSummary == Members({"Key", "VersionId", "IsLatest", "LastModified", "OwnerID",
                              "OwnerDisplayName", "ETag", "Size", "StorageClass"}, {})
ParseVersionSummary == Reader(COSVersionSummary, FieldsOf(COSVersionSummary))

\* Versions and delete markers are summaries. The version to go on from has no getter.
GetBucketObjectVersionsResp ==
  [Members({"Name", "Prefix", "KeyMarker", "VersionIdMarker", "MaxKeys", "IsTruncated",
            "EncodingType", "NextKeyMarker", "NextVersionIdMarker", "Summaries"}, {"Summaries"})
   EXCEPT !.shows["NextVersionIdMarker"] = "none"]
ParseObjectVersions ==
  [Reader(GetBucketObjectVersionsResp,
          FieldsOf(GetBucketObjectVersionsResp) \ {"EncodingType", "Summaries"})
   EXCEPT !.takes = ("Encoding-Type" :> "EncodingType" @@ "Version" :> "Summaries"
                     @@ "DeleteMarker" :> "Summaries") @@ @]

LiveChannel == Members({"Name", "LastModified"}, {})
ParseLiveChannel == [Reader(LiveChannel, FieldsOf(LiveChannel)) EXCEPT !.stops = TRUE]

ListLiveChannelResult ==
  Members({"MaxKeys", "Marker", "Prefix", "IsTruncated", "NextMarker", "LiveChannel"},
          {"LiveChannel"})
ParseListLiveChannel ==
  [Reader(ListLiveChannelResult, FieldsOf(ListLiveChannelResult)) EXCEPT !.stops = TRUE]

GetBucketLocationResp == Members({"LocationConstraint"}, {})
ParseLocationConstraint == Reader(GetBucketLocationResp, {"LocationConstraint"})

-----------------------------------------------------------------------------
\* Replication. A rule is constructed with its status.
ReplicationRule == Members({"Status", "ID", "Prefix", "Bucket", "StorageClass"}, {})
PutReplicationRule ==
  [Writer(ReplicationRule, <<"Status", "ID", "Prefix", "Bucket", "StorageClass">>)
   EXCEPT !.needs = {"Bucket"}, !.starts = <<"Status">>]
ParseReplicationRule == Reader(ReplicationRule, FieldsOf(ReplicationRule))

BucketReplication == Members({"Role", "Rule"}, {"Rule"})
PutBucketReplication == [Writer(BucketReplication, <<"Role", "Rule">>) EXCEPT !.needs = {"Rule"}]
ParseReplication == Reader(BucketReplication, {"Role", "Rule"})

-----------------------------------------------------------------------------
\* Lifecycle.
LifecycleTag == Members({"Key", "Value"}, {})
PutLifecycleTag == Writer(LifecycleTag, <<"Key", "Value">>)
ParseLifecycleTag == Reader(LifecycleTag, {"Key", "Value"})

LifecycleFilter == Masked({"Prefix", "Tag"}, {"Tag"})
PutLifecycleFilter == Writer(LifecycleFilter, <<"Prefix", "Tag">>)
ParseLifecycleFilter == Reader(LifecycleFilter, {"Prefix", "Tag"})

\* The date is written only if there are no days.
LifecycleTransition == Masked({"Days", "Date", "StorageClass"}, {})
PutLifecycleTransition ==
  [Writer(LifecycleTransition, <<"Days", "Date", "StorageClass">>)
   EXCEPT !.hides = [Date |-> "Days"]]
ParseLifecycleTransition == Reader(LifecycleTransition, {"Days", "Date", "StorageClass"})

LifecycleExpiration == Masked({"Days", "Date", "ExpiredObjectDeleteMarker"}, {})
PutLifecycleExpiration ==
  [Writer(LifecycleExpiration, <<"Days", "Date", "ExpiredObjectDeleteMarker">>)
   EXCEPT !.hides = [Date |-> "Days"]]
ParseLifecycleExpiration ==
  Reader(LifecycleExpiration, {"Days", "Date", "ExpiredObjectDeleteMarker"})

LifecycleNonCurrTransition == Masked({"NoncurrentDays", "StorageClass"}, {})
PutNonCurrTransition == Writer(LifecycleNonCurrTransition, <<"NoncurrentDays", "StorageClass">>)
ParseNonCurrTransition == Reader(LifecycleNonCurrTransition, {"NoncurrentDays", "StorageClass"})

LifecycleNonCurrExpiration == Masked({"NoncurrentDays"}, {})
PutNonCurrExpiration == Writer(LifecycleNonCurrExpiration, <<"NoncurrentDays">>)
ParseNonCurrExpiration == Reader(LifecycleNonCurrExpiration, {"NoncurrentDays"})

LifecycleRule ==
  Masked({"ID", "Status", "Filter", "Expiration", "Transition", "NoncurrentVersionTransition",
          "NoncurrentVersionExpiration", "AbortIncompleteMultipartUpload"}, {"Transition"})
PutLifecycleRule ==
  Writer(LifecycleRule, <<"ID", "Status", "Filter", "Expiration", "Transition",
                          "NoncurrentVersionTransition", "NoncurrentVersionExpiration",
                          "AbortIncompleteMultipartUpload">>)

\* A prefix beside the filter is part of it, and a further filter adds to the first.
ParseLifecycleRule ==
  LET filters == [LifecycleRule EXCEPT !.lists = @ \cup {"Filter"}]
  IN  [Reader(filters, FieldsOf(LifecycleRule)) EXCEPT !.takes = ("Prefix" :> "Filter") @@ @]

BucketLifecycle == Members({"Rule"}, {"Rule"})
PutBucketLifecycle == Writer(BucketLifecycle, <<"Rule">>)
ParseLifecycle == Reader(BucketLifecycle, {"Rule"})

-----------------------------------------------------------------------------
\* Access.
Grantee == Members({"Type", "ID", "DisplayName", "URI"}, {})
PutGrantee == Writer(Grantee, <<"Type", "ID", "DisplayName", "URI">>)
ParseGrantee == Reader(Grantee, FieldsOf(Grantee))

AccessControlPolicy == Members({"ID", "DisplayName", "Grant"}, {"Grant"})
GenerateAclRequestBody ==
  [Writer(AccessControlPolicy, <<"ID", "DisplayName", "Grant">>)
   EXCEPT !.needs = {"ID", "DisplayName", "Grant"}]
ParseFromACLXMLString == Reader(AccessControlPolicy, {"ID", "DisplayName", "Grant"})

CORSRule == Members({"ID", "MaxAgeSeconds", "AllowedHeader", "ExposeHeader", "AllowedOrigin",
                     "AllowedMethod"},
                    {"AllowedHeader", "ExposeHeader", "AllowedOrigin", "AllowedMethod"})
PutCORSRule == Writer(CORSRule, <<"ID", "MaxAgeSeconds", "AllowedHeader", "ExposeHeader",
                                  "AllowedOrigin", "AllowedMethod">>)
ParseCORSRule == Reader(CORSRule, FieldsOf(CORSRule))

BucketCORS == Members({"CORSRule"}, {"CORSRule"})
PutBucketCORS == Writer(BucketCORS, <<"CORSRule">>)
ParseCORS == Reader(BucketCORS, {"CORSRule"})

\* The status has a value from the start; the answers read the signature check too.
BucketReferer == Members({"Status", "RefererType", "EmptyReferConfiguration", "Domain",
                          "VerifySignatureURL"}, {"Domain"})
PutBucketReferer ==
  Writer(Without(BucketReferer, {"VerifySignatureURL"}),
         <<"Status", "RefererType", "EmptyReferConfiguration", "Domain">>)
ParseReferer == Reader(BucketReferer, FieldsOf(BucketReferer))

BucketVersioning == Members({"Status"}, {})
PutBucketVersioning == [Writer(BucketVersioning, <<"Status">>) EXCEPT !.starts = <<"Status">>]
ParseVersioning == Reader(BucketVersioning, {"Status"})

\* The frequency of requests cannot be set: it is written as 1.
BucketIntelligentTiering == Members({"Status", "Days", "RequestFrequent"}, {})
PutBucketIntelligentTiering ==
  [Writer(Without(BucketIntelligentTiering, {"RequestFrequent"}), <<"Status", "Days">>)
   EXCEPT !.starts = <<"Status", "Days">>, !.adds = <<Element("RequestFrequent", 0)>>]
ParseIntelligentTiering ==
  [Reader(BucketIntelligentTiering, FieldsOf(BucketIntelligentTiering)) EXCEPT !.stops = TRUE]

-----------------------------------------------------------------------------
\* Logging and domain.
LoggingEnabled == Masked({"TargetBucket", "TargetPrefix"}, {})
PutBucketLogging == Writer(LoggingEnabled, <<"TargetBucket", "TargetPrefix">>)
ParseLogging == Reader(LoggingEnabled, {"TargetBucket", "TargetPrefix"})

\* What a domain lacks is only logged; its forced replacement is not read back.
DomainRule == Masked({"Status", "Name", "Type", "ForceReplacement"}, {})
PutBucketDomain == Writer(DomainRule, <<"Status", "Name", "Type", "ForceReplacement">>)
GetBucketDomainResp == Members({"Status", "Name", "Type"}, {})
ParseDomain == Reader(GetBucketDomainResp, {"Status", "Name", "Type"})

DomainErrorMsg == Members({"Code", "Message", "Resource", "RequestId", "TraceId"}, {})
ParseDomainError == Reader(DomainErrorMsg, FieldsOf(DomainErrorMsg))

\* Website. The condition and the redirection of a rule are one object here.
RoutingConditions == Masked({"HttpErrorCodeReturnedEquals", "KeyPrefixEquals"}, {})
ParseCondition == Reader(RoutingConditions, FieldsOf(RoutingConditions))

Redirect == Masked({"Protocol", "ReplaceKeyWith", "ReplaceKeyPrefixWith"}, {})
ParseRedirect == Reader(Redirect, FieldsOf(Redirect))

\* A prefix is replaced only where a prefix is the condition.
RoutingRule == Masked(FieldsOf(RoutingConditions) \cup FieldsOf(Redirect), {})
PutRoutingRule ==
  [Writer(RoutingRule, <<"HttpErrorCodeReturnedEquals", "KeyPrefixEquals", "Protocol",
                         "ReplaceKeyWith", "ReplaceKeyPrefixWith">>)
   EXCEPT !.with = [ReplaceKeyPrefixWith |-> {"KeyPrefixEquals"}]]
ParseFromXmlRoutingRule == Reader(RoutingRule, FieldsOf(RoutingRule))

BucketWebsite == Masked({"Suffix", "Protocol", "Key", "RoutingRule"}, {"RoutingRule"})
PutBucketWebsite == [Writer(BucketWebsite, <<"Suffix", "Protocol", "Key", "RoutingRule">>)
                     EXCEPT !.needs = {"Suffix"}]
GetBucketWebsiteResp == Members(FieldsOf(BucketWebsite), {"RoutingRule"})
ParseWebsite == Reader(GetBucketWebsiteResp, FieldsOf(GetBucketWebsiteResp))

\* Tags.
Tag == Masked({"Key", "Value"}, {})
PutTag == Writer(Tag, <<"Key", "Value">>)
ParseTag == Reader(Tag, {"Key", "Value"})

TagSet == Members({"Tag"}, {"Tag"})
PutBucketTagging == Writer(TagSet, <<"Tag">>)
ParseTagging == Reader(TagSet, {"Tag"})

-----------------------------------------------------------------------------
\* Inventory.
COSBucketDestination == Masked({"Format", "AccountId", "Bucket", "Prefix", "Encryption"}, {})
PutDestination ==
  [Writer(COSBucketDestination, <<"Format", "AccountId", "Bucket", "Prefix", "Encryption">>)
   EXCEPT !.needs = {"Format", "Bucket"}]
ParseFromXmlCOSBucketDestination ==
  Reader(COSBucketDestination, FieldsOf(COSBucketDestination))

\* The bits of the last two setters are those of each other's Has functions.
OptionalFields ==
  [Masked({"Size", "LastModifiedDate", "ETag", "StorageClass", "IsMultipartUploaded",
           "ReplicationStatus"}, {})
   EXCEPT !.sets["IsMultipartUploaded"] = "ReplicationStatus",
          !.sets["ReplicationStatus"] = "IsMultipartUploaded"]
PutOptionalFields ==
  Writer(OptionalFields, <<"Size", "LastModifiedDate", "ETag", "StorageClass",
                           "IsMultipartUploaded", "ReplicationStatus">>)
ParseFromXmlOptionalFields == Reader(OptionalFields, FieldsOf(OptionalFields))

\* Its destination needs fields of its own. Schedule is one of the two frequencies.
Inventory ==
  Masked({"Id", "IsEnabled", "Destination", "Schedule", "Filter", "IncludedObjectVersions",
          "OptionalFields"}, {})
PutBucketInventory ==
  [Writer(Inventory, <<"Id", "IsEnabled", "Destination", "Schedule", "Filter",
                       "IncludedObjectVersions", "OptionalFields">>)
   EXCEPT !.needs = {"Id", "IsEnabled", "Destination", "Schedule", "IncludedObjectVersions"}]
ParseFromXmlInventoryConfiguration == Reader(Inventory, FieldsOf(Inventory))

ListBucketInventoryConfigurationsResp ==
  Members({"InventoryConfiguration", "IsTruncated", "ContinuationToken",
           "NextContinuationToken"}, {"InventoryConfiguration"})
ParseInventories ==
  Reader(ListBucketInventoryConfigurationsResp, FieldsOf(ListBucketInventoryConfigurationsResp))
=============================================================================
