----------------------------- MODULE MCObjectCalls -----------------------------
EXTENDS ObjectCalls, DocumentTopics

\* What the SDK has documents about.
SdkTopics == AllTopics
SdkParts == AllParts
=============================================================================
