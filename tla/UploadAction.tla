----------------------------- MODULE UploadAction -----------------------------
(***************************************************************************)
(* BaseOp::UploadAction and the HttpSender below it, as PutObject calls    *)
(* them: a stream is sent in attempts that each start where the stream     *)
(* stood.  The Content-Length is the size of the whole stream.  An answer  *)
(* may be lost after the server has stored the object, and the user may    *)
(* cancel at any time, also while the answer is read.                      *)
(***************************************************************************)
EXTENDS RetryPolicy

CONSTANT Length   \* the chunks of the stream, of which there may be none

ASSUME UploadAssumption == Length \in Nat

VARIABLES config,   \* the configuration of the client
          begin,    \* where the stream stood when the request began
          at,       \* where the request is
          i,        \* the attempt
          domain,   \* the domain the attempt goes to
          pos,      \* the read position of the stream
          sent,     \* the chunks this attempt has sent
          stored,   \* how many chunks of the stream the server's object has
          answer,   \* the CosResult of the attempt
          cancel,   \* m_cancel
          progress  \* m_current_progress; m_total_size is Length

uploadVars == <<config, begin, at, i, domain, pos, sent, stored, answer, cancel, progress>>

UploadTypeOK ==
  /\ config \in Configs
  /\ begin \in 0 .. 1 /\ begin <= Length
  /\ at \in {"send", "body", "await", "answered", "done"}
  /\ i \in 0 .. MaxRetryTimes
  /\ domain \in {"default", "backup"}
  /\ pos \in 0 .. Length
  /\ sent \in 0 .. Length
  /\ stored \in 0 .. Length
  /\ answer \in CosResults
  /\ cancel \in BOOLEAN
  /\ progress \in 0 .. Length

UploadInit ==
  /\ config \in Configs
  /\ begin \in 0 .. 1 /\ begin <= Length
  /\ at = "send"
  /\ i = 0
  /\ domain = "default"
  /\ pos = begin
  /\ sent = 0
  /\ stored = 0
  /\ answer = NoResult
  /\ cancel = FALSE
  /\ progress = 0

-----------------------------------------------------------------------------
\* HttpSender::SendRequest

ContentLength == Length

Answer(http, reqid, succ) ==
  /\ answer' = [http |-> http, reqid |-> reqid, succ |-> succ]
  /\ at' = "answered"

UpdateProgress(n) ==
  progress' = IF progress + n > Length THEN Length ELSE progress + n

Connect ==
  /\ at = "send"
  /\ at' = "body"
  /\ sent' = 0
  /\ UNCHANGED <<config, begin, i, domain, pos, stored, answer, cancel, progress>>

\* A failed attempt whose answer brought no headers has no request id.
ConnectFails ==
  /\ at = "send"
  /\ Answer("NetError", FALSE, FALSE)
  /\ UNCHANGED <<config, begin, i, domain, pos, sent, stored, cancel, progress>>

\* Mutation: the user's cancellation is not asked for between two chunks.
SendChunkAnyway ==
  /\ at = "body"
  /\ pos < Length
  /\ pos' = pos + 1
  /\ sent' = sent + 1
  /\ UpdateProgress(1)
  /\ UNCHANGED <<config, begin, at, i, domain, stored, answer, cancel>>

SendChunk ==
  /\ at = "body"
  /\ pos < Length
  /\ ~cancel
  /\ pos' = pos + 1
  /\ sent' = sent + 1
  /\ UpdateProgress(1)
  /\ UNCHANGED <<config, begin, at, i, domain, stored, answer, cancel>>

\* UserCancelException, thrown between the read of a chunk and its write.
SendCancelled ==
  /\ at = "body"
  /\ pos < Length
  /\ cancel
  /\ pos' = pos + 1
  /\ Answer("UserCancel", FALSE, FALSE)
  /\ UNCHANGED <<config, begin, i, domain, sent, stored, cancel, progress>>

SendBreaks ==
  /\ at = "body"
  /\ Answer("NetError", FALSE, FALSE)
  /\ UNCHANGED <<config, begin, i, domain, pos, sent, stored, cancel, progress>>

SendEnds ==
  /\ at = "body"
  /\ pos = Length
  /\ at' = "await"
  /\ UNCHANGED <<config, begin, i, domain, pos, sent, stored, answer, cancel, progress>>

\* The server stores an object only when all it was promised has come.
Store == IF sent = ContentLength THEN {stored, sent} ELSE {stored}

\* No answer comes in time or the connection breaks, before or after the server
\* stored the object.
AwaitFails ==
  /\ at = "await"
  /\ stored' \in Store
  /\ Answer("NetError", FALSE, FALSE)
  /\ UNCHANGED <<config, begin, i, domain, pos, sent, cancel, progress>>

\* The server, or something before it, says no; its message counts as progress.
AwaitRefused ==
  /\ at = "await"
  /\ \E http \in {"Redirect", "Other", "4xx", "5xx"}, reqid \in BOOLEAN : Answer(http, reqid, FALSE)
  /\ UpdateProgress(1)
  /\ UNCHANGED <<config, begin, i, domain, pos, sent, stored, cancel>>

\* The answer has a body, and the user has cancelled before it is copied.
AwaitCancelled ==
  /\ at = "await"
  /\ cancel
  /\ stored' \in Store
  /\ Answer("UserCancel", FALSE, FALSE)
  /\ UNCHANGED <<config, begin, i, domain, pos, sent, cancel, progress>>

AwaitSucceeds ==
  /\ at = "await"
  /\ sent = ContentLength
  /\ stored' = sent
  /\ \E reqid \in BOOLEAN : Answer("OK", reqid, TRUE)
  /\ UNCHANGED <<config, begin, i, domain, pos, sent, cancel, progress>>

-----------------------------------------------------------------------------
\* BaseOp::UploadAction and PutObject

\* PutObject compares the ETag with the MD5 of the stream, if it computed one.
GiveUp ==
  /\ at = "answered"
  /\ GivesUp(answer, i)
  /\ at' = "done"
  /\ answer' \in {answer, [answer EXCEPT !.succ = FALSE]}
  /\ UNCHANGED <<config, begin, i, domain, pos, sent, stored, cancel, progress>>

\* Mutation: the stream is not rewound.
RetryNoSeek ==
  /\ at = "answered"
  /\ ~GivesUp(answer, i)
  /\ domain' = IF ShouldChangeBackupDomain(config, answer, i) THEN "backup" ELSE domain
  /\ i' = i + 1
  /\ at' = "send"
  /\ UNCHANGED <<config, begin, pos, sent, stored, answer, cancel, progress>>

\* The stream goes back to where it stood and is sent again.
Retry ==
  /\ at = "answered"
  /\ ~GivesUp(answer, i)
  /\ domain' = IF ShouldChangeBackupDomain(config, answer, i) THEN "backup" ELSE domain
  /\ pos' = begin
  /\ i' = i + 1
  /\ at' = "send"
  /\ UNCHANGED <<config, begin, sent, stored, answer, cancel, progress>>

Request ==
  \/ Connect \/ ConnectFails
  \/ SendChunk \/ SendCancelled \/ SendBreaks \/ SendEnds
  \/ AwaitFails \/ AwaitRefused \/ AwaitCancelled \/ AwaitSucceeds
  \/ GiveUp \/ Retry

Cancel ==
  /\ at # "done"
  /\ ~cancel
  /\ cancel' = TRUE
  /\ UNCHANGED <<config, begin, at, i, domain, pos, sent, stored, answer, progress>>

UploadDone == at = "done" /\ UNCHANGED uploadVars

UploadNext == Request \/ Cancel \/ UploadDone

UploadSpec == UploadInit /\ [][UploadNext]_uploadVars

-----------------------------------------------------------------------------
\* Properties

\* Every attempt sends what the first one would have sent, whatever part of the
\* stream the attempts before it had read.
AttemptsSendAll == at = "await" => sent = Length - begin

\* A request that is cancelled before one of its attempts begins, with something
\* left to send, does not succeed any more, although the retry loop asks for the
\* cancellation nowhere and goes on when it went unnoticed; and if the server had
\* stored nothing for it, it never will.
CancelPrevails ==
  [](at = "send" /\ cancel /\ begin < Length =>
       /\ []~answer.succ
       /\ stored = 0 => [](stored = 0))

\* A cancelled request is never sent again once its cancellation was noticed,
\* and the user is not told of a success that the server did not report.
CancelIsFinal ==
  [][answer.http = "UserCancel" => answer'.http = "UserCancel" /\ i' = i /\ ~answer'.succ]_uploadVars
=============================================================================
