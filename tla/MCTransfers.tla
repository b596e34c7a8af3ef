----------------------------- MODULE MCTransfers -----------------------------
(***************************************************************************)
(* Two transfers, each checked on its own: a behaviour is either of a      *)
(* resumable download or of one upload request, and the other one stays as *)
(* it is.                                                                  *)
(***************************************************************************)
EXTENDS ResumableDownload, UploadAction

VARIABLE subject   \* which of the two the behaviour is of

\* A request that does not begin: one of its initial states.
NoRequest ==
  /\ UploadInit
  /\ config = [retryChangeDomain |-> FALSE, useDefaultDomain |-> FALSE, isCi |-> FALSE]
  /\ begin = 0

MCInit ==
  /\ Init
  /\ \/ subject = "download" /\ NoRequest
     \/ subject = "request" /\ UploadInit

OnlyDownload == subject = "download" /\ UNCHANGED <<subject, uploadVars>>
OnlyRequest == subject = "request" /\ UNCHANGED <<subject, vars>>

MCNext ==
  \/ Next /\ OnlyDownload
  \/ UploadNext /\ OnlyRequest

mcVars == <<vars, uploadVars, subject>>

MCSpec == MCInit /\ [][MCNext]_mcVars

\* Of the download, as in its FairSpec: the threads run, every request ends, and
\* the client calls again.
MCFairSpec ==
  /\ MCSpec
  /\ WF_mcVars(Step /\ OnlyDownload)
  /\ WF_mcVars(Request /\ OnlyRequest)

\* A client that calls again ends with a download, unless a call hangs.
DownloadEnds == subject = "download" => EventuallyDownloaded
=============================================================================
