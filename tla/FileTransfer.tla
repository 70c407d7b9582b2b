---------------------------- MODULE FileTransfer ----------------------------
(***************************************************************************)
(* Uploads and downloads over one link of the agent, which carries frames  *)
(* to the agent (FileUpload) and from it (FileDownload) and takes both     *)
(* with it when it breaks.                                                 *)
(***************************************************************************)
EXTENDS FileUpload

CONSTANTS
  Downloads,
  DownCap    \* FS_READ_CHANNEL_CAP

ASSUME DownloadAssumption == DownCap \in Nat

VARIABLES reply, load

Down == INSTANCE FileDownload

uploadVars   == <<hubVars, down, agentVars>>
downloadVars == <<reply, load>>

TransferInit == Init /\ Down!Init

\* Bound: a behaviour has uploads or downloads; they share only the link
NoUpload   == \A u \in Uploads : job[u] = NoJob
NoDownload == \A d \in Downloads : load[d] = Down!NoLoad

TransferNext ==
  \/ NoDownload /\ Transfer /\ UNCHANGED downloadVars
  \/ NoUpload /\ Down!Transfer /\ UNCHANGED uploadVars
  \/ LinkBreaks /\ Down!LinkBreaks
  \/ Reconnect /\ Down!Reconnect

TransferSpec == TransferInit /\ [][TransferNext]_<<vars, downloadVars>>

\* Whatever is dropped, a body never repeats or reorders; one that lost no
\* chunk is a prefix of the file, the whole file when the eof ended it.
BodyFaithful == Down!BodyFaithful

\* Nothing of a transfer that is over stays open: a file on the agent is about
\* to be closed unless its request handler was dropped or its connection lost
\* (upload_file_to_agent), and a routing entry of the hub is about to go, also
\* when the browser hung up (files_download, AgentConn).
NothingLeftOpen == SessionsClosed /\ Down!RoutesHeld
=============================================================================
