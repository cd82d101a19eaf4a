-------------------------------- MODULE Views -------------------------------
(* The parts of the page that show what the server has, side by side: the   *)
(* session list, the Files view and its uploads.  They share no state.      *)
EXTENDS SessionPick, FilesStore, FileUploads

\* The views keep the types of their variables.
ViewsTyped == PickTypeOK /\ FilesTypeOK /\ UploadsTypeOK
=============================================================================
