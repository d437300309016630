------------------------ MODULE MCFilesystemWatcher ------------------------
(* TLC instance of FilesystemWatcher.                                      *)
EXTENDS FilesystemWatcher
=============================================================================
