---------------------------- MODULE MCFolderLoop ----------------------------
EXTENDS FolderLoop

(* Delayed pulls, regular rescans and a watcher; or none of them, so that  *)
(* scans are only those that somebody asks for.                            *)
MCConfigs == {[delay |-> TRUE, rescan |-> TRUE, watcher |-> TRUE],
              [delay |-> FALSE, rescan |-> FALSE, watcher |-> FALSE]}
=============================================================================
