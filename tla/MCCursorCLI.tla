---------------------------- MODULE MCCursorCLI ----------------------------
(* CursorCLI over the inputs of MCVolumeCursor.                            *)
EXTENDS MCVolumeCursor, CursorCLI

AllCommands == {"create", "createWatch", "status", "statusFollow", "watch"}
====
