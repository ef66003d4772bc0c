---------------------------- MODULE MCFsblHandoff ---------------------------
(* The handoff of the images of MCFsblPartition.                            *)
EXTENDS MCFsblPartition, FsblHandoff
=============================================================================
