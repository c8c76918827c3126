---------------------------- MODULE MCFileSystem ----------------------------
(* Instances of FileSystem for TLC.                                        *)
EXTENDS FileSystem
=============================================================================
