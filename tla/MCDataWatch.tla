---------------------------- MODULE MCDataWatch ----------------------------
(***************************************************************************)
(* Five sticks for three device nodes: two that are right and carry the    *)
(* same label, one that comes up read-only, one without the label and one  *)
(* with the label and another file system.                                 *)
(***************************************************************************)
EXTENDS DataWatch

CONSTANTS good, twin, locked, other, ext4

MCSticks == {good, twin, locked, other, ext4}
MCLabelled == {good, twin, locked, ext4}
MCFat == {good, twin, locked, other}
MCMountable == MCSticks
MCWritable == {good, twin, other, ext4}
=============================================================================
