----------------------------- MODULE MCSkillInstall -----------------------------
(* SkillInstall for TLC: two commands on three directories.                *)
EXTENDS SkillInstall, TLC

Interchangeable == Permutations(Dir) \cup Permutations(Command)
=============================================================================
