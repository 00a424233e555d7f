-------------------------- MODULE MCCodexLifecycle --------------------------
(***************************************************************************)
(* Small instances of CodexLifecycle for TLC: names of artifacts and the   *)
(* contents that successive bundles have.                                  *)
(***************************************************************************)
EXTENDS CodexLifecycle

OneAgent == {"agents/builder.toml"}
OneSkill == {"skills/review/SKILL.md"}
TwoBundles == {"v1", "v2"}

=============================================================================
