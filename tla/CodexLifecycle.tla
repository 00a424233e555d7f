--------------------------- MODULE CodexLifecycle ---------------------------
(***************************************************************************)
(* `oc codex install` and `oc codex uninstall` in one project              *)
(* (runtime/codex/lifecycle.py).                                           *)
(*                                                                         *)
(* A command first makes its plan from what is on disk, what the bundle    *)
(* holds and what the ownership manifest records, then applies it one      *)
(* artifact at a time.  Between two of those steps the process can die and *)
(* the user can edit the project.  Plans with conflicts and dry runs write *)
(* nothing and are no step.  Files are compared by digest, so a file is    *)
(* the version of its content; "user" is any content that no bundle ever   *)
(* had, the symlinks and directories that are refused as such included.    *)
(***************************************************************************)
EXTENDS Naturals, FiniteSets

CONSTANTS
  Agents,      \* .codex/agents/*.toml
  Skills,      \* .agents/skills/*/SKILL.md
  Versions,    \* contents a bundle can have for an artifact
  MaxEdits,    \* bound: edits by the user
  MaxCrashes   \* bound: commands that die

\* The memory table of .codex/config.toml and the ownership manifest.
Files == Agents \cup Skills
Artifacts == Files \cup {"table"}
Outputs == Artifacts \cup {"manifest"}

ASSUME NamesAssumption == /\ Agents \cap Skills = {}
                          /\ {"table", "manifest"} \cap Files = {}
                          /\ {"none", "user"} \cap Versions = {}
ASSUME BoundsAssumption == MaxEdits \in Nat /\ MaxCrashes \in Nat

VARIABLES
  bundle,    \* .generated/codex, and the table an install would write
  disk,      \* the artifacts in the project
  dirs,      \* the skill directories that exist
  manifest,  \* whether the ownership manifest exists
  owned,     \* the digests it records
  cmd,       \* the command that is being applied
  goal,      \* the contents it plans, which its manifest will record
  todo,      \* the changes it has not made
  touched,   \* what the user edited since the plan
  wrote,     \* versions the toolkit ever wrote, by artifact
  edits,
  crashes

projectVars == <<disk, dirs, manifest, owned>>
commandVars == <<cmd, goal, todo>>
vars == <<bundle, projectVars, commandVars, touched, wrote, edits, crashes>>

Contents == Versions \cup {"none", "user"}
Generated == Versions \cup {"none"}

TypeOK ==
  /\ bundle \in [Artifacts -> Generated]
  /\ disk \in [Artifacts -> Contents]
  /\ dirs \subseteq Skills
  /\ manifest \in BOOLEAN
  /\ owned \in [Artifacts -> Generated]
  /\ cmd \in {"none", "install", "uninstall"}
  /\ goal \in [Artifacts -> Generated]
  /\ todo \subseteq Outputs
  /\ touched \subseteq Outputs
  /\ wrote \in [Artifacts -> SUBSET Versions]
  /\ edits \in 0..MaxEdits
  /\ crashes \in 0..MaxCrashes

NoArtifacts == [f \in Artifacts |-> "none"]

\* What a sync can generate: one agent at least, and always a table.
Bundles == {b \in [Artifacts -> Generated] :
              b["table"] # "none" /\ \E a \in Agents : b[a] # "none"}

Init ==
  /\ bundle \in Bundles
  /\ disk \in [Artifacts -> {"none", "user"}]
  /\ dirs \in SUBSET Skills
  /\ \A f \in Skills : disk[f] # "none" => f \in dirs
  /\ manifest = FALSE
  /\ owned = NoArtifacts
  /\ cmd = "none"
  /\ goal = NoArtifacts
  /\ todo = {}
  /\ touched = {}
  /\ wrote = [f \in Artifacts |-> {}]
  /\ edits = 0
  /\ crashes = 0

-----------------------------------------------------------------------------
(* Plans *)

Modified(f) == disk[f] # owned[f]

\* Mutant of ForeignConflict: the digest of a managed artifact is not compared.
TrustingConflict(f) == disk[f] # "none" /\ owned[f] = "none"

\* What an install would write over: not owned, or edited since it was written.
ForeignConflict(f) == disk[f] # "none" /\ Modified(f)

\* A stale artifact is only removed as it was written.
StaleConflict(f) == owned[f] # "none" /\ bundle[f] = "none" /\ Modified(f)

\* A directory that no manifest owns is not adopted.
AdoptionConflict(f) == f \in Skills \cap dirs /\ owned[f] = "none"

InstallConflicts(withMemory) ==
  {f \in Files : \/ bundle[f] # "none" /\ (ForeignConflict(f) \/ AdoptionConflict(f))
                 \/ StaleConflict(f)}
  \cup {f \in {"table"} : withMemory /\ ForeignConflict(f)}

\* Mutant of NextOwned: the table is recorded as it is found.
RecordFound(withMemory) ==
  [f \in Artifacts |-> IF f = "table" /\ ~withMemory THEN disk[f] ELSE bundle[f]]

\* The digests the next manifest records.  Without memory, the state of the
\* table is carried over.
NextOwned(withMemory) ==
  [f \in Artifacts |-> IF f = "table" /\ ~withMemory THEN owned[f] ELSE bundle[f]]

\* Mutant of InstallChanges: what exists is never updated.
CreateOnly(withMemory) ==
  {f \in Files : bundle[f] # "none" /\ disk[f] = "none"}
  \cup {f \in {"table"} : withMemory} \cup {"manifest"}

\* Changes that are not SKIP; the table is rewritten in any case.
InstallChanges(withMemory) ==
  {f \in Files : (bundle[f] # "none" \/ owned[f] # "none") /\ disk[f] # bundle[f]}
  \cup {f \in {"table"} : withMemory}
  \cup {f \in {"manifest"} : ~manifest \/ owned # NextOwned(withMemory)}

Owned == {f \in Artifacts : owned[f] # "none"}

UninstallConflicts == {f \in Owned : Modified(f)}

Plan(what, contents, changes) ==
  /\ cmd' = what
  /\ goal' = contents
  /\ todo' = changes
  /\ touched' = {}
  /\ UNCHANGED <<bundle, projectVars, wrote, edits, crashes>>

Install(withMemory) ==
  /\ cmd = "none"
  /\ InstallConflicts(withMemory) = {}
  /\ Plan("install", NextOwned(withMemory), InstallChanges(withMemory))

Uninstall ==
  /\ cmd = "none" /\ manifest
  /\ UninstallConflicts = {}
  /\ Plan("uninstall", NoArtifacts, Owned \cup {"manifest"})

-----------------------------------------------------------------------------
(* CodexInstallPlan.apply *)

Rank(f) == CASE f \in Agents -> 1 [] f \in Skills -> 2
             [] f = "table" -> 3 [] f = "manifest" -> 4

\* Mutant of IsNext: the manifest goes with the other files, in any order.
IsNextAnyOrder(f) == f \in todo

\* Agents, skills, the table and the manifest, in the order of the plan.
IsNext(f) == f \in todo /\ \A g \in todo : Rank(f) <= Rank(g)

Made(f) == todo' = todo \ {f} /\ UNCHANGED <<cmd, goal>>

\* _atomic_write creates the parent, then replaces the file in one step.
MakeDirectory(f) ==
  /\ IsNext(f) /\ f \in Skills \ dirs /\ goal[f] # "none"
  /\ dirs' = dirs \cup {f}
  /\ UNCHANGED <<bundle, disk, manifest, owned, commandVars, touched, wrote,
                 edits, crashes>>

Write(f) ==
  /\ IsNext(f) /\ f # "manifest"
  /\ goal[f] # "none" \/ f = "table"
  /\ f \in Skills => f \in dirs
  /\ disk' = [disk EXCEPT ![f] = goal[f]]
  /\ wrote' = [wrote EXCEPT ![f] = @ \cup ({goal[f]} \ {"none"})]
  /\ Made(f)
  /\ UNCHANGED <<bundle, dirs, manifest, owned, touched, edits, crashes>>

\* unlink: the directory of a skill stays.
Delete(f) ==
  /\ IsNext(f) /\ f \in Files /\ goal[f] = "none" /\ disk[f] # "none"
  /\ disk' = [disk EXCEPT ![f] = "none"]
  /\ Made(f)
  /\ UNCHANGED <<bundle, dirs, manifest, owned, touched, wrote, edits, crashes>>

WriteManifest ==
  /\ IsNext("manifest") /\ cmd = "install"
  /\ manifest' = TRUE
  /\ owned' = goal
  /\ Made("manifest")
  /\ UNCHANGED <<bundle, disk, dirs, touched, wrote, edits, crashes>>

DeleteManifest ==
  /\ IsNext("manifest") /\ cmd = "uninstall" /\ manifest
  /\ manifest' = FALSE
  /\ owned' = NoArtifacts
  /\ Made("manifest")
  /\ UNCHANGED <<bundle, disk, dirs, touched, wrote, edits, crashes>>

Stop ==
  /\ cmd' = "none" /\ todo' = {} /\ goal' = NoArtifacts
  /\ touched' = {}
  /\ UNCHANGED <<bundle, projectVars, wrote, edits>>

Finish == cmd # "none" /\ todo = {} /\ Stop /\ UNCHANGED crashes

\* unlink of what the user removed meanwhile raises out of apply.
DeleteMissing(f) ==
  /\ IsNext(f)
  /\ \/ f \in Files /\ goal[f] = "none" /\ disk[f] = "none"
     \/ f = "manifest" /\ cmd = "uninstall" /\ ~manifest
  /\ Stop /\ UNCHANGED crashes

\* The process dies, or a write fails (disk full, permissions).
Crash ==
  /\ cmd # "none" /\ crashes < MaxCrashes
  /\ crashes' = crashes + 1
  /\ Stop

-----------------------------------------------------------------------------
(* The surroundings: `oc sync codex`, and the user *)

\* While a command is applied, a sync changes nothing it reads.
Sync(b) ==
  /\ cmd = "none"
  /\ bundle' = b
  /\ UNCHANGED <<projectVars, commandVars, touched, wrote, edits, crashes>>

Edit(f) ==
  /\ edits < MaxEdits
  /\ edits' = edits + 1
  /\ touched' = touched \cup {f}
  /\ UNCHANGED <<bundle, commandVars, wrote, crashes>>

UserWrites(f) ==
  /\ Edit(f)
  /\ disk' = [disk EXCEPT ![f] = "user"]
  /\ dirs' = dirs \cup ({f} \cap Skills)
  /\ UNCHANGED <<manifest, owned>>

UserRemoves(f) ==
  /\ disk[f] # "none"
  /\ Edit(f)
  /\ disk' = [disk EXCEPT ![f] = "none"]
  /\ dirs' \in {dirs, dirs \ {f}}
  /\ UNCHANGED <<manifest, owned>>

UserRemovesManifest ==
  /\ manifest
  /\ Edit("manifest")
  /\ manifest' = FALSE
  /\ owned' = NoArtifacts
  /\ UNCHANGED <<disk, dirs>>

Next ==
  \/ \E withMemory \in BOOLEAN : Install(withMemory)
  \/ Uninstall
  \/ \E f \in todo : MakeDirectory(f) \/ Write(f) \/ Delete(f) \/ DeleteMissing(f)
  \/ WriteManifest \/ DeleteManifest \/ Finish \/ Crash
  \/ \E b \in Bundles : Sync(b)
  \/ \E f \in Artifacts : UserWrites(f) \/ UserRemoves(f)
  \/ UserRemovesManifest

Spec == Init /\ [][Next]_vars

-----------------------------------------------------------------------------
(* Properties *)

ToolkitStep == edits' = edits

\* No command overwrites or deletes what the user wrote, unless the user wrote it
\* after the plan was made, whatever crashed before and whatever bundles came and
\* went ("refuses to silently delete later edits", docs/en/CODEX_ADAPTER.md).
UserContentKept ==
  [][ToolkitStep => \A f \in Artifacts \ touched :
       disk[f] = "user" => disk'[f] = "user"]_vars

\* The manifest records only files the toolkit created, after any crash.
OwnsItsWrites == \A f \in Artifacts : owned[f] # "none" => owned[f] \in wrote[f]

\* The manifest is removed only when nothing it protects is left (the comment in
\* uninstall_plan), so no artifact of the toolkit is disowned.
ManifestOutlivesFiles ==
  [][ToolkitStep /\ manifest /\ ~manifest' =>
       \A f \in Owned \ touched : disk[f] = "none"]_vars

\* A completed install leaves disk and manifest as the bundle was planned, for
\* what the user left alone: the next one has nothing to do (idempotence), and
\* doctor reports no drift.
InstallSettles ==
  cmd = "install" /\ todo = {} =>
    /\ "manifest" \notin touched => manifest /\ owned = goal
    /\ \A f \in Files \ touched : goal[f] # "none" => disk[f] = goal[f]

\* "The implemented bundle is local and reversible" (docs/en/CODEX_ADAPTER.md:93):
\* in a project the user leaves alone, what an uninstall has removed can be
\* installed again.
Reversible ==
  cmd = "none" /\ ~manifest /\ edits = 0 /\ crashes = 0
  => \A f \in Files : wrote[f] # {} => f \notin InstallConflicts(FALSE)

=============================================================================
