------------------------ MODULE CodexLifecycleProofs ------------------------
(***************************************************************************)
(* Theorems about CodexLifecycle, for any agents, skills and contents, and *)
(* any number of edits and crashes.                                        *)
(***************************************************************************)
EXTENDS CodexLifecycle, TLAPS

\* What is still to be changed is not the user's, unless edited since the plan.
Protected == \A f \in (todo \cap Artifacts) \ touched : disk[f] # "user"

\* Until its manifest is written, an install has written what the manifest will
\* record, or will do so first.
Pending ==
  cmd = "install" =>
    \A f \in Artifacts : goal[f] # "none" => f \in todo \/ goal[f] \in wrote[f]

\* InstallSettles, before the last change is made.
Settling ==
  cmd = "install" =>
    /\ "manifest" \notin todo \cup touched => manifest /\ owned = goal
    /\ \A f \in Files \ touched : goal[f] # "none" => f \in todo \/ disk[f] = goal[f]

\* What an uninstall has left to remove.
Clearing ==
  cmd = "uninstall" =>
    /\ goal = NoArtifacts
    /\ \A f \in Owned \ touched : f \in todo \/ disk[f] = "none"

IndInv ==
  /\ TypeOK
  /\ OwnsItsWrites
  /\ Protected
  /\ Pending
  /\ Settling
  /\ Clearing

-----------------------------------------------------------------------------

\* The manifest is no artifact, and "none" and "user" are contents of no bundle.
LEMMA Distinct ==
  /\ "manifest" \notin Artifacts
  /\ "none" \notin Versions
  /\ "user" \notin Generated
  BY NamesAssumption DEF Artifacts, Files, Generated

\* The manifest is written or deleted after everything else, as it ranks last.
LEMMA ManifestLast ==
  ASSUME TypeOK, IsNext("manifest")
  PROVE  todo = {"manifest"}
  <1>1. \A f \in Artifacts : Rank(f) \in {1, 2, 3}
    BY NamesAssumption DEF Artifacts, Files, Rank
  <1>2. Rank("manifest") = 4
    BY NamesAssumption DEF Files, Rank
  <1>3. \A g \in todo : g \in Artifacts \/ g = "manifest"
    BY DEF TypeOK, Outputs
  <1> QED
    BY <1>1, <1>2, <1>3 DEF IsNext

\* Every initial state satisfies the inductive invariant.
LEMMA InitInd == Init => IndInv
  <1> SUFFICES ASSUME Init PROVE IndInv
    OBVIOUS
  <1>1. disk \in [Artifacts -> Contents]
    BY DEF Init, Contents
  <1>2. bundle \in [Artifacts -> Generated]
    BY DEF Init, Bundles
  <1>3. NoArtifacts \in [Artifacts -> Generated]
    BY DEF NoArtifacts, Generated
  <1>4. wrote \in [Artifacts -> SUBSET Versions]
    BY DEF Init
  <1>5. edits \in 0..MaxEdits /\ crashes \in 0..MaxCrashes
    BY BoundsAssumption DEF Init
  <1>6. TypeOK
    BY <1>1, <1>2, <1>3, <1>4, <1>5 DEF Init, TypeOK
  <1> QED
    BY <1>6
    DEF Init, IndInv, OwnsItsWrites, Protected, Pending, Settling, Clearing, NoArtifacts

-----------------------------------------------------------------------------
(* The plans *)

\* An install whose plan has no conflicts keeps the invariant.
LEMMA InstallInd ==
  ASSUME IndInv, NEW withMemory \in BOOLEAN, Install(withMemory)
  PROVE  IndInv'
  <1> USE DEF IndInv
  <1>0. /\ cmd' = "install" /\ goal' = NextOwned(withMemory)
        /\ todo' = InstallChanges(withMemory) /\ touched' = {}
        /\ InstallConflicts(withMemory) = {}
        /\ UNCHANGED <<bundle, disk, dirs, manifest, owned, wrote, edits, crashes>>
    BY DEF Install, Plan, projectVars
  <1>1. TypeOK'
    <2>1. NextOwned(withMemory) \in [Artifacts -> Generated]
      BY DEF TypeOK, NextOwned
    <2>2. InstallChanges(withMemory) \subseteq Outputs
      BY DEF InstallChanges, Outputs, Artifacts
    <2> QED
      BY <1>0, <2>1, <2>2 DEF TypeOK
  <1>2. OwnsItsWrites'
    BY <1>0 DEF OwnsItsWrites
  <1>3. \A f \in Files : ~(bundle[f] # "none" /\ ForeignConflict(f)) /\ ~StaleConflict(f)
    BY <1>0 DEF InstallConflicts
  <1>4. withMemory => ~ForeignConflict("table")
    BY <1>0 DEF InstallConflicts
  <1>5. Protected'
    <2> SUFFICES ASSUME NEW f \in InstallChanges(withMemory) \cap Artifacts
                 PROVE  disk[f] # "user"
      BY <1>0 DEF Protected
    <2>1. owned[f] # "user"
      BY Distinct DEF TypeOK
    <2>2. CASE f \in Files
      <3>1. bundle[f] # "none" \/ owned[f] # "none"
        BY <2>2, NamesAssumption DEF InstallChanges
      <3> QED
        BY <1>3, <2>1, <2>2, <3>1 DEF ForeignConflict, StaleConflict, Modified
    <2>3. CASE f = "table"
      <3>1. withMemory
        BY <2>3, NamesAssumption DEF InstallChanges
      <3> QED
        BY <1>4, <2>1, <2>3, <3>1 DEF ForeignConflict, Modified
    <2> QED
      BY <2>2, <2>3 DEF Artifacts
  <1>6. Pending'
    <2> SUFFICES ASSUME NEW f \in Artifacts,
                        NextOwned(withMemory)[f] # "none",
                        f \notin InstallChanges(withMemory)
                 PROVE  NextOwned(withMemory)[f] \in wrote[f]
      BY <1>0 DEF Pending
    <2>1. NextOwned(withMemory)[f] = owned[f]
      <3>1. CASE f \in Files
        <4>1. NextOwned(withMemory)[f] = bundle[f]
          BY <3>1, NamesAssumption DEF NextOwned
        <4>2. disk[f] = bundle[f]
          BY <3>1, <4>1 DEF InstallChanges
        <4> QED
          BY <1>3, <3>1, <4>1, <4>2 DEF ForeignConflict, Modified
      <3>2. CASE f = "table"
        BY <3>2 DEF InstallChanges, NextOwned
      <3> QED
        BY <3>1, <3>2 DEF Artifacts
    <2> QED
      BY <2>1 DEF OwnsItsWrites
  <1>7. Settling'
    <2>1. "manifest" \notin InstallChanges(withMemory)
            => manifest /\ owned = NextOwned(withMemory)
      BY DEF InstallChanges
    <2>2. \A f \in Files : NextOwned(withMemory)[f] # "none" =>
            f \in InstallChanges(withMemory) \/ disk[f] = NextOwned(withMemory)[f]
      <3> SUFFICES ASSUME NEW f \in Files, NextOwned(withMemory)[f] # "none",
                          f \notin InstallChanges(withMemory)
                   PROVE  disk[f] = NextOwned(withMemory)[f]
        OBVIOUS
      <3>1. NextOwned(withMemory)[f] = bundle[f]
        BY NamesAssumption DEF NextOwned, Artifacts
      <3> QED
        BY <3>1 DEF InstallChanges
    <2> QED
      BY <1>0, <2>1, <2>2 DEF Settling
  <1>8. Clearing'
    BY <1>0 DEF Clearing
  <1> QED
    BY <1>1, <1>2, <1>5, <1>6, <1>7, <1>8

\* So does an uninstall.
LEMMA UninstallInd ==
  ASSUME IndInv, Uninstall
  PROVE  IndInv'
  <1> USE DEF IndInv
  <1>0. /\ cmd' = "uninstall" /\ goal' = NoArtifacts
        /\ todo' = Owned \cup {"manifest"} /\ touched' = {}
        /\ UninstallConflicts = {}
        /\ UNCHANGED <<bundle, disk, dirs, manifest, owned, wrote, edits, crashes>>
    BY DEF Uninstall, Plan, projectVars
  <1>1. TypeOK'
    BY <1>0 DEF TypeOK, NoArtifacts, Generated, Owned, Outputs
  <1>2. Protected'
    <2> SUFFICES ASSUME NEW f \in Owned PROVE disk[f] # "user"
      BY <1>0, Distinct DEF Protected
    <2>1. disk[f] = owned[f] /\ f \in Artifacts
      BY <1>0 DEF UninstallConflicts, Modified, Owned
    <2> QED
      BY <2>1, Distinct DEF TypeOK
  <1>3. OwnsItsWrites' /\ Pending' /\ Settling'
    BY <1>0 DEF OwnsItsWrites, Pending, Settling
  <1>4. Clearing'
    BY <1>0 DEF Clearing, Owned
  <1> QED
    BY <1>1, <1>2, <1>3, <1>4

-----------------------------------------------------------------------------
(* The changes *)

\* Creating a skill's directory changes no artifact.
LEMMA MakeDirectoryInd ==
  ASSUME IndInv, NEW f \in todo, MakeDirectory(f)
  PROVE  IndInv'
  <1> USE DEF IndInv
  <1>1. TypeOK'
    BY DEF TypeOK, MakeDirectory, commandVars
  <1> QED
    BY <1>1 DEF MakeDirectory, commandVars, OwnsItsWrites, Protected, Pending,
                Settling, Clearing, Owned

\* What is written is what the manifest will record.
LEMMA WriteInd ==
  ASSUME IndInv, NEW f \in todo, Write(f)
  PROVE  IndInv'
  <1> USE DEF IndInv
  <1>0. /\ f \in Artifacts /\ f # "manifest"
        /\ disk' = [disk EXCEPT ![f] = goal[f]]
        /\ wrote' = [wrote EXCEPT ![f] = @ \cup ({goal[f]} \ {"none"})]
        /\ todo' = todo \ {f}
        /\ UNCHANGED <<bundle, dirs, manifest, owned, cmd, goal, touched, edits, crashes>>
    BY DEF Write, Made, TypeOK, Outputs
  <1>1. TypeOK'
    <2>1. goal[f] \in Generated
      BY <1>0 DEF TypeOK
    <2>2. goal[f] \in Contents /\ {goal[f]} \ {"none"} \subseteq Versions
      BY <2>1 DEF Contents, Generated
    <2>3. disk' \in [Artifacts -> Contents]
      BY <1>0, <2>2 DEF TypeOK
    <2>4. wrote' \in [Artifacts -> SUBSET Versions]
      BY <1>0, <2>2 DEF TypeOK
    <2> QED
      BY <1>0, <2>3, <2>4 DEF TypeOK
  <1>2. \A g \in Artifacts : wrote[g] \subseteq wrote'[g]
    BY <1>0 DEF TypeOK
  <1>3. \A g \in Artifacts : g # f => disk'[g] = disk[g]
    BY <1>0 DEF TypeOK
  <1>4. OwnsItsWrites'
    BY <1>0, <1>2 DEF OwnsItsWrites
  <1>5. Protected'
    BY <1>0, <1>3 DEF Protected
  <1>6. Pending'
    <2>1. goal[f] # "none" => goal[f] \in wrote'[f]
      BY <1>0 DEF TypeOK
    <2> QED
      BY <1>0, <1>2, <2>1 DEF Pending
  <1>7. disk'[f] = goal[f]
    BY <1>0 DEF TypeOK
  <1>8. Settling'
    BY <1>0, <1>3, <1>7 DEF Settling, Artifacts
  <1>9. Clearing'
    <2>1. cmd = "uninstall" => goal[f] = "none"
      BY <1>0 DEF Clearing, NoArtifacts
    <2> QED
      BY <1>0, <1>3, <1>7, <2>1 DEF Clearing, Owned
  <1> QED
    BY <1>1, <1>4, <1>5, <1>6, <1>8, <1>9

\* Only what no manifest will record is deleted.
LEMMA DeleteInd ==
  ASSUME IndInv, NEW f \in todo, Delete(f)
  PROVE  IndInv'
  <1> USE DEF IndInv
  <1>0. /\ f \in Artifacts /\ f # "manifest" /\ goal[f] = "none"
        /\ disk' = [disk EXCEPT ![f] = "none"]
        /\ todo' = todo \ {f}
        /\ UNCHANGED <<bundle, dirs, manifest, owned, cmd, goal, touched, wrote,
                       edits, crashes>>
    BY NamesAssumption DEF Delete, Made, Artifacts
  <1>1. TypeOK'
    <2>1. disk' \in [Artifacts -> Contents]
      BY <1>0 DEF TypeOK, Contents
    <2> QED
      BY <1>0, <2>1 DEF TypeOK
  <1>2. \A g \in Artifacts : g # f => disk'[g] = disk[g]
    BY <1>0 DEF TypeOK
  <1>3. disk'[f] = "none"
    BY <1>0 DEF TypeOK
  <1>4. OwnsItsWrites' /\ Protected' /\ Pending'
    BY <1>0, <1>2 DEF OwnsItsWrites, Protected, Pending
  <1>5. Settling'
    BY <1>0, <1>2 DEF Settling, Artifacts
  <1>6. Clearing'
    BY <1>0, <1>2, <1>3 DEF Clearing, Owned
  <1> QED
    BY <1>1, <1>4, <1>5, <1>6

\* When the manifest is written, all it records has been.
LEMMA WriteManifestInd ==
  ASSUME IndInv, WriteManifest
  PROVE  IndInv'
  <1> USE DEF IndInv
  <1>0. /\ cmd = "install" /\ manifest' = TRUE /\ owned' = goal
        /\ todo' = todo \ {"manifest"}
        /\ UNCHANGED <<bundle, disk, dirs, cmd, goal, touched, wrote, edits, crashes>>
    BY DEF WriteManifest, Made
  <1>1. todo = {"manifest"}
    BY ManifestLast DEF WriteManifest
  <1>2. TypeOK'
    BY <1>0 DEF TypeOK
  <1>3. OwnsItsWrites'
    BY <1>0, <1>1, Distinct DEF Pending, OwnsItsWrites
  <1>4. Protected' /\ Pending'
    BY <1>0, <1>1, Distinct DEF Protected, Pending
  <1>5. Settling'
    <2>1. \A f \in Files : f # "manifest"
      BY NamesAssumption
    <2> QED
      BY <1>0, <1>1, <2>1 DEF Settling
  <1>6. Clearing'
    BY <1>0 DEF Clearing
  <1> QED
    BY <1>2, <1>3, <1>4, <1>5, <1>6

\* Without a manifest nothing is owned.
LEMMA DeleteManifestInd ==
  ASSUME IndInv, DeleteManifest
  PROVE  IndInv'
  <1> USE DEF IndInv
  <1>0. /\ cmd = "uninstall" /\ manifest' = FALSE /\ owned' = NoArtifacts
        /\ todo' = todo \ {"manifest"}
        /\ UNCHANGED <<bundle, disk, dirs, cmd, goal, touched, wrote, edits, crashes>>
    BY DEF DeleteManifest, Made
  <1>1. TypeOK'
    BY <1>0 DEF TypeOK, NoArtifacts, Generated
  <1> QED
    BY <1>0, <1>1
    DEF OwnsItsWrites, Protected, Pending, Settling, Clearing, Owned, NoArtifacts

\* A command that ends, however it ends, leaves nothing to do.
LEMMA StopInd ==
  ASSUME IndInv, Stop, crashes' \in 0..MaxCrashes
  PROVE  IndInv'
  <1> USE DEF IndInv
  <1>1. TypeOK'
    BY DEF Stop, projectVars, TypeOK, NoArtifacts, Generated
  <1> QED
    BY <1>1 DEF Stop, projectVars, OwnsItsWrites, Protected, Pending, Settling, Clearing

-----------------------------------------------------------------------------
(* The surroundings *)

\* A sync happens between commands.
LEMMA SyncInd ==
  ASSUME IndInv, NEW b \in Bundles, Sync(b)
  PROVE  IndInv'
  <1> USE DEF IndInv
  <1>1. TypeOK'
    BY DEF Sync, projectVars, commandVars, TypeOK, Bundles
  <1> QED
    BY <1>1 DEF Sync, projectVars, commandVars, OwnsItsWrites, Protected, Pending,
                Settling, Clearing, Owned

\* What the user edits is set apart from what the command promises.
LEMMA UserInd ==
  ASSUME IndInv, NEW f \in Artifacts, NEW c \in {"none", "user"},
         Edit(f), disk' = [disk EXCEPT ![f] = c],
         dirs' \subseteq Skills, UNCHANGED <<manifest, owned>>
  PROVE  IndInv'
  <1> USE DEF IndInv
  <1>0. /\ touched' = touched \cup {f} /\ edits < MaxEdits /\ edits' = edits + 1
        /\ UNCHANGED <<bundle, cmd, goal, todo, wrote, crashes>>
    BY DEF Edit, commandVars
  <1>1. TypeOK'
    <2>1. disk' \in [Artifacts -> Contents]
      BY DEF TypeOK, Contents
    <2>2. edits' \in 0..MaxEdits
      BY <1>0, BoundsAssumption DEF TypeOK
    <2>3. touched' \subseteq Outputs
      BY <1>0 DEF TypeOK, Outputs
    <2> QED
      BY <1>0, <2>1, <2>2, <2>3 DEF TypeOK
  <1>2. \A g \in Artifacts \ touched' : g \notin touched /\ disk'[g] = disk[g]
    BY <1>0 DEF TypeOK
  <1>3. OwnsItsWrites' /\ Protected' /\ Pending'
    BY <1>0, <1>2 DEF OwnsItsWrites, Protected, Pending
  <1>4. Settling'
    BY <1>0, <1>2 DEF Settling, Artifacts
  <1>5. Clearing'
    BY <1>0, <1>2 DEF Clearing, Owned
  <1> QED
    BY <1>1, <1>3, <1>4, <1>5

\* The user who removes the manifest disowns everything.
LEMMA UserRemovesManifestInd ==
  ASSUME IndInv, UserRemovesManifest
  PROVE  IndInv'
  <1> USE DEF IndInv
  <1>0. /\ manifest' = FALSE /\ owned' = NoArtifacts
        /\ touched' = touched \cup {"manifest"} /\ edits < MaxEdits /\ edits' = edits + 1
        /\ UNCHANGED <<bundle, disk, dirs, cmd, goal, todo, wrote, crashes>>
    BY DEF UserRemovesManifest, Edit, commandVars
  <1>1. TypeOK'
    <2>1. edits' \in 0..MaxEdits
      BY <1>0, BoundsAssumption DEF TypeOK
    <2>2. touched' \subseteq Outputs /\ owned' \in [Artifacts -> Generated]
      BY <1>0 DEF TypeOK, Outputs, NoArtifacts, Generated
    <2> QED
      BY <1>0, <2>1, <2>2 DEF TypeOK
  <1> QED
    BY <1>0, <1>1
    DEF OwnsItsWrites, Protected, Pending, Settling, Clearing, Owned, NoArtifacts

-----------------------------------------------------------------------------

\* Every step keeps the invariant.
LEMMA StepInd ==
  ASSUME IndInv, [Next]_vars
  PROVE  IndInv'
  <1>1. ASSUME NEW withMemory \in BOOLEAN, Install(withMemory) PROVE IndInv'
    BY <1>1, InstallInd
  <1>2. CASE Uninstall
    BY <1>2, UninstallInd
  <1>3. ASSUME NEW f \in todo, MakeDirectory(f) PROVE IndInv'
    BY <1>3, MakeDirectoryInd
  <1>4. ASSUME NEW f \in todo, Write(f) PROVE IndInv'
    BY <1>4, WriteInd
  <1>5. ASSUME NEW f \in todo, Delete(f) PROVE IndInv'
    BY <1>5, DeleteInd
  <1>6. ASSUME NEW f \in todo, DeleteMissing(f) PROVE IndInv'
    BY <1>6, StopInd DEF DeleteMissing, IndInv, TypeOK
  <1>7. CASE WriteManifest
    BY <1>7, WriteManifestInd
  <1>8. CASE DeleteManifest
    BY <1>8, DeleteManifestInd
  <1>9. CASE Finish
    BY <1>9, StopInd DEF Finish, IndInv, TypeOK
  <1>10. CASE Crash
    <2>1. crashes' \in 0..MaxCrashes
      BY <1>10, BoundsAssumption DEF Crash, IndInv, TypeOK
    <2> QED
      BY <1>10, <2>1, StopInd DEF Crash
  <1>11. ASSUME NEW b \in Bundles, Sync(b) PROVE IndInv'
    BY <1>11, SyncInd
  <1>12. ASSUME NEW f \in Artifacts, UserWrites(f) PROVE IndInv'
    <2>1. dirs' \subseteq Skills
      BY <1>12 DEF UserWrites, IndInv, TypeOK
    <2> QED
      BY <1>12, <2>1, UserInd DEF UserWrites
  <1>13. ASSUME NEW f \in Artifacts, UserRemoves(f) PROVE IndInv'
    <2>1. dirs' \subseteq Skills
      BY <1>13 DEF UserRemoves, IndInv, TypeOK
    <2> QED
      BY <1>13, <2>1, UserInd DEF UserRemoves
  <1>14. CASE UserRemovesManifest
    BY <1>14, UserRemovesManifestInd
  <1>15. CASE UNCHANGED vars
    BY <1>15 DEF vars, projectVars, commandVars, IndInv, TypeOK, OwnsItsWrites,
                 Protected, Pending, Settling, Clearing, Owned
  <1> QED
    BY <1>1, <1>2, <1>3, <1>4, <1>5, <1>6, <1>7, <1>8, <1>9, <1>10, <1>11, <1>12,
       <1>13, <1>14, <1>15 DEF Next

\* The invariant holds in every reachable state.
LEMMA Inductive == Spec => []IndInv
  <1>1. IndInv /\ [Next]_vars => IndInv'
    BY StepInd
  <1> QED
    BY InitInd, <1>1, PTL DEF Spec

\* Every variable keeps its type.
THEOREM CodexTypes == Spec => []TypeOK
  <1>1. IndInv => TypeOK
    BY DEF IndInv
  <1> QED
    BY Inductive, <1>1, PTL

\* The manifest records only contents the toolkit wrote itself.
THEOREM Ownership == Spec => []OwnsItsWrites
  <1>1. IndInv => OwnsItsWrites
    BY DEF IndInv
  <1> QED
    BY Inductive, <1>1, PTL

\* A completed install leaves disk and manifest as planned.
THEOREM Settled == Spec => []InstallSettles
  <1>1. IndInv => InstallSettles
    BY DEF IndInv, Settling, InstallSettles
  <1> QED
    BY Inductive, <1>1, PTL

-----------------------------------------------------------------------------
(* What the steps do *)

\* A step that is no edit and changes an artifact changes one of the plan's.
LEMMA ChangesArePlanned ==
  ASSUME IndInv, Next, ToolkitStep, NEW f \in Artifacts, disk'[f] # disk[f]
  PROVE  f \in todo
  <1>1. edits + 1 # edits
    BY DEF IndInv, TypeOK
  <1>2. disk' # disk
    OBVIOUS
  <1>3. \E g \in todo : Write(g) \/ Delete(g)
    <2>1. ~ \E g \in Artifacts : UserWrites(g) \/ UserRemoves(g)
      BY <1>1 DEF UserWrites, UserRemoves, Edit, ToolkitStep
    <2>2. ~UserRemovesManifest
      BY <1>2 DEF UserRemovesManifest
    <2>3. ~ \E b \in Bundles : Sync(b)
      BY <1>2 DEF Sync, projectVars
    <2>4. ~Uninstall /\ ~ \E withMemory \in BOOLEAN : Install(withMemory)
      BY <1>2 DEF Install, Uninstall, Plan, projectVars
    <2>5. ~WriteManifest /\ ~DeleteManifest /\ ~Finish /\ ~Crash
      BY <1>2 DEF WriteManifest, DeleteManifest, Finish, Crash, Stop, projectVars
    <2>6. ~ \E g \in todo : MakeDirectory(g) \/ DeleteMissing(g)
      BY <1>2 DEF MakeDirectory, DeleteMissing, Stop, projectVars
    <2> QED
      BY <2>1, <2>2, <2>3, <2>4, <2>5, <2>6 DEF Next
  <1>4. PICK g \in todo : Write(g) \/ Delete(g)
    BY <1>3
  <1>5. g # f => disk'[f] = disk[f]
    BY <1>4 DEF Write, Delete, IndInv, TypeOK
  <1> QED
    BY <1>5

\* No command overwrites or deletes what the user wrote before its plan.
THEOREM ContentKept == Spec => UserContentKept
  <1>1. ASSUME IndInv, [Next]_vars, ToolkitStep,
               NEW f \in Artifacts \ touched, disk[f] = "user"
        PROVE  disk'[f] = "user"
    <2>1. CASE UNCHANGED vars
      BY <1>1, <2>1 DEF vars, projectVars
    <2>2. CASE Next
      <3> SUFFICES ASSUME disk'[f] # disk[f] PROVE FALSE
        BY <1>1
      <3>1. f \in todo
        BY <1>1, <2>2, ChangesArePlanned
      <3> QED
        BY <1>1, <3>1 DEF IndInv, Protected
    <2> QED
      BY <1>1, <2>1, <2>2
  <1>2. IndInv /\ [Next]_vars =>
          [ToolkitStep => \A f \in Artifacts \ touched :
             disk[f] = "user" => disk'[f] = "user"]_vars
    BY <1>1
  <1> QED
    BY Inductive, <1>2, PTL DEF Spec, UserContentKept

\* The manifest goes last: all it owned, and the user left alone, is gone.
THEOREM ManifestLastRemoved == Spec => ManifestOutlivesFiles
  <1>1. ASSUME IndInv, Next, ToolkitStep, manifest, ~manifest'
        PROVE  DeleteManifest
    <2>1. edits + 1 # edits
      BY <1>1 DEF IndInv, TypeOK
    <2>2. ~ \E g \in Artifacts : UserWrites(g) \/ UserRemoves(g)
      BY <1>1, <2>1 DEF UserWrites, UserRemoves, Edit, ToolkitStep
    <2>3. ~UserRemovesManifest
      BY <1>1, <2>1 DEF UserRemovesManifest, Edit, ToolkitStep
    <2>4. ~ \E b \in Bundles : Sync(b)
      BY <1>1 DEF Sync, projectVars
    <2>5. ~Uninstall /\ ~ \E withMemory \in BOOLEAN : Install(withMemory)
      BY <1>1 DEF Install, Uninstall, Plan, projectVars
    <2>6. ~WriteManifest /\ ~Finish /\ ~Crash
      BY <1>1 DEF WriteManifest, Finish, Crash, Stop, projectVars
    <2>7. ~ \E g \in todo : MakeDirectory(g) \/ Write(g) \/ Delete(g) \/ DeleteMissing(g)
      BY <1>1 DEF MakeDirectory, Write, Delete, DeleteMissing, Stop, projectVars
    <2> QED
      BY <1>1, <2>2, <2>3, <2>4, <2>5, <2>6, <2>7 DEF Next
  <1>2. ASSUME IndInv, DeleteManifest, NEW f \in Owned \ touched
        PROVE  disk[f] = "none"
    <2>1. cmd = "uninstall" /\ todo = {"manifest"}
      BY <1>2, ManifestLast DEF DeleteManifest, IndInv
    <2> QED
      BY <1>2, <2>1, Distinct DEF IndInv, Clearing, Owned
  <1>3. IndInv /\ [Next]_vars =>
          [ToolkitStep /\ manifest /\ ~manifest' =>
             \A f \in Owned \ touched : disk[f] = "none"]_vars
    BY <1>1, <1>2
  <1> QED
    BY Inductive, <1>3, PTL DEF Spec, ManifestOutlivesFiles
=============================================================================
