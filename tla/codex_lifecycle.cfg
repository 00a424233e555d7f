\* One agent, one skill and the memory table, two versions of each, a crash and an
\* edit by the user anywhere.
CONSTANTS
  Agents <- OneAgent
  Skills <- OneSkill
  Versions <- TwoBundles
  MaxEdits = 1
  MaxCrashes = 1
SPECIFICATION Spec
INVARIANTS
  TypeOK
  OwnsItsWrites
  InstallSettles
PROPERTIES
  UserContentKept
  ManifestOutlivesFiles
