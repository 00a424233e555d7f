\* Install, uninstall, install, in a project the user leaves alone.
CONSTANTS
  Agents <- OneAgent
  Skills <- OneSkill
  Versions <- TwoBundles
  MaxEdits = 0
  MaxCrashes = 0
SPECIFICATION Spec
INVARIANTS
  Reversible
