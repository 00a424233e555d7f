\* Every order of the events of a root, its child and a leaf, with tool calls
\* anywhere.
CONSTANTS
  Sessions <- Tree
  Parent <- TreeParent
  Messages <- Dialogue
  Mode = "changes"
SPECIFICATION Spec
INVARIANTS
  TypeOK
  MutationsApproved
  DecisionsAtRoot
PROPERTIES
  ApprovalStands
  ApprovalIsFresh
