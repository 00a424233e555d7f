\* The marker that asks for a new approval, in a tree whose root is approved.
CONSTANTS
  Sessions <- Tree
  Parent <- TreeParent
  Messages <- Dialogue
  Mode = "changes"
SPECIFICATION Spec
PROPERTIES
  ReapprovalRevokes
