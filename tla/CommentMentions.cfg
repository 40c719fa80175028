CONSTANTS
  ann = ann
  ben = ben
  Member = {ann, ben}
  Label <- MCLabel
  MaxBody = 6
  None = None
SPECIFICATION Spec
INVARIANTS
  MentionsDisjoint
CHECK_DEADLOCK FALSE
