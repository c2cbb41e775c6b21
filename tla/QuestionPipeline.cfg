SPECIFICATION Spec
CONSTANTS
  asker = asker
  other = other
  Users <- MCUsers
  Asker = asker
  Files <- MCFiles
  OwnerOf <- MCOwnerOf
  ArchiveOf <- MCArchiveOf
  NameOf <- MCNameOf
  CodeOf <- MCCodeOf
  PagesOf <- MCPagesOf
  MaxChanges = 2
  Questions <- MCQuestions
  Limit <- MCLimit
INVARIANT TypeOK
INVARIANT EvidenceInScope
INVARIANT EvidenceWasVisible
INVARIANT ScopeIsHeard
CHECK_DEADLOCK FALSE
