SPECIFICATION Spec
CONSTANTS
  Zero = Zero
  Paths <- MCPaths
  Derivable <- MCDerivable
INVARIANTS
  TypeOK
  KeysErased
  AnswersPath
  ChangeIsAddress
