SPECIFICATION Spec
CONSTANTS
  NoCommand = NoCommand
  Commands <- MCCommands
  MaxOutputs = 2
INVARIANTS
  TypeOK
  IoStateAgrees
  QuestionIsOwed
PROPERTIES
  KeepsPromise
  CommandAnswered
