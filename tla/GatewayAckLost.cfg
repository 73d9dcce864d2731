\* A gateway that refuses a command.
SPECIFICATION Spec
CONSTANTS
  NoCommand = NoCommand
  Answers <- MCAnswers
  Ackers = {a1}
  Commands = {c1}
  Executing = {}
  Refusing = {c1}
  MaxAttempts = 2
  MaxFaults = 0
PROPERTY AckIsFinal
