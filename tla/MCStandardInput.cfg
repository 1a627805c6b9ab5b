SPECIFICATION Spec

CONSTANTS
  CommandLines <- MCCommandLines
  Scripts <- MCScripts
  MaxSlips = 2

CHECK_DEADLOCK FALSE

INVARIANTS
  StandardInputTypeOK
  ConsentGiven
  OnePurposePerPipe
  SecretHidden

PROPERTIES
  Ends
  AnsweringSucceeds
