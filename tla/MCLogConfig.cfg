SPECIFICATION Spec
CONSTANTS
  Names = {"root", "system"}
  Faulty = {"%q"}
  Texts <- MCTexts
  MaxLoads = 2
  MaxKept = 1
PROPERTY Configured
CHECK_DEADLOCK FALSE
