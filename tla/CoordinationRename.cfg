SPECIFICATION Spec
CONSTANTS
  NoName = NoName
  Names = {blueLake, greenHill}
  MaxMail = 2
INVARIANTS NoNoticeSuppressed
