SPECIFICATION Spec
CONSTANT
  Kinds = {"sha512"}
PROPERTY Sha512Right
CHECK_DEADLOCK FALSE
