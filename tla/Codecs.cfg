SPECIFICATION Spec
CONSTANT
  Kinds = {"mpint", "public", "symmetric", "asn1", "str", "unicode", "json", "x509", "pem", "trust", "wire", "walk"}
PROPERTIES CryptoRight CodecsRight KeysAndTrust WalkSound
CHECK_DEADLOCK FALSE
