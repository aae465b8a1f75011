\* Logins with two fields of up to two characters, images of up to four bytes.
CONSTANTS
  Forms <- LoginForms
  Images <- SmallImages
SPECIFICATION Spec
INVARIANTS
  FormArrives
CHECK_DEADLOCK FALSE
