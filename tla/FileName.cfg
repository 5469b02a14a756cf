SPECIFICATION NameSpec
CONSTANTS
  Width <- Utf8Width
  Whitespace = {"space", "wide_space"}
  FileNameLen = 4
  FileNames <- UpToFourChars
INVARIANTS FieldHasItsSize NameIsAccepted NameIsLongestPrefix
