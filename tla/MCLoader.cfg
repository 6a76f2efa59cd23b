\* Up to three pages, parts that need a punctuation mark, an item or two.
SPECIFICATION Spec
CONSTANTS
  Formats = {"json", "ndjson", "csv"}
  MinPart = 4
  MaxPages = 3
  MaxSheet = 6
  Sizes = {1, 3}
  PageLength = 3
  MaxItems = 5
INVARIANTS CommittedIsComplete PartsAreLargeEnough
PROPERTY Terminates
\* A run ends.
CHECK_DEADLOCK FALSE
