\* Colours written one at a time, with the buttons.
CONSTANTS
  Colours <- TwoColours
  Default <- Blue
  Writable = {"yellow", "grey"}
  MaxItems = 1
SPECIFICATION Spec
INVARIANTS
  OffIsDark
