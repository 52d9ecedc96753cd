\* Writes of up to two resources, reads and buttons at any moment.
CONSTANTS
  Colours <- TwoColours
  Default <- Blue
  Writable = {"yellow", "grey", "on", "off", "bad"}
  MaxItems = 2
SPECIFICATION Spec
INVARIANTS
  TypeOK
  PinsShowState
  NoStaleColour
  ReportedWasTrue
