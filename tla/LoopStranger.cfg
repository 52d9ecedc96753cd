\* One server, datagrams from another host and such as carry nothing.
CONSTANTS
  Servers <- OneServer
  Datagrams <- FromAnyone
  NoBytes <- Hollows
  MaxInbox = 2
  None = None
SPECIFICATION Spec
PROPERTIES
  ForeignIgnored
