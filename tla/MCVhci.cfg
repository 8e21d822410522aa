\* Two processes of the repository's device and other programs on two ports.
CONSTANTS
  Starters = {a, b}
  Foreign = Foreign
  NPorts = 2
  HubOf <- MCHubOf
  Controllers <- MCControllers
  BcdUSB <- MCBcdUSB
  BcdDevice <- MCBcdDevice
SPECIFICATION FairSpec
INVARIANTS
  TypeOK
  PortsMatch
  FullWasFull
  DriverHandle
PROPERTIES
  RetryNeedsContention
