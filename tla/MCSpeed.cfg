\* One process with the descriptor of Descriptor.h.
CONSTANTS
  Starters = {a}
  Foreign = Foreign
  NPorts = 2
  HubOf <- MCHubOf
  Controllers <- MCControllers
  BcdUSB <- MCBcdUSB
  BcdDevice <- MCBcdDevice
SPECIFICATION Spec
INVARIANT SpeedIsDeclared
