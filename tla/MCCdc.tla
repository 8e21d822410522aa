-------------------------------- MODULE MCCdc --------------------------------
(* Instance of CdcApp with the descriptors of Descriptor.h: every kind of  *)
(* standard request, supported or not, the requests of a serial port,      *)
(* transfers of the data interface and of endpoints that do not exist.     *)
EXTENDS CdcApp

D == INSTANCE Descriptors

MCDeviceDescLen == D!Device.bLength
MCQualifierLen  == D!DeviceQualifier.bLength
MCStringLens    == D!Strings
MCConfigDescs   == D!Configurations
MCOut2          == D!Index(D!EndpointOut2)
MCIn2           == D!Index(D!EndpointIn2)

Setup(dir, type, recipient, request, high, low, len) ==
  [command |-> "Submit", direction |-> dir, ep |-> 0, length |-> len,
   setup |-> [type |-> type, recipient |-> recipient, request |-> request,
              high |-> high, low |-> low, wLength |-> len]]

Get(high, low, len) == Setup("In", "Standard", "Device", "GetDescriptor", high, low, len)

Configure(value) ==
  Setup("Out", "Standard", "Device", "SetConfiguration", "Unsupported", value, 0)

Class(request, low, len) == Setup("Out", "Class", "Interface", request, "Unsupported", low, len)

Transfer(dir, e, len) ==
  [command |-> "Submit", direction |-> dir, ep |-> e, length |-> len, setup |-> NoSetup]

MCShapes ==
  {Get("Device", 0, 64), Get("Device", 0, 8), Get("Device", 1, 64), Get("Configuration", 0, 9),
   Get("Configuration", 0, 255), Get("String", 0, 255), Get("String", 4, 255),
   Get("DeviceQualifier", 0, 10), Get("Unsupported", 0, 5), Configure(1), Configure(2),
   Setup("In", "Standard", "Device", "GetStatus", "Unsupported", 0, 2),
   Setup("In", "Standard", "Interface", "GetStatus", "Unsupported", 0, 2),
   Class("SET_LINE_CODING", 0, 7), Class("SET_LINE_CODING", 0, 8),
   Class("SET_CONTROL_LINE_STATE", 0, 0), Class("SET_CONTROL_LINE_STATE", 3, 0),
   Class("SEND_BREAK", 0, 0), Class("Unsupported", 0, 0),
   Setup("Out", "Vendor", "Interface", "Unsupported", "Unsupported", 0, 0),
   Setup("In", "Class", "Interface", "GET_LINE_CODING", "Unsupported", 0, 7),
   Transfer("In", 2, 64), Transfer("In", 2, 2048), Transfer("In", 1, 8),
   Transfer("Out", 2, 2), Transfer("Out", 1, 1), Transfer("In", 3, 64),
   Transfer("Bad", 2, 1),
   [command |-> "Bad", direction |-> "Out", ep |-> 1, length |-> 0, setup |-> NoSetup]}

ASSUME HostAsksForRoom == HostMakesRoom
==============================================================================
