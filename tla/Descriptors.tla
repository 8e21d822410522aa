----------------------------- MODULE Descriptors -----------------------------
(***************************************************************************)
(* The descriptors of the CDC device (Descriptor.h) as far as the device   *)
(* and the application look at them: their lengths, their numbers and      *)
(* where they refer to each other.                                         *)
(***************************************************************************)
EXTENDS Integers, Sequences, SequencesExt

(* sizeof of the packed structs of USB.h.                                  *)
ConfigurationLen == 9
InterfaceLen     == 9
EndpointLen      == 7
HeaderLen        == 5
CallMgmtLen      == 5
AcmLen           == 4
UnionLen         == 5

StringLen(chars)   == 2 + 2 * chars
LanguagesLen(ids)  == 2 + 2 * ids

EndpointIn1  == 129
EndpointOut2 == 2
EndpointIn2  == 130

Index(address) == address % 16

Device ==
  [bLength |-> 18, bcdUSB |-> 512, bcdDevice |-> 256,
   iManufacturer |-> 1, iProduct |-> 2, iSerialNumber |-> 0, bNumConfigurations |-> 1]

DeviceQualifier == [bLength |-> 10, bcdUSB |-> 512, bNumConfigurations |-> 1]

(* The members of struct Configuration in their order.                     *)
Interfaces ==
  <<[number |-> 0, string |-> 0, endpoints |-> <<EndpointIn1>>,
     functional |-> <<HeaderLen, CallMgmtLen, AcmLen, UnionLen>>],
    [number |-> 1, string |-> 3, endpoints |-> <<EndpointOut2, EndpointIn2>>,
     functional |-> <<>>]>>

InterfaceTotal(i) ==
  InterfaceLen + FoldSeq(+, 0, i.functional) + EndpointLen * Len(i.endpoints)

Configuration ==
  [wTotalLength |-> FoldSeq(LAMBDA i, n : n + InterfaceTotal(i), ConfigurationLen, Interfaces),
   bNumInterfaces |-> 2, bConfigurationValue |-> 1, bmAttributes |-> 192]

SelfPowered(attributes) == (attributes \div 64) % 2 = 1

(* English, ManufacturerString, ProductString, InterfaceString.            *)
Strings == <<LanguagesLen(1), StringLen(18), StringLen(13), StringLen(15)>>

(* What VirtualUSBDevice keeps of them.                                    *)
Configurations ==
  <<[value |-> Configuration.bConfigurationValue, total |-> Configuration.wTotalLength,
     selfPowered |-> SelfPowered(Configuration.bmAttributes)]>>

(* The descriptors fit together: the numbers of interfaces and             *)
(* configurations are the real ones, every string that is referred to      *)
(* exists, and no endpoint address is used twice.                          *)
ASSUME Consistent ==
  /\ Configuration.wTotalLength = 67
  /\ Configuration.bNumInterfaces = Len(Interfaces)
  /\ Device.bNumConfigurations = Len(Configurations)
  /\ DeviceQualifier.bNumConfigurations = Len(Configurations)
  /\ \A i \in DOMAIN Interfaces : Interfaces[i].number = i - 1
  /\ {Device.iManufacturer, Device.iProduct, Device.iSerialNumber,
      Interfaces[1].string, Interfaces[2].string} \subseteq 0 .. Len(Strings) - 1
  /\ \A i, j \in DOMAIN Interfaces :
       \A k \in DOMAIN Interfaces[i].endpoints, l \in DOMAIN Interfaces[j].endpoints :
         Interfaces[i].endpoints[k] = Interfaces[j].endpoints[l] => i = j /\ k = l
==============================================================================
