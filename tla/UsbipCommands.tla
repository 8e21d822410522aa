---------------------------- MODULE UsbipCommands ----------------------------
(***************************************************************************)
(* The USB/IP commands a VirtualUSBDevice answers and the replies it       *)
(* builds: the part of VirtualUSBDevice.cpp that computes a value and      *)
(* touches no shared state.  A command is the decoded header of a          *)
(* USBIP_CMD_SUBMIT or USBIP_CMD_UNLINK; its payload, which no property    *)
(* looks into, is reduced to its length.                                   *)
(***************************************************************************)
EXTENDS Integers, Sequences

CONSTANTS
  MaxCount,       \* USB::Endpoint::MaxCount, the size of the endpoint tables
  DeviceDescLen,  \* bLength of the device descriptor
  QualifierLen,   \* bLength of the device qualifier descriptor, 0 if there is none
  StringLens,     \* bLength of each string descriptor, <<>> if there are none
  ConfigDescs,    \* the configuration descriptors: [value, total, selfPowered]
  StrayLens       \* bound: what a read past the table of configuration
                  \* descriptors may take for a wTotalLength

ASSUME DescriptorAssumption ==
  /\ MaxCount \in Nat \ {0}
  /\ DeviceDescLen \in Nat
  /\ QualifierLen \in Nat
  /\ StringLens \in Seq(Nat)
  /\ ConfigDescs \in Seq([value : Nat, total : Nat, selfPowered : BOOLEAN])

ASSUME StrayAssumption == StrayLens \subseteq Nat /\ StrayLens # {}

(***************************************************************************)
(* Constants of the protocol.  "Bad" stands for every other value of the   *)
(* 32-bit field.                                                           *)
(***************************************************************************)
ECONNRESET   == 104
Directions   == {"Out", "In", "Bad"}
RequestTypes == {"Standard", "Class", "Vendor"}
Recipients   == {"Device", "Interface", "Endpoint"}
Requests     == {"GetStatus", "GetDescriptor", "SetConfiguration", "SET_LINE_CODING",
                 "GET_LINE_CODING", "SET_CONTROL_LINE_STATE", "SEND_BREAK", "Unsupported"}

(* The setup packet.  wValue is split into its high byte (the descriptor   *)
(* type of a GetDescriptor) and its low byte (a descriptor index or a      *)
(* configuration value).                                                   *)
DescTypes    == {"Device", "Configuration", "String", "DeviceQualifier", "Unsupported"}
SetupRequest == [type : RequestTypes, recipient : Recipients, request : Requests,
                 high : DescTypes, low : Nat, wLength : Nat]

(* The code keeps the endpoint number in a uint8_t; the host never sends   *)
(* one that does not fit.                                                  *)
EpNumbers == 0 .. 255

Command ==
  [command : {"Submit", "Unlink", "Bad"}, seqnum : Nat, direction : Directions,
   ep : EpNumbers, length : Nat, setup : SetupRequest, target : Nat]

(* Where the bytes of a reply come from: nowhere; the bytes a client wrote *)
(* to the endpoint, from the at-th on; a status word; or the descriptor    *)
(* with index at.                                                          *)
PayloadKinds == {"none", "write", "status", "device", "configuration", "string", "qualifier"}
Payload      == [kind : PayloadKinds, at : Nat]
NoPayload    == [kind |-> "none", at |-> 0]

Reply == [command : {"RetSubmit", "RetUnlink"}, seqnum : Nat, direction : Directions,
          ep : EpNumbers, status : Int, length : Nat, payload : Payload]

\* Mutant: the length asked for, whatever there is.
AtMostUncapped(n, limit) == limit

AtMost(n, limit) == IF n <= limit THEN n ELSE limit

(***************************************************************************)
(* Classification of commands by _handleCmd and _handleCmdSubmitEP0.       *)
(***************************************************************************)
IsSubmit(cmd)   == cmd.command = "Submit"
IsUnlink(cmd)   == cmd.command = "Unlink"
IsStandard(cmd) == IsSubmit(cmd) /\ cmd.ep = 0 /\ cmd.setup.type = "Standard"
IsTransfer(cmd) == IsSubmit(cmd) /\ ~IsStandard(cmd)

ConfigIndex(value) == {i \in DOMAIN ConfigDescs : ConfigDescs[i].value = value}

(* The standard requests _handleCmdSubmitEP0StandardRequest carries out:   *)
(* every other one ends in a throw.                                        *)
StandardSupported(cmd, configured) ==
  LET req == cmd.setup IN
  /\ req.recipient = "Device"
  /\ \/ /\ req.request = "GetStatus"
        /\ cmd.direction = "In"
        /\ configured
     \/ /\ req.request = "GetDescriptor"
        /\ cmd.direction = "In"
        /\ req.high = "Configuration" => req.low < Len(ConfigDescs)
        /\ req.high = "String" => StringLens = <<>> \/ req.low < Len(StringLens)
     \/ /\ req.request = "SetConfiguration"
        /\ cmd.direction = "In" \/ (cmd.direction = "Out" /\ cmd.length = 0)
        /\ ConfigIndex(req.low) # {}

(* The commands whose handler throws before it changes anything.           *)
Rejected(cmd, configured) ==
  CASE IsStandard(cmd) -> ~StandardSupported(cmd, configured)
    [] IsTransfer(cmd) -> cmd.direction = "Bad" \/ cmd.ep >= MaxCount
    [] IsUnlink(cmd)   -> cmd.ep >= MaxCount
    [] OTHER           -> TRUE

(***************************************************************************)
(* _reply: the header and payload queued for a command.  A RET_SUBMIT      *)
(* always carries status 0, whatever its caller passed; only an IN reply   *)
(* carries bytes.                                                          *)
(***************************************************************************)
ReplyTo(cmd, payload, len, status) ==
  [command   |-> IF IsSubmit(cmd) THEN "RetSubmit" ELSE "RetUnlink",
   seqnum    |-> cmd.seqnum,
   direction |-> cmd.direction,
   ep        |-> cmd.ep,
   status    |-> IF IsSubmit(cmd) THEN 0 ELSE status,
   length    |-> IF IsSubmit(cmd) THEN len ELSE 0,
   payload   |-> IF IsSubmit(cmd) /\ cmd.direction = "In" /\ len > 0
                   THEN payload ELSE NoPayload]

(* GetDescriptor: the descriptor found for a request and the length the    *)
(* code takes for it.  The length of the device descriptor is read from    *)
(* the configuration descriptor with the request's index, which for this   *)
(* descriptor alone is not checked: past the end of the table a stray      *)
(* length is found (or the process is killed, which is left to CdcApp).    *)
PastTheTable(req) == req.high = "Device" /\ req.low >= Len(ConfigDescs)

DescriptorFor(req, stray) ==
  CASE req.high = "Device" ->
         [kind |-> "device",
          len  |-> IF PastTheTable(req) THEN stray ELSE ConfigDescs[req.low + 1].total]
    [] req.high = "Configuration" ->
         [kind |-> "configuration", len |-> ConfigDescs[req.low + 1].total]
    [] req.high = "String" /\ StringLens # <<>> ->
         [kind |-> "string", len |-> StringLens[req.low + 1]]
    [] req.high = "DeviceQualifier" /\ QualifierLen > 0 ->
         [kind |-> "qualifier", len |-> QualifierLen]
    [] OTHER -> [kind |-> "none", len |-> 0]

(* Mutant: the reply is not capped to wLength.                             *)
DescriptorReplyUncapped(cmd, stray) ==
  LET desc == DescriptorFor(cmd.setup, stray) IN
  ReplyTo(cmd, [kind |-> desc.kind, at |-> cmd.setup.low], desc.len, 0)

DescriptorReply(cmd, stray) ==
  LET desc == DescriptorFor(cmd.setup, stray) IN
  ReplyTo(cmd, [kind |-> desc.kind, at |-> cmd.setup.low],
          AtMost(desc.len, cmd.setup.wLength), IF desc.kind = "none" THEN 1 ELSE 0)

(* GetStatus answers two bytes; bit 0 tells whether the active             *)
(* configuration is self-powered.                                          *)
StatusReply(cmd, selfPowered) ==
  ReplyTo(cmd, [kind |-> "status", at |-> IF selfPowered THEN 1 ELSE 0], 2, 0)

(* Mutant: the two answers are exchanged.                                  *)
UnlinkStatusSwapped(found) == IF found THEN 0 ELSE -ECONNRESET

(* _handleCmdUnlink reports -ECONNRESET when it took the command back, and *)
(* 0 when there was nothing to take back.                                  *)
UnlinkStatus(found) == IF found THEN -ECONNRESET ELSE 0
==============================================================================
