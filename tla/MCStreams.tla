------------------------------ MODULE MCStreams ------------------------------
(* Instance of CommandQueues for the data path: IN transfers of two        *)
(* endpoints with requests of two sizes, OUT transfers, unlinks, and       *)
(* writes that are empty, shorter and longer than a request.               *)
EXTENDS CommandQueues

Transfer(dir, e, len) ==
  [command |-> "Submit", direction |-> dir, ep |-> e, length |-> len, setup |-> NoSetup]

MCConfigDescs == <<[value |-> 1, total |-> 4, selfPowered |-> TRUE]>>
MCStringLens  == <<1>>
MCShapes      == {Transfer("In", 1, 1), Transfer("In", 1, 2), Transfer("In", 2, 1),
                  Transfer("Out", 2, 1)}
==============================================================================
