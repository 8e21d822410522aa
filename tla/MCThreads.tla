------------------------------ MODULE MCThreads ------------------------------
(* Instances of DeviceThreads: few kinds of commands, so that the threads' *)
(* interleavings are what the runs explore.                                *)
EXTENDS DeviceThreads

Transfer(dir, e, len) ==
  [command |-> "Submit", direction |-> dir, ep |-> e, length |-> len, setup |-> NoSetup]

MCConfigDescs == <<[value |-> 1, total |-> 4, selfPowered |-> TRUE]>>
MCStringLens  == <<>>

In  == Transfer("In", 1, 1)
Out == Transfer("Out", 1, 1)

(* A standard request whose handler throws, and a packet that is no        *)
(* command at all.                                                         *)
Unsupported == [command |-> "Submit", direction |-> "In", ep |-> 0, length |-> 1,
                setup |-> NoSetup]
Garbage     == [Out EXCEPT !.command = "Bad"]

PlainShapes == {In, Out}
GoodShapes == {In, Out, Unsupported}
AllShapes  == {In, Out, Unsupported, Garbage}
==============================================================================
