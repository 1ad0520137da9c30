---------------------------- MODULE MCGdbServer ----------------------------
(* Instances of GdbServer for TLC.                                         *)
EXTENDS GdbServer

Op(o) == [op |-> o, parts |-> << >>]
Part(a, t) == [action |-> a, tid |-> t]
VCont(parts) == [op |-> "vCont", parts |-> parts]

(* The commands, with vCont to all threads and to the one there is.        *)
MCCommands ==
  {Op(o) : o \in {"?", "c", "s", "g", "G", "p", "P", "m", "M", "Z0", "z0", "H", "q", "qSupported",
                  "QStartNoAckMode", "QThreadSuffixSupported", "D", "k", "unknown", "vCont"}}
  \cup {VCont(<<Part("c", -1)>>), VCont(<<Part("s", 1), Part("c", -1)>>)}

(* Those that another thread, a core that fails or an interrupt disturb,   *)
(* with vCont to a thread that is not there and to thread 0.               *)
MCRoughCommands ==
  {Op(o) : o \in {"c", "s", "g", "H", "QStartNoAckMode", "QThreadSuffixSupported"}}
  \cup {VCont(<<Part("c", 1), Part("s", 12)>>), VCont(<<Part("s", 0)>>), VCont(<<Part("c", -1)>>)}
=============================================================================
