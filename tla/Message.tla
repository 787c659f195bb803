------------------------------ MODULE Message ------------------------------
(***************************************************************************)
(* protocol.Message (protocol/protocol.go), what the parts from the inputs *)
(* to the outputs hand on.  A message is a number; only its method and     *)
(* whether a response was recorded make a difference to them.              *)
(***************************************************************************)
EXTENDS Integers

CONSTANTS Messages,     \* the messages
          MethodOf,     \* message -> Method
          HasResponse   \* message -> Meta.ContainResponse

NoMessage == 0
NoMethod == ""

ASSUME MessageAssumption ==
    /\ Messages \subseteq Nat \ {NoMessage}
    /\ DOMAIN MethodOf = Messages
    /\ HasResponse \in [Messages -> BOOLEAN]
=============================================================================
