--------------------------- MODULE MessageChannel ---------------------------
(***************************************************************************)
(* What a peer session promises its users: messages are taken from the     *)
(* connection in the order they were sent, each one once and unaltered;    *)
(* those of a type the receiver knows are handed to its message callback.  *)
(* The connection may break at any moment, and then loses what it holds.   *)
(***************************************************************************)
EXTENDS Sequences

CONSTANTS Messages,   \* the messages that can be sent
          Decodable   \* those of a type MessageFactory knows

VARIABLES flight,     \* sent and not yet taken
          delivered,  \* handed to the message callback
          broken      \* the connection has ended

channelVars == <<flight, delivered, broken>>

ChannelInit == flight = <<>> /\ delivered = <<>> /\ broken = FALSE

Send(m) ==
  /\ flight' = Append(flight, m)
  /\ UNCHANGED <<delivered, broken>>

Take ==
  /\ flight # <<>>
  /\ ~broken
  /\ flight' = Tail(flight)
  /\ delivered' = IF Head(flight) \in Decodable THEN Append(delivered, Head(flight)) ELSE delivered
  /\ UNCHANGED broken

Break == broken' = TRUE /\ UNCHANGED <<flight, delivered>>

ChannelNext == Take \/ Break \/ \E m \in Messages : Send(m)

ChannelSpec == ChannelInit /\ [][ChannelNext]_channelVars
=============================================================================
