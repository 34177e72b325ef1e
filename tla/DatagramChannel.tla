--------------------------- MODULE DatagramChannel --------------------------
(***************************************************************************)
(* What the UDP leg promises the layer above, in one direction: datagrams  *)
(* 0, 1, 2, ... are sent; any of them may be delivered at any later time,  *)
(* in any order, or never; none is delivered twice and nothing is          *)
(* delivered that was not sent.                                            *)
(***************************************************************************)
EXTENDS Integers

VARIABLES sent,        \* how many datagrams have been sent
          delivered,   \* which of them have been handed to the layer above
          handed       \* how many frames the layer above has been given

channelVars == <<sent, delivered, handed>>

ChannelInit ==
    /\ sent = 0
    /\ delivered = {}
    /\ handed = 0

Send ==
    /\ sent' = sent + 1
    /\ UNCHANGED <<delivered, handed>>

Deliver ==
    \E i \in 0 .. (sent - 1) :
        /\ i \notin delivered
        /\ delivered' = delivered \cup {i}
        /\ handed' = handed + 1
        /\ UNCHANGED sent

ChannelNext == Send \/ Deliver

ChannelSpec == ChannelInit /\ [][ChannelNext]_channelVars

=============================================================================
