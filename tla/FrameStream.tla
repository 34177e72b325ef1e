----------------------------- MODULE FrameStream ----------------------------
(***************************************************************************)
(* What the TCP leg promises the layer above, in one direction: frames     *)
(* come out in the order they went in, each once, none missing in between, *)
(* until the leg closes; after that none comes out at all.                 *)
(***************************************************************************)
EXTENDS Integers, Sequences

VARIABLES accepted,     \* the frames handed to the sending end, in order
          decoded,      \* the frames handed out by the receiving end, in order
          open          \* the receiving end has not failed

streamVars == <<accepted, decoded, open>>

StreamInit ==
    /\ accepted = <<>>
    /\ decoded = <<>>
    /\ open = TRUE

Accept ==
    /\ Len(accepted') > Len(accepted)
    /\ SubSeq(accepted', 1, Len(accepted)) = accepted
    /\ UNCHANGED <<decoded, open>>

Deliver ==
    /\ open
    /\ Len(decoded) < Len(accepted)
    /\ decoded' = Append(decoded, accepted[Len(decoded) + 1])
    /\ UNCHANGED <<accepted, open>>

Close ==
    /\ open
    /\ open' = FALSE
    /\ UNCHANGED <<accepted, decoded>>

StreamNext == Accept \/ Deliver \/ Close

StreamSpec == StreamInit /\ [][StreamNext]_streamVars

=============================================================================
