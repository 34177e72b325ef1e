---------------------------- MODULE WireCounter -----------------------------
(***************************************************************************)
(* The counter of a datagram travels truncated to its low bits; the        *)
(* receiver rebuilds the full value from the greatest counter it has       *)
(* accepted (nrxp/datagram.rs, truncate_counter and expand_counter).       *)
(*                                                                         *)
(* WireWindow is 1 << bits.  The debug_assert bits \in 1..63 makes it an   *)
(* even number; masking with (window - 1) is reduction modulo WireWindow.  *)
(* The additions cannot leave 64 bits: counters stay below                 *)
(* REKEY_AFTER_DATAGRAMS = 1 << 14 and bits is 16 or 32 at the call sites. *)
(***************************************************************************)
EXTENDS Integers

CONSTANT WireWindow

ASSUME WireWindowAssumption ==
    /\ WireWindow \in Nat \ {0}
    /\ WireWindow % 2 = 0

Half == WireWindow \div 2

WireCounters == 0 .. (WireWindow - 1)

TruncateCounter(full) == full % WireWindow

\* highest with its low bits replaced by the truncated ones.
Candidate(highest, truncated) ==
    (highest - (highest % WireWindow)) + (truncated % WireWindow)

\* Faulty variant: the tie goes to the counter behind.
ExpandCounterLow(highest, truncated) ==
    LET candidate == Candidate(highest, truncated)
    IN  IF candidate + Half < highest
        THEN candidate + WireWindow
        ELSE IF candidate > highest + Half /\ candidate >= WireWindow
        THEN candidate - WireWindow
        ELSE candidate

ExpandCounter(highest, truncated) ==
    LET candidate == Candidate(highest, truncated)
    IN  IF candidate + Half <= highest
        THEN candidate + WireWindow
        ELSE IF candidate > highest + Half /\ candidate >= WireWindow
        THEN candidate - WireWindow
        ELSE candidate

=============================================================================
