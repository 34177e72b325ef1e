---------------------------- MODULE ReplayWindow ----------------------------
(***************************************************************************)
(* The sliding anti-replay window one epoch of one direction of the UDP    *)
(* leg keeps (nrxp/datagram.rs, struct ReplayWindow): the greatest counter *)
(* accepted so far and one bit for each of the last W counters, stored in  *)
(* a ring of W slots indexed by the counter modulo W.                      *)
(*                                                                         *)
(* The bitmap is the set of slots whose bit is set.  The functions of the  *)
(* impl are operators from window to window, so the receiver can be built  *)
(* from them and lemmas can be stated about them.                          *)
(***************************************************************************)
EXTENDS Integers

CONSTANT W      \* REPLAY_WINDOW_SIZE

ASSUME WindowSizeAssumption == W \in Nat \ {0}

Slots == 0 .. (W - 1)

Window == [initialized : BOOLEAN, highest : Nat, bitmap : SUBSET Slots]

NewWindow == [initialized |-> FALSE, highest |-> 0, bitmap |-> {}]

\* Faulty variant: a ring one slot too long.
SlotOffByOne(counter) == counter % (W + 1)

Slot(counter) == counter % W

SetBit(win, counter) ==
    [win EXCEPT !.bitmap = win.bitmap \cup {Slot(counter)}]

\* Faulty variant: the slots keep the bits of the counters they held before.
AdvanceKeepingBits(win, shift) == win

\* Clears the slots that enter the window from above when highest moves by shift.
Advance(win, shift) ==
    [win EXCEPT !.bitmap =
        IF shift >= W
        THEN {}
        ELSE win.bitmap \ {Slot(s) : s \in (win.highest + 1) .. (win.highest + shift)}]

\* Faulty variants: the bit is not tested; the window is one counter too short.
RefusedByAgeOnly(win, counter) ==
    win.initialized /\ counter <= win.highest /\ win.highest - counter >= W

RefusedTooEarly(win, counter) ==
    /\ win.initialized
    /\ counter <= win.highest
    /\ win.highest - counter >= W - 1 \/ Slot(counter) \in win.bitmap

\* Counters accept() refuses: hopelessly old ones and those already marked.
Refused(win, counter) ==
    /\ win.initialized
    /\ counter <= win.highest
    /\ \/ win.highest - counter >= W
       \/ Slot(counter) \in win.bitmap

\* The window accept(counter) leaves behind.
Accept(win, counter) ==
    IF ~win.initialized
    THEN SetBit([win EXCEPT !.initialized = TRUE, !.highest = counter], counter)
    ELSE IF counter > win.highest
    THEN SetBit([Advance(win, counter - win.highest) EXCEPT !.highest = counter], counter)
    ELSE IF win.highest - counter >= W
    THEN win
    ELSE SetBit(win, counter)

-----------------------------------------------------------------------------
(***************************************************************************)
(* What a window means: seen is the set of counters it has accepted.       *)
(***************************************************************************)
Represents(win, seen) ==
    /\ win.initialized <=> seen # {}
    /\ \A c \in seen : c \in Nat /\ c <= win.highest
    /\ win.initialized => win.highest \in seen
    /\ ~win.initialized => win.highest = 0 /\ win.bitmap = {}
    /\ \A c \in 0 .. win.highest :
          win.highest - c < W => (Slot(c) \in win.bitmap <=> c \in seen)

=============================================================================
