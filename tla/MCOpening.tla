------------------------------ MODULE MCOpening -----------------------------
(***************************************************************************)
(* Opening for TLC.                                                        *)
(***************************************************************************)
EXTENDS Opening

CONSTANTS Owned, Other      \* names of hosts

\* The node's answer by its own order of suites and by the client's.
MCServerProfiles == {MODERN, [COMPAT EXCEPT !.honor_cipher_order = FALSE]}

\* All five draws alike, and all different.
MCGreaseSets ==
    {[cipher |-> \h2a2a, group |-> \h2a2a, ext_first |-> \h2a2a, ext_last |-> \h2a2a,
      version |-> \h2a2a],
     [cipher |-> \hcaca, group |-> \h8a8a, ext_first |-> \hdada, ext_last |-> \h0a0a,
      version |-> \hfafa]}

\* 59 is one less than a multiple of 2 to 6: that element stays, with 0 it changes
\* places with the first.  The third has a swap with the first, one with the place
\* before, two in between and two that stay.
MCShuffleDraws == {[i \in 1 .. 6 |-> 59], [i \in 1 .. 6 |-> 0], <<0, 1, 1, 4, 2, 6>>}

Host(name, len, kind, spelling) == [name |-> name, len |-> len, kind |-> kind, spelling |-> spelling]

MCDecoyDomains ==
    {Host(Owned, 1, "name", "plain"), Host(Owned, 253, "name", "typed"),
     Host(Owned, 254, "name", "plain"), Host(Owned, 9, "ip", "plain")}

MCSniChoices ==
    MCDecoyDomains \cup {Host(Owned, 0, "name", "plain"), Host(Other, 9, "name", "plain")}
=============================================================================
