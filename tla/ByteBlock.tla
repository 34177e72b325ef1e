------------------------------ MODULE ByteBlock -----------------------------
(***************************************************************************)
(* Byte strings as the hello messages use them (Bytes, BytesMut, Buf and   *)
(* BufMut of the bytes crate; utils/u24.rs).                               *)
(*                                                                         *)
(* A block is its length in bytes and the fields that begin in it: at[p]   *)
(* is the value of the field whose first byte is at p.  An integer field   *)
(* holds a number, cut to its width when it is written; a salt, a key or a *)
(* name is one value for all of its bytes.  A position where no field      *)
(* begins reads as zero.                                                   *)
(***************************************************************************)
EXTENDS Integers, Sequences, SequencesExt

Empty == [len |-> 0, at |-> <<>>]

\* put_slice of n bytes that are known as value.
Slice(n, value) == [len |-> n, at |-> [p \in 0 .. (Min({n, 1}) - 1) |-> value]]

U8(v) == Slice(1, v % 2^8)
U16(v) == Slice(2, v % 2^16)
U24(v) == Slice(3, v % 2^24)

Joined(a, b) ==
    [len |-> a.len + b.len,
     at  |-> [p \in DOMAIN a.at \cup {a.len + q : q \in DOMAIN b.at} |->
                 IF p < a.len THEN a.at[p] ELSE b.at[p - a.len]]]

Concat(blocks) == FoldLeft(Joined, Empty, blocks)

\* A list of u16 values.
U16s(values) == Concat([i \in DOMAIN values |-> U16(values[i])])

Get(b, p) == IF p \in DOMAIN b.at THEN b.at[p] ELSE 0

\* bytes[from .. from + n], where these bytes exist.
SubBlock(b, from, n) ==
    [len |-> n,
     at  |-> [p \in {q - from : q \in DOMAIN b.at \cap from .. (from + n - 1)} |-> b.at[from + p]]]

Prefix(b, n) == SubBlock(b, 0, n)
Suffix(b, from) == SubBlock(b, from, b.len - from)

-----------------------------------------------------------------------------
(***************************************************************************)
(* Buf: a read past the end panics.  A cursor only moves forward, so it is *)
(* behind the end exactly when one of its reads went past it.              *)
(***************************************************************************)
Cursor(b) == [block |-> b, pos |-> 0]

Remaining(c) == c.block.len - c.pos

Overrun(c) == Remaining(c) < 0

\* The integer the next get_u8 or get_u16 returns.
Peek(c) == Get(c.block, c.pos)

\* get_u8, get_u16, copy_to_slice, split_to and advance all move by a width.
Skip(c, n) == [block |-> c.block, pos |-> c.pos + n]

\* What split_to(n) returns.
Split(c, n) == SubBlock(c.block, c.pos, n)

=============================================================================
