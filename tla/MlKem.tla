-------------------------------- MODULE MlKem -------------------------------
(***************************************************************************)
(* The X25519MLKEM768 key share a ClientHello carries for its looks        *)
(* (tlseng/mlkem.rs): 768 coefficients drawn below the modulus, two of     *)
(* them packed into three bytes, then a seed and an X25519 key of random   *)
(* bytes.  Whoever receives such a share unpacks the coefficients and      *)
(* refuses one that is not below the modulus.                              *)
(***************************************************************************)
EXTENDS Integers

Q == 3329
N == 256
K == 3

T_HAT_LEN == (K * N * 12) \div 8
RHO_LEN == 32
X25519_PK_LEN == 32
X25519_MLKEM768_SHARE_LEN == T_HAT_LEN + RHO_LEN + X25519_PK_LEN

Byte == 0 .. 255

\* Where coefficients, packed bytes, bytes of the tail and bytes of the share are.
Positions == 0 .. (K * N - 1)
PackedOffsets == 0 .. (T_HAT_LEN - 1)
TailOffsets == 0 .. (RHO_LEN + X25519_PK_LEN - 1)
ShareOffsets == 0 .. (X25519_MLKEM768_SHARE_LEN - 1)

\* What a receiver accepts as a coefficient.
Reduced == 0 .. (Q - 1)

\* What sample_coefficient may return: 16 random bits cut to 12, drawn again until
\* they are below Q.
SampledCoefficients == {draw % 4096 : draw \in 0 .. 65535} \cap Reduced

Coefficients == [Positions -> SampledCoefficients]

\* byte_encode_12: byte r of the three that hold a and b, and the whole; the i-th
\* byte comes from the pair of number i \div 3.
PackedByte(a, b, r) ==
    IF r = 0 THEN a % 256
    ELSE IF r = 1 THEN ((a \div 256) % 16) + 16 * (b % 16)
    ELSE (b \div 16) % 256

ByteEncode12(coeffs) ==
    [i \in PackedOffsets |->
        PackedByte(coeffs[2 * (i \div 3)], coeffs[2 * (i \div 3) + 1], i % 3)]

\* sample_x25519_mlkem768_share for these coefficients and this tail.
Share(coeffs, tail) ==
    [i \in ShareOffsets |->
        IF i < T_HAT_LEN THEN ByteEncode12(coeffs)[i] ELSE tail[i - T_HAT_LEN]]

\* byte_decode_12 of the tests: what the receiver of a share does first.
Unpacked(x, y, z, r) == IF r = 0 THEN x + 256 * (y % 16) ELSE (y \div 16) + 16 * z

ByteDecode12(bytes) ==
    [j \in Positions |->
        Unpacked(bytes[3 * (j \div 2)], bytes[3 * (j \div 2) + 1], bytes[3 * (j \div 2) + 2], j % 2)]

\* A share is well formed: it is bytes of the right number, and its coefficients
\* are below the modulus.
WellFormedShare(share) ==
    /\ share \in [ShareOffsets -> Byte]
    /\ \A j \in Positions : ByteDecode12(share)[j] \in Reduced

=============================================================================
