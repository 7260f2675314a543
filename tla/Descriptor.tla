----------------------------- MODULE Descriptor -----------------------------
(***************************************************************************)
(* The capability record C000h and the status record C001h                 *)
(* (shared/fbsec_descriptor.c): what the server builds and serves          *)
(* unauthenticated (server_common_dispatch.c), and what the client decodes *)
(* and compares with its minimum security floor (client_common_caps.c).    *)
(* A record is a function from the sub-index to the value of its field;    *)
(* the build is the authorized asymmetric one with AES-128-GCM.            *)
(***************************************************************************)
EXTENDS Naturals, Sequences

CapSubMax  == 8
StatSubMax == 5

\* Bits of the bitmaps.
Mech == [AEAD |-> 1, SIGNED |-> 2, X509 |-> 4]
Gate == [TOFU |-> 1, TOKEN |-> 2, VOUCHER |-> 4]
KeyBit == <<1, 2, 4>>
AllKeys == 7
IdBit == [IDEVID |-> 1, LDEVID |-> 2]
Aes128Gcm == 1
TagLen == 8

HasBit(v, bit) == (v \div bit) % 2 = 1

\* Width in bytes of every field.
CapWidth == [s \in 0..CapSubMax |->
                IF s \in {1, 2} THEN 4 ELSE IF s \in {3, 4, 8} THEN 2 ELSE 1]
StatWidth == [s \in 0..StatSubMax |-> IF s = 4 THEN 4 ELSE 1]

\* fbsec_descriptor_build_caps: only the identity flags are live.
BuildCaps(idFlags) ==
    [s \in 0..CapSubMax |->
        CASE s = 0 -> CapSubMax
          [] s = 1 -> 0
          [] s = 2 -> Aes128Gcm + 256 * TagLen
          [] s \in {3, 4} -> 1
          [] s = 5 -> AllKeys
          [] s = 6 -> idFlags
          [] s = 7 -> Gate.TOFU + Gate.TOKEN + Gate.VOUCHER
          [] s = 8 -> Mech.AEAD + Mech.SIGNED]

\* fbsec_descriptor_build_status.
BuildStatus(commissioning, keysInstalled, identities) ==
    [s \in 0..StatSubMax |->
        CASE s = 0 -> StatSubMax
          [] s = 1 -> commissioning
          [] s = 2 -> Gate.VOUCHER
          [] s = 3 -> keysInstalled
          [] s = 4 -> Aes128Gcm + 256 * TagLen
          [] s = 5 -> identities]

\* Little-endian store and load; Weight is what one byte counts in its place.
Weight == <<1, 256, 65536, 16777216>>
PutLe(v, n) == [i \in 1..n |-> (v \div Weight[i]) % 256]
GetLe(in) ==
    LET at(i) == IF i <= Len(in) THEN in[i] * Weight[i] ELSE 0
    IN  at(1) + at(2) + at(3) + at(4)

\* fbsec_caps_serialize_sub, fbsec_status_serialize_sub: empty on a bad
\* sub-index or a small buffer.
SerializeSub(width, rec, sub, max) ==
    IF sub \in DOMAIN width /\ width[sub] <= max THEN PutLe(rec[sub], width[sub]) ELSE <<>>

\* fbsec_caps_deserialize_sub, fbsec_status_deserialize_sub.
DecodesSub(width, sub, in) == sub \in DOMAIN width /\ Len(in) = width[sub]
DeserializeSub(rec, sub, in) == [rec EXCEPT ![sub] = GetLe(in)]

\* try_serve_descriptor: addressing is checked before access, and the reply
\* buffer has four bytes.
ServeDescriptor(width, rec, sub, bodyLen) ==
    LET body == IF sub <= rec[0] /\ bodyLen = 0 THEN SerializeSub(width, rec, sub, 4) ELSE <<>>
    IN  [abort |-> IF body # <<>> THEN "NONE"
                   ELSE IF sub <= rec[0] THEN "READ_ONLY" ELSE "NO_SUBINDEX",
         body |-> body]

Floor == {"ANY", "AEAD", "SIGNED", "X509"}

\* Mutant: a floor is met by any mechanism at all.
MeetsMinLax(caps, floor) == floor = "ANY" \/ caps[8] # 0

\* fbsec_client_caps_meets_min: a field that was never read is zero and meets
\* no floor.
MeetsMin(caps, floor) == floor = "ANY" \/ HasBit(caps[8], Mech[floor])

\* memset(&caps, 0, sizeof caps)
NoCaps == [s \in 0..CapSubMax |-> 0]

=============================================================================
