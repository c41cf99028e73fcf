----------------------------- MODULE TurboPacket -----------------------------
(***************************************************************************)
(* The turbo frame of a mirrored batch: a mask of joints, a control byte   *)
(* with the speed and the keyframe flag, and twelve bits per joint, packed *)
(* without gaps.  TeleopStream sends whole batches; here is what becomes   *)
(* of one between encodeWithSession and decodeWithSession.                 *)
(*                                                                         *)
(* A mask is the set of its bits, and a buffer the set of the offsets of   *)
(* its bits that are set: bit b of byte n has the offset 8 * n + b.  A     *)
(* payload is a function from servo ids, at most kTeleopBatchMaxServos of  *)
(* them, to positions.  Magic, version, type and request id are left out.  *)
(***************************************************************************)
EXTENDS Integers, FiniteSets

kSlotCount == 6
kMaxPosition == 4095
kPackedByteLength == 9
kTurboHeaderV2Size == 7
kTurboMaxWireSize == kTurboHeaderV2Size + kPackedByteLength

Slots == 0..(kSlotCount - 1)
Sessions == [slots : [Slots -> 0..kMaxPosition], known : SUBSET Slots]

clampStsPosition(position) ==
    IF position < 0 THEN 0
    ELSE IF position > kMaxPosition THEN kMaxPosition
    ELSE position

-----------------------------------------------------------------------------
(* Packing.                                                                *)

Active(mask) == mask \cap Slots
popcountMask(mask) == Cardinality(Active(mask))
packedByteLengthForMask(mask) == (12 * popcountMask(mask) + 7) \div 8

\* The slots of a mask are packed in their order; valueIndex of one of them.
Index(mask, slot) == Cardinality({s \in Active(mask) : s < slot})

Weights == <<1, 2, 4, 8, 16, 32, 64, 128, 256, 512, 1024, 2048>>
Bits == 0..11
IsSet(value, bit) == (value \div Weights[bit + 1]) % 2 = 1

\* The bits that are set in out stay set, and what does not fit is left out.
packMaskedSlots12Bit(mask, slots, out, capacity) ==
    out \cup { o \in 0..(8 * capacity - 1) :
                 \E slot \in Active(mask), bit \in Bits :
                     o = 12 * Index(mask, slot) + bit /\ IsSet(slots[slot], bit) }

\* What one bit of the value at place i is worth.
Worth(in, len, i, bit) ==
    IF 12 * i + bit < 8 * len /\ 12 * i + bit \in in THEN Weights[bit + 1] ELSE 0

unpackValue(in, len, i) ==
    LET w(bit) == Worth(in, len, i, bit)
    IN  w(0) + w(1) + w(2) + w(3) + w(4) + w(5) + w(6) + w(7) + w(8) + w(9) + w(10) + w(11)

unpackMaskedSlots12Bit(mask, in, len, slots) ==
    [slot \in Slots |-> IF slot \in mask THEN unpackValue(in, len, Index(mask, slot))
                        ELSE slots[slot]]

-----------------------------------------------------------------------------
(* Frames.                                                                 *)

encodeControlByte(speedPct, keyframe) ==
    ((IF speedPct > 100 THEN 100 ELSE speedPct) % 128) + (IF keyframe THEN 128 ELSE 0)
decodeSpeedPct(control) == control % 128
decodeKeyframeFlag(control) == control >= 128

maskFromPayload(payload) == {slot \in Slots : slot + 1 \in DOMAIN payload}

mergePayload(session, payload) ==
    LET mask == maskFromPayload(payload)
    IN  [slots |-> [slot \in Slots |-> IF slot \in mask THEN clampStsPosition(payload[slot + 1])
                                       ELSE session.slots[slot]],
         known |-> session.known \cup mask]

buildApplyPayload(slots, mask) ==
    [id \in {slot + 1 : slot \in Active(mask)} |-> slots[id - 1]]

\* What is sent is cut to the length of the mask; what the buffer has beside
\* the header is counted in a byte.
encodeWithSession(payload, speedPct, session, keyframe, buffer, capacity) ==
    LET merged == mergePayload(session, payload)
        mask == IF keyframe THEN merged.known ELSE maskFromPayload(payload)
        len == packedByteLengthForMask(mask)
        positionCapacity == (capacity - kTurboHeaderV2Size) % 256
    IN  [sent |-> DOMAIN payload # {} /\ capacity >= kTurboMaxWireSize /\ mask # {},
         mask |-> mask,
         control |-> encodeControlByte(speedPct, keyframe),
         bytes |-> packMaskedSlots12Bit(mask, merged.slots, buffer, positionCapacity)
                       \cap 0..(8 * len - 1),
         len |-> kTurboHeaderV2Size + len]

isTeleopEspNowTurboPacket(frame) ==
    frame.len = kTurboHeaderV2Size + packedByteLengthForMask(frame.mask)

\* A keyframe says which joints are known, any other frame adds to them.  A
\* frame that is a turbo packet has the length that unpacking asks for.
decodeWithSession(frame, session) ==
    LET slots == unpackMaskedSlots12Bit(frame.mask, frame.bytes,
                                        frame.len - kTurboHeaderV2Size, session.slots)
        accepted == isTeleopEspNowTurboPacket(frame)
        known == IF decodeKeyframeFlag(frame.control) THEN frame.mask
                 ELSE session.known \cup frame.mask
    IN  [taken |-> accepted /\ Active(frame.mask) # {},
         session |-> IF accepted THEN [slots |-> slots, known |-> known] ELSE session,
         payload |-> buildApplyPayload(slots, frame.mask),
         speedPct |-> decodeSpeedPct(frame.control)]

-----------------------------------------------------------------------------
\* A frame that was packed into an empty buffer is taken and gives back the
\* positions of the sender's session, clamped, for the joints of its mask,
\* and a speed of at most 100, whatever the session of the receiver holds; a
\* keyframe makes that session agree with the sender's.
Carries(payload, speedPct, session, keyframe, capacity, receiver) ==
    LET merged == mergePayload(session, payload)
        frame == encodeWithSession(payload, speedPct, session, keyframe, {}, capacity)
        decoded == decodeWithSession(frame, receiver)
    IN  frame.sent =>
            /\ frame.len <= kTurboMaxWireSize
            /\ decoded.taken
            /\ decoded.payload = buildApplyPayload(merged.slots, frame.mask)
            /\ maskFromPayload(payload) \subseteq frame.mask
            /\ decoded.speedPct = IF speedPct > 100 THEN 100 ELSE speedPct
            /\ keyframe => /\ decoded.session.known = merged.known
                           /\ \A slot \in merged.known :
                                  decoded.session.slots[slot] = merged.slots[slot]

=============================================================================
