--------------------------- MODULE MCTeleopStream ---------------------------
(* Instances of TeleopStream for TLC, and samples of its frames.           *)
EXTENDS TeleopStream, TurboPacket

-----------------------------------------------------------------------------
Resting == [n \in Slots |-> 100 * n]
NothingHeld == [slots |-> [n \in Slots |-> 7], known |-> {1}]
Positions == <<-7, 4095, 1365, 0, 2730, 5000, 2048>>

\* Every choice of joints, with and without others that are known, as a
\* keyframe and as a delta, and with a buffer that is one byte too small.
ASSUME FramesCarry ==
    \A ids \in SUBSET (1..kSlotCount), shift \in 0..1, known \in {{}, {0, 5}},
       keyframe \in BOOLEAN, capacity \in {kTurboMaxWireSize - 1, kTurboMaxWireSize} :
        Carries([id \in ids |-> Positions[id + shift]], 120,
                [slots |-> Resting, known |-> known], keyframe, capacity, NothingHeld)

\* What the buffer held before shows through: it has to be empty.
ASSUME PackingAddsBits ==
    LET frame == encodeWithSession([id \in {1} |-> 0], 50, [slots |-> Resting, known |-> {}],
                                   TRUE, {3}, kTurboMaxWireSize)
    IN  decodeWithSession(frame, NothingHeld).payload = [id \in {1} |-> 8]

=============================================================================
