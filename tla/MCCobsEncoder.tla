---------------------------- MODULE MCCobsEncoder ----------------------------
\* Payloads for CobsEncoder: every sequence of up to MaxPayload bytes that
\* are zero, small, or equal to the largest byte.
EXTENDS CobsEncoder, SequencesExt

CONSTANT MaxPayload

MCPayloads == BoundedSeq({0, 1, FullCode}, MaxPayload)
MCSizes == 1 .. 12
MCOffsets == 0 .. 6
=============================================================================
