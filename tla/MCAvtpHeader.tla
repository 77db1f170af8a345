---------------------------- MODULE MCAvtpHeader ----------------------------
(***************************************************************************)
(* AvtpHeader with all the stream formats in both versions and all ACF     *)
(* message and payload headers.                                            *)
(***************************************************************************)
EXTENDS AvtpHeader, TLC

MCFormats == StreamFormats @@ AcfFormats

\* A clean buffer and one full of ones.
MCGarbage == {{}, BufferBits}

\* Zero, 2 (which is true but has no lowest bit) and a pattern wider than every
\* field but the 64-bit ones.
MCValues == {{}, {1}, {i \in 0 .. 63 : i % 3 # 1}}

MCMaxWrites == 3
=============================================================================
