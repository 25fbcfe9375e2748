----------------------------- MODULE MCAudioPath -----------------------------
(* AudioPath with blocks of nine samples of four bits: a sound that          *)
(* saturates in both directions, one at 16 kHz that falls and rises through *)
(* zero, one in stereo and one at a rate that is not supported.             *)
EXTENDS AudioPath

Constant(x, length) == [n \in 1..length |-> x]

MCSources ==
    { [rate |-> 48000, channels |-> 1, pcm |-> <<5, -8, 5, -8, 5, -8, 1, -1, 0>>],
      [rate |-> 16000, channels |-> 1, pcm |-> <<4, -3, 6>>],
      [rate |-> 48000, channels |-> 2, pcm |-> Constant(2, 18)],
      [rate |-> 44100, channels |-> 1, pcm |-> Constant(2, 9)] }
=============================================================================
