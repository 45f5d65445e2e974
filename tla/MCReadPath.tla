----------------------------- MODULE MCReadPath -----------------------------
(* A small instance of ReadPath: a ratio of 3 in place of 48, a native song,   *)
(* and a 3 Hz stereo target fed at its own rate, at a third, at two thirds and *)
(* at three times its rate, with the malformed formats validate refuses.       *)
EXTENDS ReadPath

Native(fmt, rate, channels) ==
  [sample_format |-> fmt, sample_rate |-> rate, channels |-> channels]

MCTargets == {NoTarget, [sample_rate |-> 3, channels |-> 2]}

MCFormats ==
  {Native("U8", 1, 1), Native("S16", 2, 2), Native("F32", 3, 2), Native("S24", 9, 1),
   Native("S16", 10, 1), Native("F32", 3, 3), Native("unknown", 3, 2),
   Native("S16", 0, 1)}
=============================================================================
