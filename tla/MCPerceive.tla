----------------------------- MODULE MCPerceive -----------------------------
(***************************************************************************)
(* TLC instances of Perceive: two windows and a frame of the process asked *)
(* about, two windows of another process, and two handles, so that one may *)
(* change hands several times while the other is a frame's content.        *)
(***************************************************************************)
EXTENDS Perceive

CONSTANTS h1, h2, a1, a2, af, b1, b2, pa, pb

MCHandles == {h1, h2}
MCWindows == {a1, a2, af, b1, b2}
MCProcesses == {pa, pb}
MCProcessOf == [w \in MCWindows |-> IF w \in {a1, a2, af} THEN pa ELSE pb]
MCFrames == {af}
=============================================================================
