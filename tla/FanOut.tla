------------------------------- MODULE FanOut -------------------------------
(***************************************************************************)
(* What sio share promises to the programs behind its virtual ports: each  *)
(* of them hears what the device says, in order and never twice. A         *)
(* listener may miss something (it was slow, its write failed), and nobody *)
(* hears what was not said.                                                *)
(*                                                                         *)
(* Chunks are numbered in the order the device says them.                  *)
(***************************************************************************)
EXTENDS Naturals, Sequences

CONSTANT Listeners

VARIABLES
    said,    \* how many chunks the device has said
    heard    \* heard[l]: the chunks that listener l has got

fanVars == <<said, heard>>

FanInit == said = 0 /\ heard = [l \in Listeners |-> << >>]

Say == said' = said + 1 /\ UNCHANGED heard

\* n comes after everything l has heard before.
Hear(l) ==
    /\ \E n \in 1 .. said :
          /\ \A i \in DOMAIN heard[l] : heard[l][i] < n
          /\ heard' = [heard EXCEPT ![l] = Append(@, n)]
    /\ UNCHANGED said

FanNext == Say \/ \E l \in Listeners : Hear(l)

FanSpec == FanInit /\ [][FanNext]_fanVars
=============================================================================
