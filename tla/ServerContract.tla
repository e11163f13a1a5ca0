--------------------------- MODULE ServerContract ---------------------------
(***************************************************************************)
(* What thermal protection promises of the RTSP server: it is switched on  *)
(* and streams only while no trip is in force, in memory or in flash, and  *)
(* a trip ends by switching both off after it was saved.  StreamHandoff    *)
(* implements this with two cores and without resets, ThermalGuard with    *)
(* flash and resets and a stream that is one flag.                         *)
(***************************************************************************)

VARIABLES
  latched,    \* the thermal latch
  saved,      \* the latch as a reset will find it
  serving,    \* may clients connect?
  streaming,
  tripping    \* a trip is under way

vars == <<latched, saved, serving, streaming, tripping>>

TypeOK == /\ latched \in BOOLEAN /\ saved \in BOOLEAN
          /\ serving \in BOOLEAN /\ streaming \in BOOLEAN /\ tripping \in BOOLEAN

free == ~latched /\ ~saved /\ ~tripping

Init == /\ saved = latched /\ latched \in BOOLEAN
        /\ serving \in BOOLEAN /\ (serving => ~latched)
        /\ streaming = FALSE /\ tripping = FALSE

(* A stream starts for a client that could connect, and ends at any time.   *)
Play == serving /\ free /\ streaming' = TRUE /\ UNCHANGED <<latched, saved, serving, tripping>>
EndStream == streaming' = FALSE /\ UNCHANGED <<latched, saved, serving, tripping>>

Start == free /\ serving' = TRUE /\ UNCHANGED <<latched, saved, streaming, tripping>>

Stop == /\ ~tripping /\ serving' = FALSE /\ streaming' = FALSE
        /\ UNCHANGED <<latched, saved, tripping>>

(* Save follows, unless the latch is written in the same step. *)
Trip == /\ ~tripping /\ tripping' = TRUE
        /\ latched' = TRUE /\ saved' \in {saved, TRUE}
        /\ UNCHANGED <<serving, streaming>>

Save == saved' = latched /\ UNCHANGED <<latched, serving, streaming, tripping>>

(* The end of a trip: not before the latch is saved. *)
Silence == /\ tripping /\ saved /\ tripping' = FALSE
           /\ serving' = FALSE /\ streaming' = FALSE
           /\ UNCHANGED <<latched, saved>>

(* The user acknowledges the trip. *)
Clear == /\ latched /\ ~tripping
         /\ latched' = FALSE /\ saved' \in {saved, FALSE}
         /\ serving' = TRUE
         /\ UNCHANGED <<streaming, tripping>>

(* A factory reset takes a trip back, without switching anything on. *)
Wipe == /\ ~tripping /\ latched' = FALSE /\ saved' = FALSE /\ streaming' = FALSE
        /\ UNCHANGED <<serving, tripping>>

(* A reset forgets what was not saved: a trip or an acknowledgement. *)
Reset == /\ latched' = saved /\ serving' = FALSE /\ streaming' = FALSE /\ tripping' = FALSE
         /\ UNCHANGED saved

Next == \/ Play \/ EndStream \/ Start \/ Stop
        \/ Trip \/ Save \/ Silence \/ Clear \/ Wipe \/ Reset

Spec == Init /\ [][Next]_vars

-----------------------------------------------------------------------------
(* Whoever keeps the contract is silent from the end of a trip to its       *)
(* acknowledgement, streams only while clients may connect, and does not    *)
(* lose a trip that is complete: what a reset will find is the latch, but   *)
(* while a trip or an acknowledgement is being saved.                       *)
Silent == latched /\ ~tripping => saved /\ ~serving /\ ~streaming
StreamsServed == streaming => serving
Contract == TypeOK /\ Silent /\ StreamsServed /\ (tripping => latched)
=============================================================================
