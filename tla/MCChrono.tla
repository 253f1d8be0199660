----------------------------- MODULE MCChrono --------------------------------
(* Scaled radices and a 2-bit days field, so that the clock passes the    *)
(* point where the days field wraps (at 4 days of 2*3*3*4*4 = 288 ticks). *)
EXTENDS Chrono

MCRadix == <<4, 4, 3, 3, 2>>
MCWidth == <<16, 16, 8, 8, 8, 2>>
MCMaxTime == 1300
MCMinTime == 0
MCMinDuration == -40

(* The instance meets the hypotheses of ChronoProofs!TimestampsExact.     *)
ASSUME InstanceFits == MinTime = 0 /\ FieldsFit
=============================================================================
