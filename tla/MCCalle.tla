-------------------------------- MODULE MCCalle --------------------------------
(***************************************************************************)
(* Two curators and an operator log in, with two login sessions as long as *)
(* no verification has begun and with one beside a verification.  Every    *)
(* wait may last its longest: the clock advances by a request's time and   *)
(* the lateness of the event loop.                                         *)
(***************************************************************************)
EXTENDS CallECaller

CONSTANTS curator, editor, operator, first, second

\* Bound: the second session belongs to people who log in before the call.
MCNext == Next /\ (sessions'[second] # "unused" => pc' = "ready")

MCSpec == Init /\ [][MCNext]_vars /\ Fairness
=============================================================================
