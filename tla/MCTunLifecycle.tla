--------------------------- MODULE MCTunLifecycle ---------------------------
(* TunLifecycle with two tuns: the second is there for the dialer alone.    *)
EXTENDS TunLifecycle

Plain == [dump |-> FALSE, blocks |-> FALSE]
MCConfigs == <<{[Plain EXCEPT !.dump = TRUE], [Plain EXCEPT !.blocks = TRUE]}, {Plain}>>
=============================================================================
