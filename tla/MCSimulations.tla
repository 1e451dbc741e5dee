--------------------------- MODULE MCSimulations ----------------------------
(* Two threads: s1 of two traffic volumes, which may be interrupted; s2, whose *)
(* section changes the traffic and takes snapshots.  The command line says     *)
(* when results are saved, whatever the file and the section of s2 say.        *)
EXTENDS Simulations

MCGeneral == [erlangs |-> [start |-> 10, stop |-> 30, step |-> 10], thread_erlangs |-> FALSE,
              max_iters |-> 3, save_step |-> 1, save_snapshots |-> FALSE]
MCSection == "s2" :> [erlangs |-> [start |-> 10, stop |-> 15, step |-> 10],
                      save_snapshots |-> TRUE, save_step |-> 2]
MCCommandLine == "save_step" :> 4
=============================================================================
