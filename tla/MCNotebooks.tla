----------------------------- MODULE MCNotebooks -----------------------------
(* One notebook that is run, by one of the three, and a spare name it may be moved to. *)
EXTENDS Notebooks

CONSTANTS job, spare

Servers == {{"timer"}, {"app"}, {"plugin"}}
Books == [r \in Runners |-> job]

(* Nothing is under the spare name at first.  Faults are left to the timers.  The plugin is told *)
(* what they are told: it gets one save or result, with all its watcher may do meanwhile.        *)
MCInit ==
    /\ Init /\ ~Exists(file[spare])
    /\ faults = IF "timer" \in active THEN 0 ELSE MaxFaults
    /\ texts = IF "plugin" \in active THEN MaxWrites - 1 ELSE 1
MCSpec == MCInit /\ [][Next]_vars /\ Fairness

(* For the renames: safety only, from any workspace. *)
RenameSpec == Init /\ [][Next]_vars
=============================================================================
