---------------------------- MODULE Simulations -----------------------------
(***************************************************************************)
(* run_sim.run: the processes of a batch of simulations, one for each thread *)
(* of the configuration or, with thread_erlangs, for each of its traffic     *)
(* volumes, and the files they share.  A task is a thread and an erlang; the *)
(* tasks of a thread run one after the other unless thread_erlangs is set.    *)
(* A file that was opened for writing is empty until json.dump has filled it. *)
(* What happens to a request is drawn freely; Engine says how it comes about. *)
(***************************************************************************)
EXTENDS SimStats, SequencesExt

CONSTANTS
    Threads,          \* the keys of sims_dict: "s1" and the sections of the file like it
    GeneralSettings,  \* the options every simulation reads in the configuration file
    Section,          \* the options in the section of each thread but s1
    CommandLine,      \* the options on the command line
    Interruptible     \* the threads a SIGINT or SIGTERM may reach

Option == {"erlangs", "thread_erlangs", "max_iters", "save_step", "save_snapshots"}

\* read_config for s1: an option on the command line goes before the one in the file.
S1Options == CommandLine @@ GeneralSettings

\* _setup_threads: another thread starts from the options of s1 and changes those that
\* are in its section, unless they are on the command line.
Options == [t \in Threads |-> IF t = "s1" THEN S1Options ELSE CommandLine @@ Section[t] @@ S1Options]

\* erlang_list of run_generic_sim: range(start, stop, step).
ErlangList(t) ==
    LET range == Options[t].erlangs
    IN  [i \in 1..((range.stop - range.start + range.step - 1) \div range.step) |->
            range.start + (i - 1) * range.step]

ASSUME SimulationsAssumption ==
    /\ "s1" \in Threads /\ DOMAIN GeneralSettings = Option
    /\ DOMAIN Section = Threads \ {"s1"}
    /\ \A settings \in {Section[t] : t \in DOMAIN Section} \union {CommandLine} :
            DOMAIN settings \subseteq Option
    /\ \A t \in Threads :
            /\ Options[t].erlangs \in [start : Nat, stop : Nat, step : Nat \ {0}]
            /\ Options[t].erlangs.start < Options[t].erlangs.stop
            /\ {Options[t].thread_erlangs, Options[t].save_snapshots} \subseteq BOOLEAN
            /\ {Options[t].max_iters, Options[t].save_step} \subseteq Nat \ {0}
    /\ Interruptible \subseteq Threads

Erlangs == [t \in Threads |-> ErlangList(t)]
Task == UNION {{t} \X ToSet(Erlangs[t]) : t \in Threads}
ErlangAt(p) == CHOOSE i \in DOMAIN Erlangs[p[1]] : Erlangs[p[1]][i] = p[2]
FirstErlang(p) == ErlangAt(p) = 1

VARIABLES
    pc,         \* where the process of each task is
    stats,      \* its SimStats
    req_num,    \* the request its engine is at
    bw_info,    \* the file bw_info_{thread}.json
    sim_input,  \* the erlang whose input sim_input_{thread}.json holds, 0 for none
    output      \* the files {erlang}_erlang.json of each thread

vars == <<pc, stats, req_num, bw_info, sim_input, output>>

Errors == {"JSONDecodeError", "AttributeError", "TypeError"}
Raised == Errors \union {"cancelled"}
Over == Raised \union {"finished"}

\* Where a task's files are.
InputFile_Shared(p) == CHOOSE t \in Threads : TRUE
InputFile(p) == p[1]
OutputFile(p) == p

\* A file that does not exist, is open for writing, or holds what was dumped.
File(state, content) == [state |-> state, content |-> content]
NoContent == SaveDict(NewStats)

Init ==
    /\ pc = [p \in Task |-> "submitted"]
    /\ stats = [p \in Task |-> NewStats]
    /\ req_num = [p \in Task |-> 1]
    /\ bw_info = [t \in Threads |-> "absent"]
    /\ sim_input = [t \in Threads |-> 0]
    /\ output = [p \in Task |-> File("absent", NoContent)]

Go(p, from, to) == pc[p] = from /\ pc' = [pc EXCEPT ![p] = to]

-----------------------------------------------------------------------------
\* The loop of run_generic_sim, or a submission to its pool: an exception of one
\* traffic volume is raised out of the loop, and those after it are never run.
Before(p) == {q \in Task : q[1] = p[1] /\ ErlangAt(q) < ErlangAt(p) /\ ~Options[p[1]].thread_erlangs}

Begin(p) ==
    /\ \A q \in Before(p) : pc[q] = "finished"
    /\ Go(p, "submitted", "create_input")
    /\ UNCHANGED <<stats, req_num, bw_info, sim_input, output>>

Cancel(p) ==
    /\ \E q \in Before(p) : pc[q] \in Raised
    /\ Go(p, "submitted", "cancelled")
    /\ UNCHANGED <<stats, req_num, bw_info, sim_input, output>>

\* create_input: save_input opens bw_info for writing and dumps it, then it is read back.
OpenInput(p) ==
    /\ Go(p, "create_input", "dump_input")
    /\ bw_info' = [bw_info EXCEPT ![InputFile(p)] = "empty"]
    /\ UNCHANGED <<stats, req_num, sim_input, output>>

DumpInput(p) ==
    /\ Go(p, "dump_input", "read_input")
    /\ bw_info' = [bw_info EXCEPT ![InputFile(p)] = "whole"]
    /\ UNCHANGED <<stats, req_num, sim_input, output>>

ReadInput(p) ==
    /\ Go(p, "read_input", IF bw_info[InputFile(p)] = "whole" THEN "engine" ELSE "JSONDecodeError")
    /\ sim_input' = IF bw_info[InputFile(p)] = "whole" /\ FirstErlang(p)
                    THEN [sim_input EXCEPT ![p[1]] = p[2]] ELSE sim_input
    /\ UNCHANGED <<stats, req_num, bw_info, output>>

-----------------------------------------------------------------------------
InitIter_Zero(p, i) ==
    /\ pc' = [pc EXCEPT ![p] = "requests"]
    /\ stats' = [stats EXCEPT ![p] = InitIterStats(@, 0)]
    /\ req_num' = [req_num EXCEPT ![p] = 1]

\* init_iter, which installs the signal handlers.
InitIter(p, i) ==
    /\ pc' = [pc EXCEPT ![p] = "requests"]
    /\ stats' = [stats EXCEPT ![p] = InitIterStats(@, i)]
    /\ req_num' = [req_num EXCEPT ![p] = 1]

StartEngine(p) ==
    /\ pc[p] = "engine"
    /\ InitIter(p, 0)
    /\ UNCHANGED <<bw_info, sim_input, output>>

\* handle_request of an arrival.  A snapshot compares the name of a band with 0.
SnapshotDue(p) == Options[p[1]].save_snapshots /\ req_num[p] \in SnapshotKeys

HandleRequest(p) ==
    /\ pc[p] = "requests" /\ req_num[p] <= NumRequests
    /\ \E o \in Outcome :
         /\ stats' = [stats EXCEPT ![p] = IterUpdate(@, o)]
         /\ pc' = [pc EXCEPT ![p] = IF ~CanUpdate(stats[p], o) THEN "AttributeError"
                                    ELSE IF SnapshotDue(p) THEN "TypeError" ELSE "requests"]
    /\ req_num' = [req_num EXCEPT ![p] = @ + 1]
    /\ UNCHANGED <<bw_info, sim_input, output>>

\* end_iter.  Iterations are counted from 0.
LastIteration(p) == stats[p].iteration + 1 = Options[p[1]].max_iters
StepDue(p) ==
    \/ (stats[p].iteration + 1) % Options[p[1]].save_step = 0
    \/ stats[p].iteration = 0
    \/ LastIteration(p)

SaveDue_ByStepOnly(p) == StepDue(p)
SaveDue(p) == StepDue(p) \/ Confident(EndIterUpdate(stats[p]))

EndIter(p) ==
    /\ pc[p] = "requests" /\ req_num[p] > NumRequests
    /\ stats' = [stats EXCEPT ![p] = EndIterUpdate(@)]
    /\ pc' = [pc EXCEPT ![p] = IF SaveDue(p) THEN "save" ELSE "next_iter"]
    /\ UNCHANGED <<req_num, bw_info, sim_input, output>>

\* save_stats.
OpenOutput(p) ==
    /\ Go(p, "save", "dump")
    /\ output' = [output EXCEPT ![OutputFile(p)] = File("empty", NoContent)]
    /\ UNCHANGED <<stats, req_num, bw_info, sim_input>>

DumpOutput(p) ==
    /\ Go(p, "dump", "next_iter")
    /\ output' = [output EXCEPT ![OutputFile(p)] = File("whole", SaveDict(stats[p]))]
    /\ UNCHANGED <<stats, req_num, bw_info, sim_input>>

\* The loop of run: the next iteration, or its end.
Ending(p) == LastIteration(p) \/ Confident(stats[p])

NextIter(p) ==
    /\ pc[p] = "next_iter" /\ ~Ending(p)
    /\ InitIter(p, stats[p].iteration + 1)
    /\ UNCHANGED <<bw_info, sim_input, output>>

Finish(p) ==
    /\ Ending(p)
    /\ Go(p, "next_iter", "finished")
    /\ UNCHANGED <<stats, req_num, bw_info, sim_input, output>>

\* The handler of SIGINT and SIGTERM is save_stats, called with one argument more than it
\* takes: it raises where the process is, a file that is open stays as it is.
Interrupt(p) ==
    /\ p[1] \in Interruptible
    /\ pc[p] \in {"requests", "save", "dump", "next_iter"}
    /\ pc' = [pc EXCEPT ![p] = "TypeError"]
    /\ UNCHANGED <<stats, req_num, bw_info, sim_input, output>>

Step(p) ==
    \/ Begin(p) \/ Cancel(p)
    \/ OpenInput(p) \/ DumpInput(p) \/ ReadInput(p)
    \/ StartEngine(p) \/ HandleRequest(p) \/ EndIter(p)
    \/ OpenOutput(p) \/ DumpOutput(p) \/ NextIter(p) \/ Finish(p)

\* run has collected every future.
Ended == (\A p \in Task : pc[p] \in Over) /\ UNCHANGED vars

Next == (\E p \in Task : Step(p) \/ Interrupt(p)) \/ Ended

Spec == Init /\ [][Next]_vars

\* Every process of the pool is scheduled; nobody need send a signal.
FairSpec == Spec /\ \A p \in Task : WF_vars(Step(p))

-----------------------------------------------------------------------------
\* A simulation fails for nothing another one does: not over an input file another
\* process is writing, not over statistics an earlier iteration has closed.
FailsAlone ==
    \A p \in Task :
        /\ pc[p] \notin {"JSONDecodeError", "AttributeError"}
        /\ pc[p] = "TypeError" => Options[p[1]].save_snapshots \/ p[1] \in Interruptible
        /\ pc[p] = "cancelled" => \E q \in Before(p) : pc[q] = "TypeError"

\* A simulation that has finished, by its last iteration or early by its confidence
\* interval, leaves on disk the statistics of its own last iteration and the blocking
\* of all its iterations; whatever interval results are saved at.
SavedWhenFinished ==
    \A p \in Task : pc[p] = "finished" =>
        /\ output[p] = File("whole", SaveDict(stats[p]))
        /\ Len(stats[p].sim_block_list) = stats[p].iteration + 1
        /\ Last(stats[p].sim_block_list) = stats[p].blocked_reqs

\* Every simulation of the batch comes to an end, so run gets to its last future.
BatchEnds == <>(\A p \in Task : pc[p] \in Over)

=============================================================================
