------------------------- MODULE SimulationsProofs --------------------------
(***************************************************************************)
(* That a simulation which has finished has left its results on disk, for    *)
(* every batch: any threads, options, volumes, numbers of requests and        *)
(* iterations, save steps, and signals.                                       *)
(***************************************************************************)
EXTENDS Simulations, TLAPS

\* What the proof needs to know of the statistics of a process.
Counts(s) ==
    /\ {"iteration", "blocked_reqs", "sim_block_list"} \subseteq DOMAIN s
    /\ s.iteration \in Nat
    /\ s.blocked_reqs \in Int
    /\ s.sim_block_list \in Seq(Int)

Typed ==
    /\ pc = [p \in Task |-> pc[p]]
    /\ stats = [p \in Task |-> stats[p]]
    /\ output = [p \in Task |-> output[p]]
    /\ \A p \in Task : Counts(stats[p])

\* An iteration adds one entry to the list of blocking when it ends; an iteration that is
\* the last has saved before the loop asks whether it is.
Closed(p) ==
    /\ Len(stats[p].sim_block_list) = stats[p].iteration + 1
    /\ Last(stats[p].sim_block_list) = stats[p].blocked_reqs

Saved(p) == output[p] = File("whole", SaveDict(stats[p]))

Kept(p) ==
    /\ pc[p] = "requests" => Len(stats[p].sim_block_list) = stats[p].iteration
    /\ pc[p] \in {"save", "dump", "next_iter", "finished"} => Closed(p)
    /\ pc[p] = "next_iter" /\ Ending(p) => Saved(p)
    /\ pc[p] = "finished" => Saved(p)

SavingInv == Typed /\ \A p \in Task : Kept(p)

-----------------------------------------------------------------------------
(* The operations on statistics. *)

\* A thread that starts counts its demands from nothing.
LEMMA NewStatsCounts == Counts(NewStats)
BY DEF NewStats, Counts

\* init_iter_stats empties the list of blocking in the first iteration and keeps it in
\* every other.
LEMMA InitIterStatsCounts ==
    ASSUME NEW s, Counts(s), NEW i \in Nat
    PROVE  /\ Counts(InitIterStats(s, i))
           /\ InitIterStats(s, i).iteration = i
           /\ InitIterStats(s, i).sim_block_list = IF i = 0 THEN <<>> ELSE s.sim_block_list
<1>1. DOMAIN InitIterStats(s, i) = DOMAIN s
    BY DEF InitIterStats, Counts
<1>2. InitIterStats(s, i).iteration = i /\ InitIterStats(s, i).blocked_reqs = 0
    BY DEF InitIterStats, Counts
<1>3. InitIterStats(s, i).sim_block_list = IF i = 0 THEN <<>> ELSE s.sim_block_list
    BY DEF InitIterStats, BlockListKept, Counts
<1> QED
    BY <1>1, <1>2, <1>3 DEF Counts

\* iter_update leaves the iteration and the list of blocking alone.
LEMMA IterUpdateCounts ==
    ASSUME NEW s, Counts(s), NEW o
    PROVE  /\ Counts(IterUpdate(s, o))
           /\ IterUpdate(s, o).iteration = s.iteration
           /\ IterUpdate(s, o).sim_block_list = s.sim_block_list
<1>1. DOMAIN IterUpdate(s, o) = DOMAIN s
    BY DEF IterUpdate, Counts
<1>2. IterUpdate(s, o).blocked_reqs \in {s.blocked_reqs, s.blocked_reqs + 1}
    BY DEF IterUpdate, Counts
<1>3. /\ IterUpdate(s, o).iteration = s.iteration
      /\ IterUpdate(s, o).sim_block_list = s.sim_block_list
    BY DEF IterUpdate, Counts
<1> QED
    BY <1>1, <1>2, <1>3 DEF Counts

\* end_iter_update appends the number of requests blocked in this iteration.
LEMMA EndIterUpdateCounts ==
    ASSUME NEW s, Counts(s)
    PROVE  /\ Counts(EndIterUpdate(s))
           /\ EndIterUpdate(s).iteration = s.iteration
           /\ Len(EndIterUpdate(s).sim_block_list) = Len(s.sim_block_list) + 1
           /\ Last(EndIterUpdate(s).sim_block_list) = EndIterUpdate(s).blocked_reqs
<1>1. DOMAIN EndIterUpdate(s) = DOMAIN s
    BY DEF EndIterUpdate, Counts
<1>2. EndIterUpdate(s).iteration = s.iteration /\ EndIterUpdate(s).blocked_reqs = s.blocked_reqs
    BY DEF EndIterUpdate, Counts
<1>3. EndIterUpdate(s).sim_block_list = Append(s.sim_block_list, s.blocked_reqs)
    BY DEF EndIterUpdate, Counts
<1>4. s.sim_block_list \in Seq(Int) /\ s.blocked_reqs \in Int
    BY DEF Counts
<1>5. /\ Len(Append(s.sim_block_list, s.blocked_reqs)) = Len(s.sim_block_list) + 1
      /\ Last(Append(s.sim_block_list, s.blocked_reqs)) = s.blocked_reqs
    BY <1>4 DEF Last
<1> QED
    BY <1>1, <1>2, <1>3, <1>4, <1>5 DEF Counts

-----------------------------------------------------------------------------
(* The steps of one process. *)

\* The invariant holds before any thread starts.
LEMMA SavingInit == Init => SavingInv
<1> SUFFICES ASSUME Init PROVE SavingInv
    OBVIOUS
<1>1. Typed
    BY NewStatsCounts DEF Init, Typed
<1>2. \A p \in Task : pc[p] = "submitted"
    BY DEF Init
<1> QED
    BY <1>1, <1>2 DEF SavingInv, Kept

\* A process whose place, statistics and file stay keeps what it has counted and saved.
LEMMA StaysKept ==
    ASSUME NEW q, Kept(q),
           pc'[q] = pc[q], stats'[q] = stats[q], output'[q] = output[q]
    PROVE  Kept(q)'
<1>1. (Closed(q)' <=> Closed(q)) /\ (Saved(q)' <=> Saved(q)) /\ (Ending(q)' <=> Ending(q))
    BY DEF Closed, Saved, Ending, LastIteration
<1> QED
    BY <1>1 DEF Kept

\* So a step of one process has to be looked at for that process only.
LEMMA OneProcess ==
    ASSUME SavingInv, NEW p \in Task, NEW place, NEW s, NEW file,
           pc' = [pc EXCEPT ![p] = place],
           stats' = [stats EXCEPT ![p] = s],
           output' = [output EXCEPT ![p] = file],
           Counts(s), Kept(p)'
    PROVE  SavingInv'
<1>1. Typed'
    BY DEF SavingInv, Typed
<1>2. \A q \in Task : q # p => pc'[q] = pc[q] /\ stats'[q] = stats[q] /\ output'[q] = output[q]
    BY DEF SavingInv, Typed
<1>3. \A q \in Task : q # p => Kept(q)'
    BY <1>2, StaysKept DEF SavingInv
<1> QED
    BY <1>1, <1>3 DEF SavingInv

\* A step to a place where nothing is claimed yet, or no more.
LEMMA ElsewhereKept ==
    ASSUME SavingInv, NEW p \in Task, NEW place,
           place \notin {"requests", "save", "dump", "next_iter", "finished"},
           pc' = [pc EXCEPT ![p] = place], UNCHANGED <<stats, output>>
    PROVE  SavingInv'
<1>1. pc'[p] = place
    BY DEF SavingInv, Typed
<1>2. Kept(p)'
    BY <1>1 DEF Kept
<1>3. stats' = [stats EXCEPT ![p] = stats[p]] /\ output' = [output EXCEPT ![p] = output[p]]
    BY DEF SavingInv, Typed
<1>4. Counts(stats[p])
    BY DEF SavingInv, Typed
<1> QED
    BY <1>2, <1>3, <1>4, OneProcess

\* init_iter: an iteration starts with as many entries as there were iterations.
LEMMA IterationStarts ==
    ASSUME SavingInv, NEW p \in Task, NEW i \in Nat, InitIter(p, i), UNCHANGED output,
           i # 0 => Len(stats[p].sim_block_list) = i
    PROVE  SavingInv'
<1> DEFINE s == InitIterStats(stats[p], i)
<1>1. Counts(stats[p])
    BY DEF SavingInv, Typed
<1>2. Counts(s) /\ s.iteration = i /\ Len(s.sim_block_list) = i
    BY <1>1, InitIterStatsCounts
<1> HIDE DEF s
<1>3. /\ pc' = [pc EXCEPT ![p] = "requests"]
      /\ stats' = [stats EXCEPT ![p] = s]
      /\ output' = [output EXCEPT ![p] = output[p]]
    BY DEF InitIter, SavingInv, Typed, s
<1>4. pc'[p] = "requests" /\ stats'[p] = s
    BY <1>3 DEF SavingInv, Typed
<1>5. Kept(p)'
    BY <1>2, <1>4 DEF Kept
<1> QED
    BY <1>2, <1>3, <1>5, OneProcess

\* A handled request keeps the invariant.
LEMMA SavingHandleRequest ==
    ASSUME SavingInv, NEW p \in Task, HandleRequest(p)
    PROVE  SavingInv'
<1>1. PICK o \in Outcome :
         /\ stats' = [stats EXCEPT ![p] = IterUpdate(@, o)]
         /\ pc' = [pc EXCEPT ![p] = IF ~CanUpdate(stats[p], o) THEN "AttributeError"
                                    ELSE IF SnapshotDue(p) THEN "TypeError" ELSE "requests"]
    BY DEF HandleRequest
<1>2. pc[p] = "requests" /\ output' = output
    BY DEF HandleRequest
<1> DEFINE s == IterUpdate(stats[p], o)
<1>3. Counts(stats[p]) /\ Len(stats[p].sim_block_list) = stats[p].iteration
    BY <1>2 DEF SavingInv, Typed, Kept
<1>4. Counts(s) /\ Len(s.sim_block_list) = s.iteration
    BY <1>3, IterUpdateCounts
<1>5. PICK place \in {"AttributeError", "TypeError", "requests"} :
         /\ pc' = [pc EXCEPT ![p] = place]
         /\ stats' = [stats EXCEPT ![p] = s]
         /\ output' = [output EXCEPT ![p] = output[p]]
    BY <1>1, <1>2 DEF SavingInv, Typed
<1> HIDE DEF s
<1>6. pc'[p] = place /\ stats'[p] = s
    BY <1>5 DEF SavingInv, Typed
<1>7. Kept(p)'
    BY <1>4, <1>6 DEF Kept
<1> QED
    BY <1>4, <1>5, <1>7, OneProcess

\* end_iter skips the save only in an iteration that is neither the last nor confident.
LEMMA SavingEndIter ==
    ASSUME SavingInv, NEW p \in Task, EndIter(p)
    PROVE  SavingInv'
<1> DEFINE s == EndIterUpdate(stats[p])
           place == IF SaveDue(p) THEN "save" ELSE "next_iter"
<1>1. Counts(stats[p]) /\ Len(stats[p].sim_block_list) = stats[p].iteration
    BY DEF SavingInv, Typed, Kept, EndIter
<1>2. /\ Counts(s) /\ s.iteration = stats[p].iteration
      /\ Len(s.sim_block_list) = s.iteration + 1
      /\ Last(s.sim_block_list) = s.blocked_reqs
    BY <1>1, EndIterUpdateCounts
<1>3. /\ pc' = [pc EXCEPT ![p] = place]
      /\ stats' = [stats EXCEPT ![p] = s]
      /\ output' = [output EXCEPT ![p] = output[p]]
    BY DEF EndIter, SavingInv, Typed
<1>4. pc'[p] = place /\ stats'[p] = s
    BY <1>3 DEF SavingInv, Typed
<1>5. ~SaveDue(p) => ~Ending(p)'
    <2>1. ~SaveDue(p) => ~LastIteration(p) /\ ~Confident(s)
        BY DEF SaveDue, StepDue
    <2>2. LastIteration(p)' <=> LastIteration(p)
        BY <1>2, <1>4 DEF LastIteration
    <2> HIDE DEF s, place
    <2>3. Ending(p)' <=> LastIteration(p)' \/ Confident(s)
        BY <1>4 DEF Ending
    <2> QED
        BY <2>1, <2>2, <2>3
<1>6. Closed(p)'
    <2> HIDE DEF s, place
    <2> QED
        BY <1>2, <1>4 DEF Closed
<1>7. Kept(p)'
    <2> HIDE DEF s
    <2> QED
        BY <1>4, <1>5, <1>6 DEF Kept
<1> HIDE DEF s, place
<1> QED
    BY <1>2, <1>3, <1>7, OneProcess

\* save_stats: the file is empty before it is whole, and the loop goes on after that.
LEMMA SavingOpenOutput ==
    ASSUME SavingInv, NEW p \in Task, OpenOutput(p)
    PROVE  SavingInv'
<1>1. /\ pc' = [pc EXCEPT ![p] = "dump"]
      /\ stats' = [stats EXCEPT ![p] = stats[p]]
      /\ output' = [output EXCEPT ![p] = File("empty", NoContent)]
    BY DEF OpenOutput, Go, OutputFile, SavingInv, Typed
<1>2. Counts(stats[p]) /\ Closed(p)
    BY DEF OpenOutput, Go, SavingInv, Typed, Kept
<1>3. pc'[p] = "dump" /\ stats'[p] = stats[p]
    BY <1>1 DEF SavingInv, Typed
<1>4. Closed(p)'
    BY <1>2, <1>3 DEF Closed
<1>5. Kept(p)'
    BY <1>3, <1>4 DEF Kept
<1> QED
    BY <1>1, <1>2, <1>5, OneProcess

\* Writing the results keeps the invariant.
LEMMA SavingDumpOutput ==
    ASSUME SavingInv, NEW p \in Task, DumpOutput(p)
    PROVE  SavingInv'
<1> DEFINE file == File("whole", SaveDict(stats[p]))
<1>1. /\ pc' = [pc EXCEPT ![p] = "next_iter"]
      /\ stats' = [stats EXCEPT ![p] = stats[p]]
      /\ output' = [output EXCEPT ![p] = file]
    BY DEF DumpOutput, Go, OutputFile, SavingInv, Typed
<1>2. Counts(stats[p]) /\ Closed(p)
    BY DEF DumpOutput, Go, SavingInv, Typed, Kept
<1>3. pc'[p] = "next_iter" /\ stats'[p] = stats[p] /\ output'[p] = file
    BY <1>1 DEF SavingInv, Typed
<1>4. Closed(p)' /\ Saved(p)'
    BY <1>2, <1>3 DEF Closed, Saved
<1>5. Kept(p)'
    BY <1>3, <1>4 DEF Kept
<1> HIDE DEF file
<1> QED
    BY <1>1, <1>2, <1>5, OneProcess

\* Finishing an iteration keeps the invariant.
LEMMA SavingFinish ==
    ASSUME SavingInv, NEW p \in Task, Finish(p)
    PROVE  SavingInv'
<1>1. /\ pc' = [pc EXCEPT ![p] = "finished"]
      /\ stats' = [stats EXCEPT ![p] = stats[p]]
      /\ output' = [output EXCEPT ![p] = output[p]]
    BY DEF Finish, Go, SavingInv, Typed
<1>2. Counts(stats[p]) /\ Closed(p) /\ Saved(p)
    BY DEF Finish, Go, SavingInv, Typed, Kept
<1>3. pc'[p] = "finished" /\ stats'[p] = stats[p] /\ output'[p] = output[p]
    BY <1>1 DEF SavingInv, Typed
<1>4. Closed(p)' /\ Saved(p)'
    BY <1>2, <1>3 DEF Closed, Saved
<1>5. Kept(p)'
    BY <1>3, <1>4 DEF Kept
<1> QED
    BY <1>1, <1>2, <1>5, OneProcess

-----------------------------------------------------------------------------
\* Every step of one process keeps the invariant.
LEMMA SavingStep ==
    ASSUME SavingInv, NEW p \in Task, Step(p) \/ Interrupt(p)
    PROVE  SavingInv'
<1>1. CASE Begin(p)
    BY <1>1, ElsewhereKept DEF Begin, Go
<1>2. CASE Cancel(p)
    BY <1>2, ElsewhereKept DEF Cancel, Go
<1>3. CASE OpenInput(p)
    BY <1>3, ElsewhereKept DEF OpenInput, Go
<1>4. CASE DumpInput(p)
    BY <1>4, ElsewhereKept DEF DumpInput, Go
<1>5. CASE ReadInput(p)
    BY <1>5, ElsewhereKept DEF ReadInput, Go
<1>6. CASE StartEngine(p)
    BY <1>6, IterationStarts DEF StartEngine
<1>7. CASE NextIter(p)
    <2>1. stats[p].iteration \in Nat /\ Len(stats[p].sim_block_list) = stats[p].iteration + 1
        BY <1>7 DEF NextIter, SavingInv, Typed, Counts, Kept, Closed
    <2> QED
        BY <1>7, <2>1, IterationStarts DEF NextIter
<1>8. CASE Interrupt(p)
    BY <1>8, ElsewhereKept DEF Interrupt
<1> QED
    BY <1>1, <1>2, <1>3, <1>4, <1>5, <1>6, <1>7, <1>8, SavingHandleRequest, SavingEndIter,
       SavingOpenOutput, SavingDumpOutput, SavingFinish DEF Step

\* Every step keeps the invariant.
LEMMA SavingNext ==
    ASSUME SavingInv, [Next]_vars
    PROVE  SavingInv'
<1>1. CASE UNCHANGED vars
    <2>1. UNCHANGED <<pc, stats, output>>
        BY <1>1 DEF vars
    <2>2. Typed'
        BY <2>1 DEF SavingInv, Typed
    <2>3. \A p \in Task : Kept(p)'
        BY <2>1, StaysKept DEF SavingInv
    <2> QED
        BY <2>2, <2>3 DEF SavingInv
<1> QED
    BY <1>1, SavingStep DEF Next, Ended

\* A simulation that has finished, after its last iteration or early, has its results in
\* its file, whole and of its own last iteration, whatever the save step, and no other
\* simulation of the batch has written over them (end_iter, get_conf_inter, save_stats).
THEOREM ResultsAreSaved == Spec => []SavedWhenFinished
<1>1. SavingInv => SavedWhenFinished
    BY DEF SavingInv, Kept, Closed, Saved, SavedWhenFinished
<1> QED
    BY <1>1, SavingInit, SavingNext, PTL DEF Spec

-----------------------------------------------------------------------------

(* One simulation does not fail for another. *)

\* No thread runs its traffic volumes side by side.
OneVolumeAtATime == \A t \in Threads : ~Options[t].thread_erlangs

\* What init_iter_stats finds of the lists: not there yet, lists, or turned into means.
Listed(s) ==
    /\ {"lengths", "weights"} \subseteq DOMAIN s
    /\ \A m \in Mod : s.lengths[m] \in {"absent", "list", "means"}

\* They are lists that iter_update can append to.
Open(s) == \A m \in Mod : s.lengths[m] = "list" /\ s.weights[m] = "list"

\* A task has begun only if those before it are finished.
InTurn == \A p \in Task :
    pc[p] \notin {"submitted", "cancelled"} => \A q \in Before(p) : pc[q] = "finished"

\* The input is whole when it is read, and the statistics are open when a request is counted.
AloneInv ==
    /\ InTurn
    /\ \A p \in Task : pc[p] = "read_input" => bw_info[p[1]] = "whole"
    /\ \A p \in Task : Listed(stats[p]) /\ (pc[p] = "requests" => Open(stats[p]))
    /\ FailsAlone
    /\ bw_info = [t \in Threads |-> bw_info[t]]

\* The place of a task among the volumes of its thread.
LEMMA ErlangAtIs ==
    ASSUME NEW p \in Task
    PROVE  p[1] \in Threads /\ ErlangAt(p) \in Nat /\ Erlangs[p[1]][ErlangAt(p)] = p[2]
           /\ p = <<p[1], p[2]>>
<1>1. PICK t \in Threads : p \in {t} \X ToSet(Erlangs[t])
    BY DEF Task
<1>2. p[1] = t /\ p[2] \in ToSet(Erlangs[t]) /\ p = <<p[1], p[2]>>
    BY <1>1
<1>3. PICK i \in DOMAIN Erlangs[t] : Erlangs[t][i] = p[2]
    BY <1>2 DEF ToSet
<1>4. ErlangAt(p) \in DOMAIN Erlangs[t] /\ Erlangs[t][ErlangAt(p)] = p[2]
    BY <1>2, <1>3 DEF ErlangAt
<1>5. PICK n : DOMAIN Erlangs[t] = 1..n
    BY DEF Erlangs, ErlangList
<1>6. ErlangAt(p) \in Nat
    BY <1>4, <1>5
<1> QED
    BY <1>2, <1>4, <1>6

\* Of two tasks of a thread one goes before the other.
LEMMA OneGoesBefore ==
    ASSUME OneVolumeAtATime, NEW p \in Task, NEW q \in Task, p # q, p[1] = q[1]
    PROVE  p \in Before(q) \/ q \in Before(p)
<1>1. p[2] # q[2]
    BY ErlangAtIs
<1>2. ErlangAt(p) # ErlangAt(q) /\ ErlangAt(p) \in Nat /\ ErlangAt(q) \in Nat
    BY <1>1, ErlangAtIs
<1>3. p[1] \in Threads
    BY ErlangAtIs
<1>4. ErlangAt(p) < ErlangAt(q) \/ ErlangAt(q) < ErlangAt(p)
    BY <1>2
<1> QED
    BY <1>3, <1>4 DEF Before, OneVolumeAtATime

\* What goes before a task also goes before those after it.
LEMMA BeforeIsTransitive ==
    ASSUME NEW p \in Task, NEW q \in Before(p), NEW r \in Before(q)
    PROVE  r \in Before(p)
<1>1. /\ q \in Task /\ q[1] = p[1] /\ ErlangAt(q) < ErlangAt(p) /\ ~Options[p[1]].thread_erlangs
      /\ r \in Task /\ r[1] = q[1] /\ ErlangAt(r) < ErlangAt(q)
    BY DEF Before
<1>2. ErlangAt(p) \in Nat /\ ErlangAt(q) \in Nat /\ ErlangAt(r) \in Nat
    BY <1>1, ErlangAtIs
<1> QED
    BY <1>1, <1>2 DEF Before

\* A task that moves on leaves the turns and the failures of the others as they are.
LEMMA OthersStay ==
    ASSUME SavingInv, AloneInv, NEW p \in Task, NEW place, pc' = [pc EXCEPT ![p] = place],
           pc[p] \notin Over,
           pc[p] # "submitted" \/ place = "cancelled" \/ \A q \in Before(p) : pc[q] = "finished"
    PROVE  /\ InTurn'
           /\ pc'[p] = place
           /\ \A r \in Task : r # p => pc'[r] = pc[r]
           /\ \A r \in Task : pc[r] = "TypeError" => pc'[r] = "TypeError"
<1>1. pc'[p] = place /\ \A r \in Task : r # p => pc'[r] = pc[r]
    BY DEF SavingInv, Typed
<1>2. \A r \in Task : pc[r] \in {"finished", "TypeError"} => pc'[r] = pc[r]
    BY <1>1 DEF Over, Raised, Errors
<1>3. ASSUME NEW r \in Task, pc'[r] \notin {"submitted", "cancelled"}, NEW q \in Before(r)
      PROVE  pc'[q] = "finished"
    <2>1. q \in Task
        BY DEF Before
    <2>2. pc[q] = "finished"
        <3>1. CASE r # p
            BY <1>1, <1>3, <3>1 DEF AloneInv, InTurn
        <3>2. CASE r = p
            BY <1>1, <1>3, <3>2 DEF AloneInv, InTurn, Over, Raised
        <3> QED
            BY <3>1, <3>2
    <2> QED
        BY <1>2, <2>1, <2>2
<1> QED
    BY <1>1, <1>2, <1>3 DEF InTurn

\* So a step of one process has to be looked at for that process, and for the input file.
LEMMA AloneStep ==
    ASSUME SavingInv, AloneInv, NEW p \in Task, NEW place, pc' = [pc EXCEPT ![p] = place],
           pc[p] \notin Over,
           pc[p] # "submitted" \/ place = "cancelled" \/ \A q \in Before(p) : pc[q] = "finished",
           NEW s, stats' = [stats EXCEPT ![p] = s], Listed(s), place = "requests" => Open(s),
           place \notin {"JSONDecodeError", "AttributeError"},
           place = "TypeError" => Options[p[1]].save_snapshots \/ p[1] \in Interruptible,
           place = "cancelled" => \E q \in Before(p) : pc[q] = "TypeError",
           bw_info' = [t \in Threads |-> bw_info'[t]],
           \A q \in Task : pc'[q] = "read_input" => bw_info'[q[1]] = "whole"
    PROVE  AloneInv'
<1>1. /\ InTurn'
      /\ pc'[p] = place
      /\ \A r \in Task : r # p => pc'[r] = pc[r]
      /\ \A r \in Task : pc[r] = "TypeError" => pc'[r] = "TypeError"
    BY OthersStay
<1>2. stats'[p] = s /\ \A r \in Task : r # p => stats'[r] = stats[r]
    BY DEF SavingInv, Typed
<1>3. \A r \in Task : Listed(stats'[r]) /\ (pc'[r] = "requests" => Open(stats'[r]))
    BY <1>1, <1>2 DEF AloneInv
<1>4. ASSUME NEW r \in Task
      PROVE  /\ pc'[r] \notin {"JSONDecodeError", "AttributeError"}
             /\ pc'[r] = "TypeError" => Options[r[1]].save_snapshots \/ r[1] \in Interruptible
    BY <1>1 DEF AloneInv, FailsAlone
<1>5. ASSUME NEW r \in Task, pc'[r] = "cancelled"
      PROVE  \E q \in Before(r) : pc'[q] = "TypeError"
    <2>1. PICK q \in Before(r) : pc[q] = "TypeError"
        BY <1>1, <1>5 DEF AloneInv, FailsAlone
    <2>2. q \in Task
        BY DEF Before
    <2> QED
        BY <1>1, <2>1, <2>2
<1>6. FailsAlone'
    BY <1>4, <1>5 DEF FailsAlone
<1> QED
    BY <1>1, <1>3, <1>6 DEF AloneInv

\* init_iter_stats opens the lists, and end_iter_update closes them.
LEMMA ListsOfAnIteration ==
    ASSUME NEW s, Listed(s), NEW i, NEW o
    PROVE  /\ Listed(InitIterStats(s, i)) /\ Open(InitIterStats(s, i))
           /\ Listed(IterUpdate(s, o)) /\ (Open(s) => Open(IterUpdate(s, o)))
           /\ Listed(EndIterUpdate(s))
<1>1. /\ DOMAIN InitIterStats(s, i) = DOMAIN s /\ DOMAIN IterUpdate(s, o) = DOMAIN s
      /\ DOMAIN EndIterUpdate(s) = DOMAIN s
    BY DEF InitIterStats, IterUpdate, EndIterUpdate
<1>2. /\ InitIterStats(s, i).weights = [m \in Mod |-> "list"]
      /\ InitIterStats(s, i).lengths = LengthsReset(s.lengths)
    BY DEF InitIterStats, Listed
<1>3. IterUpdate(s, o).lengths = s.lengths /\ IterUpdate(s, o).weights = s.weights
    BY DEF IterUpdate, Listed
<1>4. EndIterUpdate(s).lengths = [m \in Mod |-> "means"]
    BY DEF EndIterUpdate, Listed
<1>5. \A m \in Mod : LengthsReset(s.lengths)[m] = "list"
    BY DEF LengthsReset, Listed
<1> QED
    BY <1>1, <1>2, <1>3, <1>4, <1>5 DEF Listed, Open

\* A step that leaves the statistics and the input files alone.
LEMMA AloneMove ==
    ASSUME SavingInv, AloneInv, NEW p \in Task, NEW place, pc' = [pc EXCEPT ![p] = place],
           pc[p] \notin Over,
           pc[p] # "submitted" \/ place = "cancelled" \/ \A q \in Before(p) : pc[q] = "finished",
           UNCHANGED <<stats, bw_info>>,
           place \notin {"JSONDecodeError", "AttributeError", "read_input", "requests"},
           place = "TypeError" => Options[p[1]].save_snapshots \/ p[1] \in Interruptible,
           place = "cancelled" => \E q \in Before(p) : pc[q] = "TypeError"
    PROVE  AloneInv'
<1>1. stats' = [stats EXCEPT ![p] = stats[p]]
    BY DEF SavingInv, Typed
<1>2. Listed(stats[p]) /\ bw_info' = [t \in Threads |-> bw_info'[t]]
    BY DEF AloneInv
<1>3. \A q \in Task : pc'[q] = "read_input" => bw_info'[q[1]] = "whole"
    BY OthersStay DEF AloneInv
<1> QED
    BY <1>1, <1>2, <1>3, AloneStep

\* An exception of a volume before this one was none of a shared file or of statistics.
LEMMA AloneCancel ==
    ASSUME SavingInv, AloneInv, NEW p \in Task, Cancel(p)
    PROVE  AloneInv'
<1>1. PICK q \in Before(p) : pc[q] \in Raised
    BY DEF Cancel
<1>2. q \in Task
    BY DEF Before
<1>3. pc[q] \in {"TypeError", "cancelled"}
    BY <1>1, <1>2 DEF AloneInv, FailsAlone, Raised, Errors
<1>4. \E r \in Before(p) : pc[r] = "TypeError"
    <2>1. CASE pc[q] = "TypeError"
        BY <2>1
    <2>2. CASE pc[q] = "cancelled"
        <3>1. PICK r \in Before(q) : pc[r] = "TypeError"
            BY <1>2, <2>2 DEF AloneInv, FailsAlone
        <3> QED
            BY <3>1, BeforeIsTransitive
    <2> QED
        BY <1>3, <2>1, <2>2
<1>5. /\ pc' = [pc EXCEPT ![p] = "cancelled"] /\ pc[p] = "submitted"
      /\ UNCHANGED <<stats, bw_info>>
    BY DEF Cancel, Go
<1>6. pc[p] \notin Over
    BY <1>5 DEF Over, Raised, Errors
<1> QED
    BY <1>4, <1>5, <1>6, AloneMove

\* No other task of the thread reads the file while it is written: it is this one's turn.
LEMMA AloneInput ==
    ASSUME OneVolumeAtATime, SavingInv, AloneInv, NEW p \in Task, OpenInput(p) \/ DumpInput(p)
    PROVE  AloneInv'
<1>1. PICK place \in {"dump_input", "read_input"}, content \in {"empty", "whole"} :
          /\ pc' = [pc EXCEPT ![p] = place]
          /\ bw_info' = [bw_info EXCEPT ![p[1]] = content]
          /\ place = "read_input" => content = "whole"
    BY DEF OpenInput, DumpInput, Go, InputFile
<1>2. pc[p] \in {"create_input", "dump_input"} /\ stats' = stats
    BY DEF OpenInput, DumpInput, Go
<1>3. pc[p] \notin Over /\ pc[p] \notin {"submitted", "cancelled"}
    BY <1>2 DEF Over, Raised, Errors
<1>4. p[1] \in Threads
    BY ErlangAtIs
<1>5. bw_info'[p[1]] = content /\ \A t \in Threads : t # p[1] => bw_info'[t] = bw_info[t]
    BY <1>1, <1>4 DEF AloneInv
<1>6. pc'[p] = place /\ \A r \in Task : r # p => pc'[r] = pc[r]
    BY <1>1 DEF SavingInv, Typed
<1>7. ASSUME NEW q \in Task, pc'[q] = "read_input"
      PROVE  bw_info'[q[1]] = "whole"
    <2>1. CASE q = p
        BY <1>1, <1>5, <1>6, <1>7, <2>1
    <2>2. CASE q # p /\ q[1] # p[1]
        <3>1. q[1] \in Threads
            BY ErlangAtIs
        <3> QED
            BY <1>5, <1>6, <1>7, <2>2, <3>1 DEF AloneInv
    <2>3. CASE q # p /\ q[1] = p[1]
        <3>1. pc[q] = "read_input"
            BY <1>6, <1>7, <2>3
        <3>2. p \in Before(q) \/ q \in Before(p)
            BY <2>3, OneGoesBefore
        <3>3. pc[p] = "finished" \/ pc[q] = "finished"
            BY <1>3, <3>1, <3>2 DEF AloneInv, InTurn
        <3> QED
            BY <1>2, <3>1, <3>3
    <2> QED
        BY <2>1, <2>2, <2>3
<1>8. stats' = [stats EXCEPT ![p] = stats[p]] /\ Listed(stats[p])
    BY <1>2 DEF SavingInv, Typed, AloneInv
<1>9. bw_info' = [t \in Threads |-> bw_info'[t]]
    BY <1>1 DEF AloneInv
<1>10. /\ place \notin {"JSONDecodeError", "AttributeError", "requests", "TypeError", "cancelled"}
    OBVIOUS
<1> QED
    BY <1>1, <1>3, <1>7, <1>8, <1>9, <1>10, AloneStep

\* An iteration opens the statistics the one before it has closed.
LEMMA AloneInitIter ==
    ASSUME SavingInv, AloneInv, NEW p \in Task, NEW i, InitIter(p, i), UNCHANGED bw_info,
           pc[p] \in {"engine", "next_iter"}
    PROVE  AloneInv'
<1> PICK s : s = InitIterStats(stats[p], i)
    OBVIOUS
<1> PICK place : place = "requests"
    OBVIOUS
<1>1. pc' = [pc EXCEPT ![p] = place] /\ stats' = [stats EXCEPT ![p] = s]
    BY DEF InitIter
<1>2. Listed(s) /\ Open(s)
    BY ListsOfAnIteration DEF AloneInv
<1>3. pc[p] \notin Over /\ pc[p] # "submitted"
    BY DEF Over, Raised, Errors
<1>4. \A r \in Task : pc'[r] = "read_input" => pc[r] = "read_input"
    BY <1>1 DEF SavingInv, Typed
<1>5. /\ bw_info' = [t \in Threads |-> bw_info'[t]]
      /\ \A r \in Task : pc'[r] = "read_input" => bw_info'[r[1]] = "whole"
    BY <1>4 DEF AloneInv
<1>6. place \notin {"JSONDecodeError", "AttributeError", "TypeError", "cancelled"}
    OBVIOUS
<1> QED
    BY <1>1, <1>2, <1>3, <1>5, <1>6, AloneStep, Zenon

\* The lists a request is appended to are open, so only a snapshot can raise.
LEMMA AloneHandleRequest ==
    ASSUME SavingInv, AloneInv, NEW p \in Task, HandleRequest(p)
    PROVE  AloneInv'
<1>1. PICK o \in Outcome :
         /\ stats' = [stats EXCEPT ![p] = IterUpdate(stats[p], o)]
         /\ pc' = [pc EXCEPT ![p] = IF ~CanUpdate(stats[p], o) THEN "AttributeError"
                                    ELSE IF SnapshotDue(p) THEN "TypeError" ELSE "requests"]
    BY DEF HandleRequest
<1>2. pc[p] = "requests" /\ bw_info' = bw_info
    BY DEF HandleRequest
<1>3. Listed(stats[p]) /\ Open(stats[p])
    BY <1>2 DEF AloneInv
<1>4. CanUpdate(stats[p], o)
    BY <1>3 DEF Open, CanUpdate, Outcome
<1>5. PICK place \in {"TypeError", "requests"} :
         pc' = [pc EXCEPT ![p] = place] /\ (place = "TypeError" => Options[p[1]].save_snapshots)
    BY <1>1, <1>4 DEF SnapshotDue
<1> PICK s : s = IterUpdate(stats[p], o)
    OBVIOUS
<1>6. Listed(s) /\ Open(s)
    BY <1>3, ListsOfAnIteration
<1>7. pc[p] \notin Over /\ pc[p] # "submitted"
    BY <1>2 DEF Over, Raised, Errors
<1>8. \A r \in Task : pc'[r] = "read_input" => pc[r] = "read_input"
    BY <1>5 DEF SavingInv, Typed
<1>9. /\ bw_info' = [t \in Threads |-> bw_info'[t]]
      /\ \A r \in Task : pc'[r] = "read_input" => bw_info'[r[1]] = "whole"
    BY <1>2, <1>8 DEF AloneInv
<1>10. stats' = [stats EXCEPT ![p] = s]
    BY <1>1
<1> QED
    BY <1>5, <1>6, <1>7, <1>9, <1>10, AloneStep

\* An iteration that ends leaves lists that the next can open.
LEMMA AloneEndIter ==
    ASSUME SavingInv, AloneInv, NEW p \in Task, EndIter(p)
    PROVE  AloneInv'
<1> PICK s : s = EndIterUpdate(stats[p])
    OBVIOUS
<1>1. PICK place \in {"save", "next_iter"} : pc' = [pc EXCEPT ![p] = place]
    BY DEF EndIter
<1>2. pc[p] = "requests" /\ bw_info' = bw_info /\ stats' = [stats EXCEPT ![p] = s]
    BY DEF EndIter
<1>3. Listed(s)
    BY ListsOfAnIteration DEF AloneInv
<1>4. pc[p] \notin Over /\ pc[p] # "submitted"
    BY <1>2 DEF Over, Raised, Errors
<1>5. \A r \in Task : pc'[r] = "read_input" => pc[r] = "read_input"
    BY <1>1 DEF SavingInv, Typed
<1> QED
    BY <1>1, <1>2, <1>3, <1>4, <1>5, AloneStep DEF AloneInv

\* Every step of a process keeps it.
LEMMA AloneProcess ==
    ASSUME OneVolumeAtATime, SavingInv, AloneInv, NEW p \in Task, Step(p) \/ Interrupt(p)
    PROVE  AloneInv'
<1>1. CASE Begin(p)
    <2>1. /\ pc' = [pc EXCEPT ![p] = "create_input"] /\ pc[p] = "submitted"
          /\ UNCHANGED <<stats, bw_info>> /\ \A q \in Before(p) : pc[q] = "finished"
        BY <1>1 DEF Begin, Go
    <2>2. pc[p] \notin Over
        BY <2>1 DEF Over, Raised, Errors
    <2> QED
        BY <2>1, <2>2, AloneMove
<1>2. CASE ReadInput(p)
    <2>1. pc[p] = "read_input" /\ bw_info[p[1]] = "whole"
        BY <1>2 DEF ReadInput, Go, AloneInv
    <2>2. pc' = [pc EXCEPT ![p] = "engine"] /\ UNCHANGED <<stats, bw_info>>
        BY <1>2, <2>1 DEF ReadInput, Go, InputFile
    <2>3. pc[p] \notin Over /\ pc[p] # "submitted"
        BY <2>1 DEF Over, Raised, Errors
    <2> QED
        BY <2>2, <2>3, AloneMove
<1>3. CASE OpenOutput(p) \/ DumpOutput(p) \/ Finish(p)
    <2>1. PICK place \in {"dump", "next_iter", "finished"} : pc' = [pc EXCEPT ![p] = place]
        BY <1>3 DEF OpenOutput, DumpOutput, Finish, Go
    <2>2. pc[p] \in {"save", "dump", "next_iter"} /\ UNCHANGED <<stats, bw_info>>
        BY <1>3 DEF OpenOutput, DumpOutput, Finish, Go
    <2>3. pc[p] \notin Over /\ pc[p] # "submitted"
        BY <2>2 DEF Over, Raised, Errors
    <2> QED
        BY <2>1, <2>2, <2>3, AloneMove
<1>4. CASE Interrupt(p)
    <2>1. /\ pc' = [pc EXCEPT ![p] = "TypeError"] /\ UNCHANGED <<stats, bw_info>>
          /\ p[1] \in Interruptible /\ pc[p] \in {"requests", "save", "dump", "next_iter"}
        BY <1>4 DEF Interrupt
    <2>2. pc[p] \notin Over /\ pc[p] # "submitted"
        BY <2>1 DEF Over, Raised, Errors
    <2> QED
        BY <2>1, <2>2, AloneMove
<1>5. CASE StartEngine(p)
    BY <1>5, AloneInitIter DEF StartEngine
<1>6. CASE NextIter(p)
    BY <1>6, AloneInitIter DEF NextIter
<1> QED
    BY <1>1, <1>2, <1>3, <1>4, <1>5, <1>6, AloneCancel, AloneInput, AloneHandleRequest, AloneEndIter
       DEF Step

\* When no thread runs its volumes side by side, a simulation of a batch raises only for
\* its own snapshots or a signal, and is cancelled only after such a one (run_generic_sim,
\* create_input, init_iter_stats, iter_update).
THEOREM SimulationsFailAlone ==
    ASSUME OneVolumeAtATime
    PROVE  Spec => []FailsAlone
<1>1. Init => AloneInv
    <2> SUFFICES ASSUME Init
                 PROVE  AloneInv
        OBVIOUS
    <2>1. \A p \in Task : pc[p] = "submitted" /\ stats[p] = NewStats
        BY DEF Init
    <2>2. Listed(NewStats)
        BY DEF NewStats, Listed
    <2>3. bw_info = [t \in Threads |-> bw_info[t]]
        BY DEF Init
    <2> QED
        BY <2>1, <2>2, <2>3 DEF AloneInv, InTurn, FailsAlone
<1>2. SavingInv /\ AloneInv /\ [Next]_vars => SavingInv' /\ AloneInv'
    <2> SUFFICES ASSUME SavingInv, AloneInv, [Next]_vars
                 PROVE  AloneInv'
        BY SavingNext
    <2>1. CASE UNCHANGED vars \/ Ended
        BY <2>1 DEF AloneInv, InTurn, FailsAlone, vars, Ended
    <2> QED
        BY <2>1, AloneProcess DEF Next
<1>3. AloneInv => FailsAlone
    BY DEF AloneInv
<1> QED
    BY <1>1, <1>2, <1>3, SavingInit, PTL DEF Spec
-----------------------------------------------------------------------------
(* A batch is finite. *)

InIteration == {"requests", "save", "dump", "next_iter"}
Place == {"submitted", "create_input", "dump_input", "read_input", "engine"} \union InIteration \union Over

\* A process is in one of the iterations it was asked for, and handles as many requests.
WithinBounds(p) ==
    /\ pc[p] \in Place
    /\ pc[p] \in InIteration => /\ stats[p].iteration <= Options[p[1]].max_iters - 1
                                /\ req_num[p] \in 1..(NumRequests + 1)

BoundsInv == req_num = [p \in Task |-> req_num[p]] /\ \A p \in Task : WithinBounds(p)

\* The steps a process has before it at most: of the iterations to come, and of its place
\* in the present one or before the first.
StepsOfIteration == NumRequests + 5
IterationsToCome(p) == IF pc[p] \in InIteration THEN Options[p[1]].max_iters - 1 - stats[p].iteration
                       ELSE IF pc[p] \in Over THEN 0 ELSE Options[p[1]].max_iters
StepsOfPlace(p) ==
    CASE pc[p] = "submitted"    -> 4
      [] pc[p] = "create_input" -> 3
      [] pc[p] = "dump_input"   -> 2
      [] pc[p] = "read_input"   -> 1
      [] pc[p] = "requests"     -> NumRequests + 5 - req_num[p]
      [] pc[p] = "save"         -> 3
      [] pc[p] = "dump"         -> 2
      [] pc[p] = "next_iter"    -> 1
      [] OTHER                  -> 0
StepsLeft(p) == IterationsToCome(p) * StepsOfIteration + StepsOfPlace(p)

\* The numbers that are multiplied and added.
LEMMA StepsLeftIs ==
    ASSUME SavingInv, BoundsInv, NEW p \in Task
    PROVE  /\ IterationsToCome(p) \in Nat /\ StepsOfIteration \in Nat /\ StepsOfPlace(p) \in Nat
           /\ StepsLeft(p) \in Nat
           /\ pc[p] \notin Over => StepsLeft(p) # 0
<1>1. p[1] \in Threads
    BY DEF Task
<1>2. NumRequests \in Nat \ {0} /\ Options[p[1]].max_iters \in Nat \ {0} /\ stats[p].iteration \in Nat
    BY <1>1, StatsAssumption, SimulationsAssumption DEF SavingInv, Typed, Counts
<1>3. WithinBounds(p)
    BY DEF BoundsInv
<1>4. PICK i \in Nat : i = IterationsToCome(p) /\ (pc[p] = "engine" => i # 0)
    BY <1>2, <1>3 DEF IterationsToCome, WithinBounds, InIteration, Over, Raised, Errors
<1>5. PICK n \in Nat \ {0} : n = StepsOfIteration
    BY <1>2 DEF StepsOfIteration
<1>6. PICK c \in Nat : c = StepsOfPlace(p) /\ (pc[p] \notin Over \union {"engine"} => c # 0)
    BY <1>2, <1>3 DEF StepsOfPlace, WithinBounds, InIteration, Over, Raised, Errors, Place
<1>7. PICK x \in Nat : x = i * n /\ (i # 0 => x # 0)
    BY <1>4, <1>5
<1> QED
    BY <1>4, <1>5, <1>6, <1>7 DEF StepsLeft

\* Where a step takes a process, with the iteration and the request it is at.
Moves(p) ==
    LET same == stats'[p].iteration = stats[p].iteration /\ req_num'[p] = req_num[p]
    IN  \/ pc[p] \notin Over /\ pc'[p] \in Over
        \/ <<pc[p], pc'[p]>> \in {<<"submitted", "create_input">>, <<"create_input", "dump_input">>,
                                  <<"dump_input", "read_input">>, <<"read_input", "engine">>}
        \/ pc[p] = "engine" /\ pc'[p] = "requests" /\ stats'[p].iteration = 0 /\ req_num'[p] = 1
        \/ /\ pc[p] = "requests" /\ pc'[p] = "requests" /\ req_num[p] <= NumRequests
           /\ stats'[p].iteration = stats[p].iteration /\ req_num'[p] = req_num[p] + 1
        \/ pc[p] = "requests" /\ pc'[p] \in {"save", "next_iter"} /\ req_num[p] > NumRequests /\ same
        \/ pc[p] = "save" /\ pc'[p] = "dump" /\ same
        \/ pc[p] = "dump" /\ pc'[p] = "next_iter" /\ same
        \/ /\ pc[p] = "next_iter" /\ pc'[p] = "requests" /\ req_num'[p] = 1
           /\ stats'[p].iteration = stats[p].iteration + 1
           /\ stats[p].iteration + 1 # Options[p[1]].max_iters

\* No step moves another process.
LEMMA ProcessMoves ==
    ASSUME SavingInv, BoundsInv, NEW p \in Task, Step(p) \/ Interrupt(p)
    PROVE  /\ Moves(p)
           /\ req_num' = [q \in Task |-> req_num'[q]]
           /\ \A q \in Task \ {p} : pc'[q] = pc[q] /\ stats'[q] = stats[q] /\ req_num'[q] = req_num[q]
<1>1. /\ pc = [q \in Task |-> pc[q]] /\ stats = [q \in Task |-> stats[q]]
      /\ req_num = [q \in Task |-> req_num[q]] /\ Counts(stats[p])
    BY DEF SavingInv, Typed, BoundsInv
<1>2. ASSUME NEW place, pc' = [pc EXCEPT ![p] = place], UNCHANGED <<stats, req_num>>
      PROVE  /\ pc'[p] = place /\ stats'[p].iteration = stats[p].iteration /\ req_num'[p] = req_num[p]
             /\ req_num' = [q \in Task |-> req_num'[q]]
             /\ \A q \in Task \ {p} : pc'[q] = pc[q] /\ stats'[q] = stats[q] /\ req_num'[q] = req_num[q]
    BY <1>1, <1>2
<1>3. ASSUME NEW i \in Nat, InitIter(p, i)
      PROVE  /\ pc'[p] = "requests" /\ stats'[p].iteration = i /\ req_num'[p] = 1
             /\ req_num' = [q \in Task |-> req_num'[q]]
             /\ \A q \in Task \ {p} : pc'[q] = pc[q] /\ stats'[q] = stats[q] /\ req_num'[q] = req_num[q]
    <2>1. PICK s : s = InitIterStats(stats[p], i) /\ s.iteration = i
        BY <1>1, InitIterStatsCounts
    <2>2. /\ pc' = [pc EXCEPT ![p] = "requests"] /\ stats' = [stats EXCEPT ![p] = s]
          /\ req_num' = [req_num EXCEPT ![p] = 1]
        BY <1>1, <1>3, <2>1 DEF InitIter
    <2> QED
        BY <1>1, <2>1, <2>2
<1>4. CASE Begin(p) \/ Cancel(p) \/ OpenInput(p) \/ DumpInput(p) \/ ReadInput(p)
    <2>1. PICK place : /\ pc' = [pc EXCEPT ![p] = place] /\ UNCHANGED <<stats, req_num>>
                       /\ \/ pc[p] = "submitted" /\ place \in {"create_input", "cancelled"}
                          \/ pc[p] = "create_input" /\ place = "dump_input"
                          \/ pc[p] = "dump_input" /\ place = "read_input"
                          \/ pc[p] = "read_input" /\ place \in {"engine", "JSONDecodeError"}
        BY <1>4 DEF Begin, Cancel, OpenInput, DumpInput, ReadInput, Go
    <2> QED
        BY <1>2, <2>1 DEF Moves, Over, Raised, Errors
<1>5. CASE OpenOutput(p) \/ DumpOutput(p) \/ Finish(p) \/ Interrupt(p)
    <2>1. PICK place : /\ pc' = [pc EXCEPT ![p] = place] /\ UNCHANGED <<stats, req_num>>
                       /\ \/ pc[p] = "save" /\ place = "dump"
                          \/ pc[p] = "dump" /\ place = "next_iter"
                          \/ pc[p] = "next_iter" /\ place = "finished"
                          \/ pc[p] \in InIteration /\ place = "TypeError"
        BY <1>5 DEF OpenOutput, DumpOutput, Finish, Interrupt, Go, InIteration
    <2> QED
        BY <1>2, <2>1 DEF Moves, Over, Raised, Errors, InIteration
<1>6. CASE StartEngine(p)
    BY <1>3, <1>6 DEF StartEngine, Moves
<1>7. CASE NextIter(p)
    <2>1. /\ pc[p] = "next_iter" /\ stats[p].iteration + 1 \in Nat
          /\ stats[p].iteration + 1 # Options[p[1]].max_iters /\ InitIter(p, stats[p].iteration + 1)
        BY <1>1, <1>7 DEF NextIter, Ending, LastIteration, Counts
    <2> QED
        BY <1>3, <2>1 DEF Moves
<1>8. CASE HandleRequest(p)
    <2>1. PICK o \in Outcome, place \in {"AttributeError", "TypeError", "requests"} :
             /\ stats' = [stats EXCEPT ![p] = IterUpdate(@, o)]
             /\ pc' = [pc EXCEPT ![p] = place]
        BY <1>8 DEF HandleRequest
    <2>2. PICK s : s = IterUpdate(stats[p], o) /\ s.iteration = stats[p].iteration
        BY <1>1, IterUpdateCounts
    <2>3. /\ pc[p] = "requests" /\ req_num[p] <= NumRequests /\ req_num' = [req_num EXCEPT ![p] = @ + 1]
        BY <1>8 DEF HandleRequest
    <2>4. /\ pc'[p] = place /\ stats'[p].iteration = stats[p].iteration /\ req_num'[p] = req_num[p] + 1
          /\ req_num' = [q \in Task |-> req_num'[q]]
          /\ \A q \in Task \ {p} : pc'[q] = pc[q] /\ stats'[q] = stats[q] /\ req_num'[q] = req_num[q]
        BY <1>1, <2>1, <2>2, <2>3
    <2> QED
        BY <2>3, <2>4 DEF Moves, Over, Raised, Errors
<1>9. CASE EndIter(p)
    <2>1. PICK place \in {"save", "next_iter"} : pc' = [pc EXCEPT ![p] = place]
        BY <1>9 DEF EndIter
    <2>2. PICK s : s = EndIterUpdate(stats[p]) /\ s.iteration = stats[p].iteration
        BY <1>1, EndIterUpdateCounts
    <2>3. /\ pc[p] = "requests" /\ req_num[p] > NumRequests /\ req_num' = req_num
          /\ stats' = [stats EXCEPT ![p] = s]
        BY <1>1, <1>9, <2>2 DEF EndIter
    <2>4. /\ pc'[p] = place /\ stats'[p].iteration = stats[p].iteration /\ req_num'[p] = req_num[p]
          /\ req_num' = [q \in Task |-> req_num'[q]]
          /\ \A q \in Task \ {p} : pc'[q] = pc[q] /\ stats'[q] = stats[q] /\ req_num'[q] = req_num[q]
        BY <1>1, <2>1, <2>2, <2>3
    <2> QED
        BY <2>1, <2>3, <2>4 DEF Moves
<1> QED
    BY <1>4, <1>5, <1>6, <1>7, <1>8, <1>9 DEF Step

\* A process that moves stays within its bounds and has fewer steps before it.
LEMMA StepsFall ==
    ASSUME SavingInv, SavingInv', BoundsInv, NEW p \in Task, Moves(p)
    PROVE  WithinBounds(p)' /\ StepsLeft(p)' < StepsLeft(p)
<1>1. p[1] \in Threads /\ WithinBounds(p) /\ stats[p].iteration \in Nat /\ stats'[p].iteration \in Nat
    <2>1. p[1] \in Threads /\ WithinBounds(p)
        BY DEF Task, BoundsInv
    <2>2. stats[p].iteration \in Nat
        BY DEF SavingInv, Typed, Counts
    <2>3. stats'[p].iteration \in Nat
        BY DEF SavingInv, Typed, Counts
    <2> QED
        BY <2>1, <2>2, <2>3
<1>2. PICK m \in Nat \ {0}, r \in Nat \ {0}, i \in Nat, j \in Nat :
         /\ m = Options[p[1]].max_iters /\ r = NumRequests
         /\ i = stats[p].iteration /\ j = stats'[p].iteration
    BY <1>1, StatsAssumption, SimulationsAssumption
<1>3. PICK n \in Nat \ {0} : n = StepsOfIteration /\ n = r + 5
    BY <1>2 DEF StepsOfIteration
<1>4. WithinBounds(p)'
    BY <1>1, <1>2 DEF WithinBounds, Moves, InIteration, Place, Over, Raised, Errors
<1>5. PICK a \in Nat, b \in Nat, c \in Nat, d \in Nat :
         /\ a = IterationsToCome(p) /\ b = IterationsToCome(p)'
         /\ c = StepsOfPlace(p) /\ d = StepsOfPlace(p)'
    <2>1. IterationsToCome(p) \in Nat /\ StepsOfPlace(p) \in Nat
        BY StepsLeftIs
    <2>2. IterationsToCome(p)' \in Nat
        BY <1>2, <1>4 DEF IterationsToCome, WithinBounds, InIteration, Place, Over, Raised, Errors
    <2>3. StepsOfPlace(p)' \in Nat
        BY <1>2, <1>4 DEF StepsOfPlace, WithinBounds, InIteration, Place, Over, Raised, Errors
    <2> QED
        BY <2>1, <2>2, <2>3
<1>6. StepsLeft(p) = a * n + c /\ StepsLeft(p)' = b * n + d
    BY <1>3, <1>5 DEF StepsLeft, StepsOfIteration
<1>7. CASE pc[p] \notin Over /\ pc'[p] \in Over
    <2>1. StepsLeft(p) \in Nat \ {0}
        BY <1>7, StepsLeftIs
    <2>2. b = 0 /\ d = 0
        BY <1>5, <1>7 DEF IterationsToCome, StepsOfPlace, InIteration, Over, Raised, Errors
    <2> QED
        BY <1>3, <1>4, <1>6, <2>1, <2>2
<1>8. CASE a = b /\ d < c
    <2>1. PICK x \in Nat : x = a * n
        BY <1>3
    <2> QED
        BY <1>4, <1>6, <1>8, <2>1
<1>9. CASE a = b + 1 /\ d < c + n
    <2>1. PICK x \in Nat : x = b * n
        BY <1>3
    <2>2. a * n = x + n
        BY <1>3, <1>9, <2>1
    <2> QED
        BY <1>3, <1>4, <1>6, <1>9, <2>1, <2>2
<1>10. CASE \/ <<pc[p], pc'[p]>> \in {<<"submitted", "create_input">>, <<"create_input", "dump_input">>,
                                     <<"dump_input", "read_input">>, <<"read_input", "engine">>}
            \/ pc[p] = "save" /\ pc'[p] = "dump" /\ j = i
            \/ pc[p] = "dump" /\ pc'[p] = "next_iter" /\ j = i
    <2>1. a = b /\ d < c
        BY <1>2, <1>5, <1>10 DEF IterationsToCome, StepsOfPlace, InIteration, Over, Raised, Errors
    <2> QED
        BY <1>8, <2>1
<1>11. CASE pc[p] = "engine" /\ pc'[p] = "requests" /\ j = 0 /\ req_num'[p] = 1
    <2>1. a = b + 1 /\ d < c + n
        BY <1>2, <1>3, <1>5, <1>11 DEF IterationsToCome, StepsOfPlace, InIteration, Over, Raised, Errors
    <2> QED
        BY <1>9, <2>1
<1>12. CASE /\ pc[p] = "requests" /\ pc'[p] = "requests" /\ req_num[p] <= NumRequests
            /\ j = i /\ req_num'[p] = req_num[p] + 1
    <2>1. req_num[p] \in Nat
        BY <1>1, <1>2, <1>12 DEF WithinBounds, InIteration
    <2>2. a = b /\ d < c
        BY <1>2, <1>5, <1>12, <2>1 DEF IterationsToCome, StepsOfPlace, InIteration, Over, Raised, Errors
    <2> QED
        BY <1>8, <2>2
<1>13. CASE pc[p] = "requests" /\ pc'[p] \in {"save", "next_iter"} /\ req_num[p] > NumRequests /\ j = i
    <2>1. req_num[p] = r + 1
        BY <1>1, <1>2, <1>13 DEF WithinBounds, InIteration
    <2>2. a = b /\ d < c
        BY <1>2, <1>5, <1>13, <2>1 DEF IterationsToCome, StepsOfPlace, InIteration, Over, Raised, Errors
    <2> QED
        BY <1>8, <2>2
<1>14. CASE pc[p] = "next_iter" /\ pc'[p] = "requests" /\ req_num'[p] = 1 /\ j = i + 1
    <2>1. a = b + 1 /\ d < c + n
        BY <1>2, <1>3, <1>5, <1>14 DEF IterationsToCome, StepsOfPlace, InIteration, Over, Raised, Errors
    <2> QED
        BY <1>9, <2>1
<1> QED
    BY <1>2, <1>7, <1>10, <1>11, <1>12, <1>13, <1>14 DEF Moves

\* One process has come nearer to its end, the others are where they were.
NearsItsEnd ==
    \E p \in Task :
        /\ StepsLeft(p) \in Nat /\ StepsLeft(p)' < StepsLeft(p)
        /\ \A q \in Task \ {p} : StepsLeft(q)' = StepsLeft(q)

\* A step of a process, or a signal it gets.
LEMMA BatchStep ==
    ASSUME SavingInv, SavingInv', BoundsInv, NEW p \in Task, Step(p) \/ Interrupt(p)
    PROVE  BoundsInv' /\ NearsItsEnd
<1>1. /\ Moves(p) /\ req_num' = [q \in Task |-> req_num'[q]]
      /\ \A q \in Task \ {p} : pc'[q] = pc[q] /\ stats'[q] = stats[q] /\ req_num'[q] = req_num[q]
    BY ProcessMoves
<1>2. WithinBounds(p)' /\ StepsLeft(p)' < StepsLeft(p) /\ StepsLeft(p) \in Nat
    BY <1>1, StepsFall, StepsLeftIs
<1>3. ASSUME NEW q \in Task \ {p}
      PROVE  WithinBounds(q)' /\ StepsLeft(q)' = StepsLeft(q)
    <2>1. pc'[q] = pc[q] /\ stats'[q] = stats[q] /\ req_num'[q] = req_num[q] /\ WithinBounds(q)
        BY <1>1 DEF BoundsInv
    <2> QED
        BY <2>1 DEF WithinBounds, StepsLeft, IterationsToCome, StepsOfPlace, StepsOfIteration
<1> QED
    BY <1>1, <1>2, <1>3 DEF BoundsInv, NearsItsEnd

\* A batch is finite: no process of the pool, whatever its options, its draws and the
\* signals it gets, goes on for ever, and none is set back by what another one does.
THEOREM BatchIsFinite == Spec => [][NearsItsEnd]_vars
<1>1. Init => BoundsInv
    BY DEF Init, BoundsInv, WithinBounds, Place, InIteration
<1>2. ASSUME SavingInv, SavingInv', BoundsInv, [Next]_vars
      PROVE  BoundsInv' /\ [NearsItsEnd]_vars
    <2>1. CASE UNCHANGED vars
        BY <1>2, <2>1 DEF vars, BoundsInv, WithinBounds
    <2> QED
        BY <1>2, <2>1, BatchStep DEF Next, Ended
<1>3. SavingInv /\ [Next]_vars => SavingInv'
    BY SavingNext
<1> QED
    BY <1>1, <1>2, <1>3, SavingInit, PTL DEF Spec
=============================================================================
