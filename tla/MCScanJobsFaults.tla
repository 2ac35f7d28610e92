-------------------------- MODULE MCScanJobsFaults --------------------------
(* ScanJobs under two databases at once: in half of the behaviours every     *)
(* reply of a committed statement arrives, in the other half it may be lost. *)
(* lossy is chosen initially and never changes.                              *)
EXTENDS ScanJobs

VARIABLE lossy

Reliable == INSTANCE ScanJobs WITH LossyReplies <- FALSE

FaultVars == <<vars, lossy>>

FaultInit == Init /\ lossy \in BOOLEAN

FaultNext == /\ \/ lossy /\ Next
                \/ ~lossy /\ Reliable!Next
             /\ UNCHANGED lossy

\* The fairness of ScanJobs: none of its steps depends on the replies.
FaultFairness ==
    /\ \A w \in Workers : WF_FaultVars(WorkerStep(w) /\ UNCHANGED lossy)
    /\ \A j \in Jobs : /\ WF_FaultVars(BackoffElapses(j) /\ UNCHANGED lossy)
                       /\ WF_FaultVars(LeaseTicks(j) /\ UNCHANGED lossy)

FaultSpec == FaultInit /\ [][FaultNext]_FaultVars /\ FaultFairness

\* Every job ends, whatever crashes, database errors and lost replies hit its
\* attempts (EveryJobEnds), and with replies that arrive no run is left running
\* in the audit for ever either (EveryRunEnds). Where the reply of the INSERT of
\* a run is lost, the worker finalises its job without the run, the job points
\* at no run any more, and no later claim closes it.
JobsAndRunsEnd == EveryJobEnds /\ (~lossy => EveryRunEnds)

\* Every step of two workers over two attempts is a step of JobLifecycle or
\* leaves its state alone; with replies that arrive, of a JobLifecycle that
\* forgets nothing.
LifecycleWhateverTheReplies ==
    [][/\ [Lifecycle!Next]_(Lifecycle!lifecycle)
       /\ lossy \/ [Reliable!Lifecycle!Next]_(Lifecycle!lifecycle)]_FaultVars
=============================================================================
