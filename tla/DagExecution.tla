---------------------------- MODULE DagExecution ----------------------------
(***************************************************************************)
(* What the schedulers promise the client together: every task of the DAG  *)
(* is run once, by one scheduler, after all its parents have finished, and *)
(* all of them are run.                                                    *)
(***************************************************************************)
CONSTANTS Sched, Task, Children

VARIABLES
  ran,        \* the schedulers that have started each task
  finished    \* the tasks whose output has been stored

dagVars == <<ran, finished>>

Init ==
  /\ ran = [t \in Task |-> {}]
  /\ finished = {}

Start(t, s) ==
  /\ ran[t] = {}
  /\ \A p \in Task : t \in Children[p] => p \in finished
  /\ ran' = [ran EXCEPT ![t] = {s}]
  /\ UNCHANGED finished

Finish(t) ==
  /\ ran[t] # {} /\ t \notin finished
  /\ finished' = finished \cup {t}
  /\ UNCHANGED ran

Next ==
  \E t \in Task : Finish(t) \/ \E s \in Sched : Start(t, s)

Safe == Init /\ [][Next]_dagVars

Spec == Safe /\ WF_dagVars(Next)
=============================================================================
