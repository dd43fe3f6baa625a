----------------------------- MODULE JobService -----------------------------
(***************************************************************************)
(* What the job pipeline promises, whatever its goroutines, sockets and    *)
(* processes do: a job is executed only after it was submitted, what an    *)
(* execution gave is heard of at most once, and what is heard is charged   *)
(* to its owner at most once and stored as the answer at most once.  That  *)
(* it is charged at all is not promised: a deduction may be refused.       *)
(***************************************************************************)
EXTENDS Naturals

CONSTANTS Jobs

VARIABLES submitted, runs, heard, charges, answers
svars == <<submitted, runs, heard, charges, answers>>

SInit ==
  /\ submitted = {}
  /\ runs = [j \in Jobs |-> 0]
  /\ heard = [j \in Jobs |-> 0]
  /\ charges = [j \in Jobs |-> 0]
  /\ answers = [j \in Jobs |-> 0]

Accept(j) ==
  /\ j \notin submitted
  /\ submitted' = submitted \cup {j}
  /\ UNCHANGED <<runs, heard, charges, answers>>

Run(j) ==
  /\ j \in submitted
  /\ runs' = [runs EXCEPT ![j] = @ + 1]
  /\ UNCHANGED <<submitted, heard, charges, answers>>

Hear(j) ==
  /\ heard[j] < runs[j]
  /\ heard' = [heard EXCEPT ![j] = @ + 1]
  /\ charges' \in {charges, [charges EXCEPT ![j] = @ + 1]}
  /\ UNCHANGED <<submitted, runs, answers>>

Answer(j) ==
  /\ answers[j] < heard[j]
  /\ answers' = [answers EXCEPT ![j] = @ + 1]
  /\ UNCHANGED <<submitted, runs, heard, charges>>

SNext == \E j \in Jobs : Accept(j) \/ Run(j) \/ Hear(j) \/ Answer(j)

SSpec == SInit /\ [][SNext]_svars
=============================================================================
