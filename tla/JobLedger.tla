------------------------------ MODULE JobLedger ------------------------------
(***************************************************************************)
(* What a job's manifest promises to everyone who reads it, whatever       *)
(* happens to the coordinator's memory, to its calls and to the process:   *)
(* the durable job moves by whole operations, each applied to the durable  *)
(* job as the previous operation left it.                                  *)
(*                                                                         *)
(*  - A chunk has at most one holder and is granted only while the job     *)
(*    runs; every grant of a chunk has a number of its own.                *)
(*  - A chunk is finished by the grant that holds it, or by a recovery.    *)
(*  - A pause, once recorded, is left only through the paused state.       *)
(*  - Only a recovery takes a finished chunk back.                         *)
(***************************************************************************)
EXTENDS Integers

CONSTANT Chunks

VARIABLES
  state,    \* the job state
  holder,   \* holder[c]: the grant that holds chunk c, 0 if none does
  granted,  \* granted[c]: grants of chunk c so far
  done      \* the finished chunks

vars == <<state, holder, granted, done>>

Init ==
  /\ state = "running"
  /\ holder = [c \in Chunks |-> 0]
  /\ granted = [c \in Chunks |-> 0]
  /\ done = {}

\* Grants may be taken back from the chunks of R whose time is over.
Without(R) == [c \in Chunks |-> IF c \in R THEN 0 ELSE holder[c]]

Grant(c) ==
  /\ state = "running"
  /\ c \notin done
  /\ \E R \in SUBSET Chunks :
       /\ Without(R)[c] = 0
       /\ holder' = [Without(R) EXCEPT ![c] = granted[c] + 1]
  /\ granted' = [granted EXCEPT ![c] = @ + 1]
  /\ UNCHANGED <<state, done>>

Reclaim ==
  /\ state # "running"
  /\ \E R \in SUBSET Chunks : holder' = Without(R)
  /\ UNCHANGED <<state, granted, done>>

Finish(c) ==
  /\ holder[c] # 0
  /\ c \notin done
  /\ done' = done \union {c}
  /\ holder' = [holder EXCEPT ![c] = 0]
  /\ state' = IF state \in {"pause_requested", "paused"} THEN "paused"
              ELSE IF done' = Chunks THEN "complete" ELSE "running"
  /\ UNCHANGED granted

Pause ==
  /\ state = "running"
  /\ state' = IF \E c \in Chunks : holder[c] # 0 THEN "pause_requested" ELSE "paused"
  /\ UNCHANGED <<holder, granted, done>>

Resume ==
  /\ state = "paused"
  /\ state' = "running"
  /\ UNCHANGED <<holder, granted, done>>

\* A recovery may find chunks finished, take others back, and drop grants.
Recover ==
  /\ \E R \in SUBSET Chunks : holder' = Without(R)
  /\ done' \in SUBSET {c \in Chunks : holder'[c] = 0}
  /\ state' = IF state = "pause_requested" THEN "paused"
              ELSE IF done' = Chunks THEN "complete"
              ELSE IF state = "paused" THEN "paused" ELSE "running"
  /\ UNCHANGED granted

Next ==
  \/ \E c \in Chunks : Grant(c) \/ Finish(c)
  \/ Reclaim \/ Pause \/ Resume \/ Recover

Spec == Init /\ [][Next]_vars
=============================================================================
