----------------------------- MODULE MCNotebook -----------------------------
(***************************************************************************)
(* Instance of Notebook for TLC: two real jobs of the same shape.          *)
(***************************************************************************)
EXTENDS Notebook, TLC

CONSTANTS a, b, smoke

TwoJobs == {a, b}
MCShape == [j \in TwoJobs \union {smoke} |-> IF j = smoke THEN "small" ELSE "large"]

\* Parameters that differ in what the cells ask for.
MCTexts == {p \in [smoke : BOOLEAN, run : BOOLEAN, limit : {1}, resume : BOOLEAN, pack : BOOLEAN,
                   visibility : Visibility, attested : BOOLEAN, internet : BOOLEAN, job : TwoJobs] :
              /\ p.smoke => ~p.resume /\ ~p.pack
              /\ p.resume => p.run /\ p.visibility = "private"
              /\ p.attested => p.visibility # "private" /\ ~p.pack
              /\ p.internet => ~p.attested /\ ~p.pack /\ p.visibility = "private"}

JobSymmetry == Permutations(TwoJobs)
=============================================================================
