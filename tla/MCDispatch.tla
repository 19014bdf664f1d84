----------------------------- MODULE MCDispatch -----------------------------
EXTENDS DispatchReferral, TLC

CONSTANTS w1, w2, t1, t2

MCEmployer == [t \in Technicians |-> IF t = t1 THEN w1 ELSE w2]
MCNearSets == {{}, Workshops}

\* Threads and incidents are interchangeable, and so are the two workshops
\* when their technicians change places with them.
Same == [x \in {w1, w2, t1, t2} |-> x]
Swap == w1 :> w2 @@ w2 :> w1 @@ t1 :> t2 @@ t2 :> t1
MCSymmetry == {p @@ q @@ r : p \in Permutations(Threads),
                             q \in Permutations(Incidents), r \in {Same, Swap}}
ThreadSymmetry == Permutations(Threads)
=============================================================================
