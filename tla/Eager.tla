------------------------------- MODULE Eager -------------------------------
(***************************************************************************)
(* Values that a definition uses several times and that are worth          *)
(* computing once.  Once(x, F) is F(x), FoldOnce folds a sequence from the *)
(* left, FoldSetOnce is FoldSet, and Mapped is F of every element.  All    *)
(* bind what they are given as an element of a set, which is evaluated     *)
(* where it is bound and not again where it is used.                       *)
(*                                                                         *)
(* Recursion is by functions throughout, so that proofs can be made about  *)
(* what uses it.                                                           *)
(***************************************************************************)
EXTENDS Naturals, Sequences, FiniteSets, FiniteSetsExt

Once(x, F(_)) == CHOOSE y \in {F(v) : v \in {x}} : TRUE

FoldOnce(op(_, _), base, seq) ==
    Once(seq, LAMBDA q :
        LET upTo[n \in 0 .. Len(q)] ==
                IF n = 0 THEN base
                ELSE Once(upTo[n - 1], LAMBDA a : Once(q[n], LAMBDA x : op(a, x)))
        IN  upTo[Len(q)])

FoldSetOnce(op(_, _), base, S) ==
    FoldSet(LAMBDA x, a : Once(a, LAMBDA b : Once(x, LAMBDA y : op(y, b))), base, S)

Mapped(F(_), seq) == FoldOnce(LAMBDA done, x : Append(done, F(x)), <<>>, seq)

\* The elements of a finite set in the order of a strict total order on it.
Ascending(S, Less(_, _)) ==
    Once(S, LAMBDA T :
        [i \in 1 .. Cardinality(T) |->
            CHOOSE x \in T : Cardinality({y \in T : Less(y, x)}) = i - 1])

\* What repeating step from S comes to: the first set it leaves as it is.
Limit(U, step, S) ==
    LET run[T \in SUBSET U] ==
            Once(step[T], LAMBDA next : IF next = T THEN T ELSE run[next])
    IN  run[S]

\* The pairs of a relation and all they compose to.
Composed(R) == {<<x[1][1], x[2][2]>> : x \in {y \in R \X R : y[1][2] = y[2][1]}}
Closure(R) ==
    LET pairs == {x[1] : x \in R} \X {x[2] : x \in R}
    IN  Limit(pairs, [S \in SUBSET pairs |-> S \cup Composed(S)], R)

=============================================================================
