------------------------------- MODULE MCCoro -------------------------------
EXTENDS Coro, TLC

\* Coroutine objects, switchers and the ints passed are interchangeable.
Symmetry ==
    Permutations(Coros) \cup Permutations(Switchers) \cup Permutations(Values)

=============================================================================
