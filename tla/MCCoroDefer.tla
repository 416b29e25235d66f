----------------------------- MODULE MCCoroDefer -----------------------------
EXTENDS CoroDefer, TLC

MCItems == Deferred

=============================================================================
