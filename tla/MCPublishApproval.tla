-------------------------- MODULE MCPublishApproval --------------------------
EXTENDS PublishApproval, TLC

\* The handlers are interchangeable.
Symmetric == Permutations(Handlers)
=============================================================================
