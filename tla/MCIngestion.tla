------------------------------- MODULE MCIngestion -------------------------------
EXTENDS Ingestion, TLC

\* Issues differ from pull requests, and READMEs from files, in how a page is read and not in
\* how it is queued.
MCDeployments ==
    ({"issue", "pr", "file", "readme"} \X {"node"}) \cup ({"pr", "file"} \X {"sqs"})

\* The places jobs stand in are interchangeable.
Symmetry == Permutations(Slots)
================================================================================
