\* Two processes: a transaction that works from stale memory.
SPECIFICATION Spec
CONSTANTS
    server = server
    cli = cli
    Processes = {server, cli}
    MaxGen = 2
INVARIANT OneGeneration
SYMMETRY Symmetry
