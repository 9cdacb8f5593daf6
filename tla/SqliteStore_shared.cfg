\* The server and the CLI write the same file.
SPECIFICATION Spec
CONSTANTS
    server = server
    cli = cli
    Processes = {server, cli}
    MaxGen = 3
PROPERTIES DocumentSpec
SYMMETRY Symmetry
