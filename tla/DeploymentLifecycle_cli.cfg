\* The HTTP server and one CLI process that runs `deployment stop`.
CONSTANTS
    Deployments = {d1}
    Composed = {}
    Keys = {}
    Processes = {server, cli}
    Server = server
    Readers = {r1}
    MaxVersion = 4
SPECIFICATION Spec
INVARIANTS ReleasedIsTrue
