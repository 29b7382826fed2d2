\* One server process and one composed deployment read by two concurrent polls:
\* every crash point, restart and reconciliation up to version MaxVersion, and the
\* progress of commands and polls.
CONSTANTS
    Deployments = {d1}
    Composed = {d1}
    Keys = {k1}
    Processes = {server}
    Server = server
    Readers = {r1, r2}
    MaxVersion = 5
SPECIFICATION FairSpec
INVARIANTS IndInv HeldIsRecoverable ReleasedIsTrue ActivityTracksTransitions
PROPERTIES EndsAreReported ImplementsContract NoRevival VersionsOrderStates CommandsReturn LossIsNoticed
