CONSTANTS
    build = build
    report = report
    NoTask = NoTask
    Tasks <- MCTasks
    Deps <- MCDeps
    Proof <- MCProof
    Evidence <- MCSomeEvidence
    Threads = {loop, tool}
    MaxAttempts = 2
SPECIFICATION Spec
PROPERTY RunningNeverRequeued
