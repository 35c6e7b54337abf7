CONSTANTS
    r1 = r1
    r2 = r2
    Request = {r1, r2}
    NumModules = 2
    MaxTasks = 2
SPECIFICATION Spec
INVARIANTS
    WorkHasResources
    AcceptedIsServed
    QuietAfterQueueStop
    HooksArePaired
PROPERTY
    ExitsWhenTold
