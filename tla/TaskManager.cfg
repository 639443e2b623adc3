CONSTANTS
    MaxTasks = 3
    MAX_ACTIVE_TASKS = 1
    MAX_CONCURRENT_TASK_REQUESTS = 1
    MaxWork = 2
    BootstrapNodes = 2
SPECIFICATION Spec
INVARIANTS ListsExact HandledOnce
PROPERTY OperationsEnd
CHECK_DEADLOCK FALSE
