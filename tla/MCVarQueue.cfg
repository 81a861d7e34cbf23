SPECIFICATION QueueSpec
CONSTANTS
    Poster = {"p1", "p2"}
    Consumer = {"q1", "q2"}
    Runner = {"r1", "r2", "r3"}
    ConsumerOf <- MCConsumerOf
    MaxPosts = 3
INVARIANTS
    PostedIsKept
CHECK_DEADLOCK FALSE
