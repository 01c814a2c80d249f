\* Two posters and a consumer that calls wait() or timedwait().  The system
\* may stop when the threads post no more: sem_wait then does not return.
CONSTANTS
    p1 = p1
    p2 = p2
    Posters <- MCPosters
    MaxPosts = 3
SPECIFICATION FairSpec
INVARIANTS TypeOK WaitPopsAnEvent
PROPERTIES ImplementsFifo EveryPostTaken
CHECK_DEADLOCK FALSE
