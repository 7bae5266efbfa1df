\* Three telegrams, three lost or garbled bytes, a buffer that two telegrams overflow.
CONSTANTS
    Telegrams <- Traffic
    Courses <- AllCourses
    Noise <- Glitches
    MaxFrame = 20
    MaxData = 16
    MaxSent = 3
    MaxFaults = 3
SPECIFICATION Spec
PROPERTIES
    HeardAsSent
    WholeIsHeard
CHECK_DEADLOCK FALSE
