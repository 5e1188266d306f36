CONSTANTS
    Target_MIN <- MCMin
    Target_MAX <- MCMax
    Target_STEP <- MCStep
    Target_DEFAULT <- MCDefault
    Kp <- MCKp
    Ki <- MCKi
    Kd <- MCKd
    Readings <- MCReadings
SPECIFICATION FairSpec
PROPERTIES
    OffStops
