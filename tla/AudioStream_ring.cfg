SPECIFICATION FairSpec
\* The application may stop writing.
CHECK_DEADLOCK FALSE
CONSTANTS
    Size = 8
    Floor = 4
    Rates = {1, 3, 4}
    Counts = {3, 7}
    Total = 20
    Resets = 2
    Reopens <- Safe
PROPERTIES ImplementsFifo Drains MakesRoom
