SPECIFICATION Spec
CONSTANTS
    Logs <- OneSourceEach
    Page <- OneRowAPage
    BatchRows = 3
    Intervals = 2
    SpoolCap = 1
    MaxBeats <- Beats
    MaxTrouble <- Trouble
    MaxDeaths = 1
INVARIANTS
    TypeOK
    
    
