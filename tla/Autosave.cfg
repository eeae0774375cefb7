SPECIFICATION FairSpec
CONSTANTS
    Versions = 3
    Sessions <- Sound
 
PROPERTIES
    
    FreeReturns
    FileCatchesUp
    
