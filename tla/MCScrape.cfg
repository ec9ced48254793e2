\* Every machine of MCMachines, scraped again and again.
CONSTANTS
    Token <- MCToken
    Machines <- MCMachines
    Values <- MCValues
    Number <- MCNumber
    Time = 5
    Comments <- MCComments
    Garbage <- MCGarbage
SPECIFICATION Spec
INVARIANTS
    TypeOK
    ReadsEveryLine
    WholeOrNothing
    ReportsTheMachine
