SPECIFICATION Spec
CONSTANTS
    n1 = n1
    n2 = n2
    n3 = n3
    ada = ada
    eve = eve
    prod = prod
    odd = odd
    None = None
    Nodes <- MCNodes
    Users <- MCUsers
    Accepted = {ada}
    Plain = {prod}
    Quoted = {odd}
    Epochs = {1, 2}
    Minor <- MCMinor
    Requests <- MCRequests
INVARIANTS
    TypeOK
    RunsInTheCallersSession
    RedirectsAreChecked
PROPERTIES
    MovesWhenSettled
    ImplementsOneAnswer
    EverySendReturns
