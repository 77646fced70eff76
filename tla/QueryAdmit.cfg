CONSTANTS
    r1 = r1
    r2 = r2
    r3 = r3
    sa = sa
    sb = sb
    None = None
    Requests = {r1, r2, r3}
    Sources = {sa}
    SourceOf <- OneSource
    MaxConcurrent <- Two
    MaxPool <- Two
    MaxInterrupts = 1
SPECIFICATION Spec
SYMMETRY Symmetry
INVARIANTS
    TypeOK
    PermitsConserved
    RegistrationsExact
    OnePoolPerSource
    LeftoversOnlyCleanUp
PROPERTIES
    ImplementsAdmission
    NoLeaseAfterForce
    AnswerMatchesTransaction
