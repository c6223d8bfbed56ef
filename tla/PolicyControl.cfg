SPECIFICATION Spec
CONSTANTS
    Record = {1, 2, 3}
    Field <- MCField
    Value <- MCValue
    Gone = Gone
    Always = {"name"}
    ModelOrder <- MCModelOrder
    MaxOffset = 1
    MaxReport = 20
    Binary = {"image"}
    Sensitive = {"secret"}
    Magic = {"name"}
    ReadonlyField = {"total"}
    Profiles <- MCProfiles
    Live <- MCLive
    Queries <- MCQueries
    Payloads <- MCPayloads
    Contended = {1}
INVARIANTS
    TypeOK
    AnswersAgree
    PagesAreComplete
    
PROPERTIES
    ChangesStayInPolicy
    ManagersDecide
