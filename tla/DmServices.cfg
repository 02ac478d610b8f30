SPECIFICATION ServicesSpec
CONSTANTS
    MailNames = {"n1", "n2"}
    MailIds = {1, 2}
    MailLeaves <- LeavesEM
    MailObjects <- ObjectsEM
    MailOpen = 2
    MmsLeaves <- LeavesMM
    MmsObjects <- ObjectsMM
    MmsPoints = {1, 2}
    MmsOpen = 2
    BmNames = {"a", "SNAP1"}
    BmIds = {1, 2}
    BmLeaves <- LeavesBM
    BmObjects <- ObjectsBM
    BmPoints = {1}
    BmOpen = 3
INVARIANTS NothingLost AnsweredOnce  DefaultExists
PROPERTIES  EmbeddingIsReplaced
