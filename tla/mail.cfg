SPECIFICATION FairSpec
CONSTANTS
    Mails <- FourMails
    Mail <- Mixed
    Broken <- FirstBroken
    Supervisor = Supervisor
    Node = Node
    MaxFaults = 1
INVARIANTS MailConsistent
PROPERTIES MailHandled
CHECK_DEADLOCK FALSE
