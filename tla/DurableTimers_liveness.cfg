SPECIFICATION FairSpec
CONSTANTS
    Txns = {t1, t2}
    NoTxn = NoTxn
    Calls = {"schedule", "cancel", "purge"}
    MaxTimers = 2
    MaxCalls = 2
PROPERTIES
    TransactionsEnd
