CONSTANTS
    Entries <- EntryChoices
    MaxEntries = 3
    TopKs <- MCTopKs
SPECIFICATION Spec
INVARIANT TypeOK
INVARIANT ResultMatchesReference
\* retrieveHybridContext returns: the process may stop.
CHECK_DEADLOCK FALSE
