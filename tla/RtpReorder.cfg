\* Reordering by less than the cache size within the reorder window, loss
\* (bursts beyond MaxDiff included) and sender restarts.
CONSTANTS
    SeqSpace <- MCSeqSpace
    MaxDiff <- MCMaxDiff
    MaxCache <- MCMaxCache
    StartSeq <- MCStartSeq
    JumpBy <- MCJumpBy
    MaxSent = 9
    Lateness = 3
    Duplicates = FALSE
    HeadFirst = TRUE
    ReorderInWindow = TRUE
SPECIFICATION Spec
INVARIANT TypeOK
INVARIANT NeverAborts
INVARIANT NothingStranded
PROPERTY DeliversInOrder
