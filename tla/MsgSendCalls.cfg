CONSTANTS
    obj = obj
    stranger = stranger
    sel = sel
    method = method
    caller = caller
    Zero = Zero
    Junk = Junk
    Absent = Absent
    Value <- MCValue
    Find <- MCFind
    Word <- MCWord
    Entries <- MCEntries
SPECIFICATION Spec
INVARIANT IInv
INVARIANT CalleeSeesArguments
INVARIANT NeverMisaligned
INVARIANT NilGivesZero
PROPERTY CallerFrameKept
\* The trampoline is over once control has left it.
CHECK_DEADLOCK FALSE
