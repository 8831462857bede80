------------------------------- MODULE MCMsgSend -------------------------------
\* Constants of MsgSend for TLC: two receivers, one of which has no such method,
\* and nil; entries at three depths of a stack of forty-eight words.
EXTENDS MsgSend

CONSTANTS obj, stranger, sel, method, caller

MCWord == {8 * i : i \in 0 .. 47}
\* Every lane holds a value of its own, and so does every word of the caller.
MCValue == {Zero, Junk, obj, stranger, sel, method, caller} \cup Lane \cup MCWord
MCFind(v, w) == IF v = obj /\ w = sel THEN method ELSE Absent

EnteredAt(receiver, top) ==
    [lane |-> [l \in Lane |-> IF l = rdi THEN receiver ELSE IF l = rsi THEN sel ELSE l],
     rax |-> 8,
     rsp |-> top,
     mem |-> [a \in MCWord |-> IF a < top THEN Junk ELSE IF a = top THEN caller ELSE a]]
MCEntries == {EnteredAt(receiver, top) : receiver \in {obj, stranger, Zero}, top \in {328, 344, 360}}
================================================================================
