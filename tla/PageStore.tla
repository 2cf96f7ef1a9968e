----------------------------- MODULE PageStore -----------------------------
(* What the buffer manager promises its users.  A page has a content that   *)
(* only a user who has the page pinned can change, and a pinned page is     *)
(* never taken away.  Where the content is kept (memory, a spill file, the  *)
(* data file, a mapping) and when it moves is nobody's concern.             *)
EXTENDS Naturals

CONSTANT Pages

VARIABLES content,  \* content[p]: the number of the last write to p
          pins,     \* pins[p]: how many handles of p are held
          gone,     \* the pages that have been cleaned up
          broken    \* a user has broken the rules: nothing is promised any more

Init == /\ content = [p \in Pages |-> 0]
        /\ pins = [p \in Pages |-> 0]
        /\ gone = {} /\ broken = FALSE

Pin(p) == /\ p \notin gone
          /\ pins' = [pins EXCEPT ![p] = @ + 1]
          /\ UNCHANGED <<content, gone>>

Unpin(p) == /\ pins[p] > 0
            /\ pins' = [pins EXCEPT ![p] = @ - 1]
            /\ UNCHANGED <<content, gone>>

Write(p) == /\ pins[p] > 0
            /\ content' = [content EXCEPT ![p] = @ + 1]
            /\ UNCHANGED <<pins, gone>>

Remove(p) == /\ pins[p] = 0
             /\ gone' = gone \union {p}
             /\ content' = [content EXCEPT ![p] = 0]
             /\ UNCHANGED pins

Step(p) == ~broken' /\ (Pin(p) \/ Unpin(p) \/ Write(p) \/ Remove(p))

Next == broken' \/ \E p \in Pages : Step(p)

Spec == Init /\ [][Next]_<<content, pins, gone, broken>>
============================================================================
