------------------------------- MODULE VmAlloc -------------------------------
(***************************************************************************)
(* What the allocator of vm/ promises its callers, whatever tree it keeps: *)
(* two blocks in use never overlap, an address is free exactly when no     *)
(* caller holds it, a request is served where it asked to be, and it is    *)
(* turned down only when no run of free addresses is sure to take it.      *)
(***************************************************************************)
EXTENDS VmPage, Integers

CONSTANTS VSTART, VEND, Requests

VARIABLES blocks,   \* the areas callers hold
          req       \* the request being served, or NoRequest

vars == <<blocks, req>>

NoRequest == [size |-> 0, align |-> 1, vstart |-> 0, vend |-> 0]

Space == VSTART .. VEND - 1

\* The addresses of an area.
Span(va) == va.start .. va.end - 1

FreeAddr == Space \ UNION {Span(b) : b \in blocks}

PowerOfTwo(a) == \E k \in 0 .. a : a = 2 ^ k

\* The blocks that would satisfy a request.
Candidates(q) ==
    {b \in {[start |-> a, end |-> a + q.size] : a \in Space} :
        /\ Span(b) \subseteq FreeAddr
        /\ q.vstart <= b.start /\ b.end <= q.vend
        /\ PowerOfTwo(q.align) => b.start % q.align = 0}

\* The free run that is long enough whatever the alignment costs.
Need(q) == q.size + (IF q.align > PAGE_SIZE THEN q.align - 1 ELSE 0)

SureToFit(q) ==
    \E a \in Space :
        /\ a >= q.vstart /\ a + Need(q) <= q.vend
        /\ a .. a + Need(q) - 1 \subseteq FreeAddr

-----------------------------------------------------------------------------
Init == blocks = {} /\ req = NoRequest

Ask(q) ==
    /\ req = NoRequest
    /\ req' = q
    /\ UNCHANGED blocks

\* The lowest block there is, unless the alignment is above a page.
Grant ==
    /\ req # NoRequest
    /\ \E b \in Candidates(req) :
          /\ req.align <= PAGE_SIZE =>
                \A c \in Candidates(req) : b.start <= c.start
          /\ blocks' = blocks \union {b}
    /\ req' = NoRequest

Refuse ==
    /\ req # NoRequest
    /\ ~SureToFit(req)
    /\ req' = NoRequest
    /\ UNCHANGED blocks

Free(b) ==
    /\ req = NoRequest
    /\ blocks' = blocks \ {b}
    /\ UNCHANGED req

Next ==
    \/ \E q \in Requests : Ask(q)
    \/ Grant
    \/ Refuse
    \/ \E b \in blocks : Free(b)

Spec == Init /\ [][Next]_vars

-----------------------------------------------------------------------------
\* No address is ever handed to two callers at once, and none outside the
\* space is handed out.
Exclusive ==
    /\ \A b \in blocks : Span(b) # {} /\ Span(b) \subseteq Space
    /\ \A b, c \in blocks : b # c => Span(b) \intersect Span(c) = {}
=============================================================================
