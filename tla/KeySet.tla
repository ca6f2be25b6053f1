------------------------------- MODULE KeySet -------------------------------
(***************************************************************************)
(* What the hash table and the search trees promise a caller who runs one  *)
(* call at a time: a set of keys.  insert adds a key that is not there,    *)
(* remove takes one out that is, lookup says whether one is there, and     *)
(* each call is answered once, with what was true at one moment of it.     *)
(* clear takes out every key, one after the other.                         *)
(***************************************************************************)
CONSTANTS Keys,
          Ops       \* the calls there are, of insert, remove, lookup, clear

VARIABLES keys,     \* the keys held
          call,     \* the call in progress
          ans       \* its answer, once it has one

vars == <<keys, call, ans>>

NoCall == [op |-> "none", key |-> 0]

YesNo(b) == IF b THEN "yes" ELSE "no"

Init == keys = {} /\ call = NoCall /\ ans = "none"

Ask(o, k) ==
    /\ call = NoCall
    /\ call' = [op |-> o, key |-> k]
    /\ UNCHANGED <<keys, ans>>

AskClear ==
    /\ call = NoCall
    /\ call' = [NoCall EXCEPT !.op = "clear"]
    /\ UNCHANGED <<keys, ans>>

Pending(o) == call.op = o /\ ans = "none"

Insert ==
    /\ Pending("insert")
    /\ ans' = YesNo(call.key \notin keys)
    /\ keys' = keys \union {call.key}
    /\ UNCHANGED call

Remove ==
    /\ Pending("remove")
    /\ ans' = YesNo(call.key \in keys)
    /\ keys' = keys \ {call.key}
    /\ UNCHANGED call

Lookup ==
    /\ Pending("lookup")
    /\ ans' = YesNo(call.key \in keys)
    /\ UNCHANGED <<keys, call>>

ClearOne ==
    /\ Pending("clear")
    /\ \E k \in keys : keys' = keys \ {k}
    /\ UNCHANGED <<call, ans>>

ClearEnd ==
    /\ Pending("clear") /\ keys = {}
    /\ ans' = "yes"
    /\ UNCHANGED <<keys, call>>

Return ==
    /\ ans # "none"
    /\ call' = NoCall /\ ans' = "none"
    /\ UNCHANGED keys

Next ==
    \/ \E o \in Ops \ {"clear"}, k \in Keys : Ask(o, k)
    \/ "clear" \in Ops /\ AskClear
    \/ Insert \/ Remove \/ Lookup \/ ClearOne \/ ClearEnd \/ Return

Spec == Init /\ [][Next]_vars
=============================================================================
