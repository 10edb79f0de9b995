------------------------------ MODULE XContext ------------------------------
(***************************************************************************)
(* pkg/xcontext.Do: call f up to tryCount times, each under its own        *)
(* timeout context, and return nil at the first try that returns nil, or   *)
(* the error of the last try.  Every send of the mine service goes through *)
(* it: the ping with one try, the responses and migrate results with 3.    *)
(*                                                                         *)
(* A try is described by what it did at the peer and what f returned: a   *)
(* message may have been delivered and f still return an error (the 10 s   *)
(* context expired before the answer came back).  Do is a loop over a      *)
(* sequence of such tries; its result records whether it returned nil,     *)
(* how many tries it made and how many of them reached the peer.           *)
(***************************************************************************)
EXTENDS Integers, FiniteSets

\* One call f(cctx): a nil return implies the peer has the message.
Attempt == {a \in [delivered : BOOLEAN, ok : BOOLEAN] : a.ok => a.delivered}

(* Bug variant for mutation analysis: the count taken as passed, so a Do   *)
(* without WithTryCount makes no call and returns nil.                     *)
TryCountUnclamped(retryCount) == retryCount

\* WithTryCount(n) sets o.retryCount; Do replaces a count <= 0 by 1.
TryCount(retryCount) == IF retryCount <= 0 THEN 1 ELSE retryCount

(* for i := 0; i < tryCount; i++ { err = f(cctx); if err == nil { return   *)
(* nil } }; return err.  ok is "err == nil"; err is the named result,     *)
(* nil until the first try.                                                *)
RECURSIVE Loop(_, _, _, _)
Loop(tries, i, n, ok) ==
    IF i >= n
    THEN [ok |-> ok, tries |-> i, deliveries |-> 0]
    ELSE LET a    == tries[i + 1]
             rest == IF a.ok THEN [ok |-> TRUE, tries |-> i + 1, deliveries |-> 0]
                     ELSE Loop(tries, i + 1, n, FALSE)
         IN  [rest EXCEPT !.deliveries = @ + (IF a.delivered THEN 1 ELSE 0)]

Do(tries, retryCount) == Loop(tries, 0, TryCount(retryCount), TRUE)

\* The outcomes a send with retryCount can have at the peer: TRUE when at
\* least one copy of the message arrived.
Delivered(retryCount) ==
    {Do(t, retryCount).deliveries > 0 : t \in [1..TryCount(retryCount) -> Attempt]}

-----------------------------------------------------------------------------
(* Reference: what Do is meant to compute, stated without the loop.  At    *)
(* least one try is made; Do stops at the first nil; it returns nil iff    *)
(* some try up to the budget returned nil; every try made counts as a      *)
(* delivery when it reached the peer.                                      *)
DoSpec(tries, retryCount) ==
    LET budget == IF retryCount < 1 THEN 1 ELSE retryCount
        oks    == {i \in 1..budget : tries[i].ok}
        made   == IF oks = {} THEN budget
                  ELSE CHOOSE i \in oks : \A j \in oks : i <= j
    IN  [ok |-> oks # {}, tries |-> made,
         deliveries |-> Cardinality({i \in 1..made : tries[i].delivered})]

\* Retry counts as the callers pass them (none, and 3) and the edge values.
RetryCounts == -1..3

(* Do computes DoSpec for every retry count and every sequence of try      *)
(* outcomes: a send with no WithTryCount still makes one call, a nil is    *)
(* never retried, an error after the last try is returned, and a message  *)
(* that reached the queen while its try timed out is sent again, so the    *)
(* queen can hold up to tryCount copies.                                   *)
DoAsSpecified ==
    \A rc \in RetryCounts :
        \A t \in [1..3 -> Attempt] : Do(t, rc) = DoSpec(t, rc)

=============================================================================
