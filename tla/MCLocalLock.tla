------------------------------ MODULE MCLocalLock ------------------------------
(* An instance of LocalLock for TLC. *)
EXTENDS LocalLock

CONSTANTS confirmA, confirmB, again, actorA, actorB, quote

\* Two confirmations of one quote by different actors, and a call that takes
\* the quote's lock inside itself: three contenders for one key.
Plans == [p \in Proc |->
    CASE p = confirmA -> <<actorA, quote>>
      [] p = confirmB -> <<actorB, quote>>
      [] p = again    -> <<quote, quote>>]
=============================================================================
