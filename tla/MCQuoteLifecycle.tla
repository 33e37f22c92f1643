--------------------------- MODULE MCQuoteLifecycle ---------------------------
(* Instances of QuoteLifecycle for TLC. *)
EXTENDS QuoteLifecycle, TLC

CONSTANTS h1, h2, alice, bob, q1, q2

\* Two Telegram quotes of one user, who shares one session with both.
OneRequester == [q \in Quote |-> alice]
PrivateConfirmers == [q \in Quote |-> {alice}]

\* A Discord guild quote that its requester and a guild manager can confirm.
GuildConfirmers == [q \in Quote |-> {alice, bob}]

\* One bot process per handler, or one process for all.
Instances == {{h} : h \in Handler}
SingleProcess == {Handler}

Symmetry == Permutations(Handler)
=============================================================================
