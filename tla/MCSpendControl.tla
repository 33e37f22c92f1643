---------------------------- MODULE MCSpendControl ----------------------------
(* Instances of SpendControl for TLC; amounts in small units. *)
EXTENDS SpendControl, TLC

CONSTANTS alice, bob, c1, c2, plan

\* Defaults, with low caps: nothing above 3, 4 a day, 5 a week, 5 a day for a group.
DefaultConfig == [hardCap |-> 3, allowHighValue |-> FALSE, dailyCap |-> 4, weeklyCap |-> 5,
                  groupDailyCap |-> 5, trusted |-> FALSE, trustedMax |-> 1,
                  firstSpend |-> FALSE, highCost |-> Off]

\* The opt-in POLICY_FIRST_SPEND_REQUIRE_CONFIRMATION.
FirstSpendConfig == [DefaultConfig EXCEPT !.firstSpend = TRUE]

\* Alice, who owns the wallet if it is private, gives a command and plans a
\* research; Bob, an admin if the wallet is a group's, gives one command.
Makers == (c1 :> alice) @@ (c2 :> bob) @@ (plan :> alice)

===============================================================================
