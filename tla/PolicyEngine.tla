---------------------------- MODULE PolicyEngine ----------------------------
(***************************************************************************)
(* PolicyEngine.evaluate: the rules a request is put to once its price is  *)
(* known, and what the first rule that applies decides.  Amounts are in    *)
(* cents; the platform and the skill allowlist are abstracted, the former  *)
(* because both callers pass a known one, the latter into `blocked'.       *)
(***************************************************************************)
EXTENDS Naturals, Sequences

CONSTANTS
    Config,         \* the fields of AppConfig the rules read
    Off             \* an undefined or NULL cap

Cap == Nat \union {Off}

SkillStatus == {"allowed", "trusted", "blocked"}

ASSUME ConfigAssumption ==
    Config \in [hardCap : Nat,              \* HARD_SPEND_CAP_USDC
                allowHighValue : BOOLEAN,   \* ALLOW_HIGH_VALUE_CALLS
                dailyCap : Cap,             \* POLICY_DAILY_CAP_USDC
                weeklyCap : Cap,            \* POLICY_WEEKLY_CAP_USDC
                groupDailyCap : Nat,        \* GROUP_DAILY_CAP_USDC
                trusted : BOOLEAN,          \* POLICY_TRUSTED_SKILLS names the skill
                trustedMax : Nat,           \* POLICY_TRUSTED_AUTO_APPROVE_MAX_USDC
                firstSpend : BOOLEAN,       \* POLICY_FIRST_SPEND_REQUIRE_CONFIRMATION
                highCost : Cap]             \* POLICY_HIGH_COST_THRESHOLD_USDC

ASSUME OffAssumption == Off \notin Nat

DenyOutcome == {"deny_frozen", "deny_skill_blocked", "deny_daily_cap", "deny_weekly_cap",
                "deny_hard_cap"}

ConfirmOutcome == {"require_confirmation", "require_group_admin_approval"}

Outcome == DenyOutcome \union ConfirmOutcome \union {"allow"}

-----------------------------------------------------------------------------

Exceeds(amount, cap) == IF cap = Off THEN FALSE ELSE amount > cap

\* A wallet's own cap overrides the global one; NULL falls back to it.
Effective(own, global) == IF own = Off THEN global ELSE own

DailyCap(policy) == Effective(policy.daily, Config.dailyCap)

WeeklyCap(policy) == Effective(policy.weekly, Config.weeklyCap)

Trusted(policy) == policy.skill = "trusted" \/ Config.trusted

\* Over the cap that asks for a confirmation, a group also has the threshold
\* from which an owner or admin must give it.
AdminThreshold(req) == req.group /\ Exceeds(req.cost, req.groupAdminCap)

\* Mutant: the requested cost is left out of the daily sum.
DailyRuleMutant(req, policy) == Exceeds(req.spentDay, DailyCap(policy))

DailyRule(req, policy) == Exceeds(req.spentDay + req.cost, DailyCap(policy))

\* The rules of evaluate in the order of the code: when a rule applies, and
\* the outcome it decides.
Rules(req, policy) ==
    << <<req.status = "disabled", "deny_frozen">>,
       <<policy.skill = "blocked", "deny_skill_blocked">>,
       <<DailyRule(req, policy), "deny_daily_cap">>,
       <<Exceeds(req.spentWeek + req.cost, WeeklyCap(policy)), "deny_weekly_cap">>,
       <<req.group /\ Exceeds(req.spentDay + req.cost, Config.groupDailyCap), "deny_daily_cap">>,
       <<~Config.allowHighValue /\ req.cost > Config.hardCap, "deny_hard_cap">>,
       <<Trusted(policy) /\ req.cost <= Config.trustedMax, "allow">>,
       <<Config.firstSpend /\ ~req.hasSpent, "require_confirmation">>,
       <<Exceeds(req.cost, req.confirmationCap) /\ AdminThreshold(req),
         "require_group_admin_approval">>,
       <<Exceeds(req.cost, req.confirmationCap), "require_confirmation">>,
       <<Exceeds(req.cost, Config.highCost), "require_confirmation">>,
       <<TRUE, "allow">> >>

\* The first rule that applies decides.
Evaluate(req, policy) ==
    LET rules == Rules(req, policy)
        i == CHOOSE j \in DOMAIN rules :
                 rules[j][1] /\ \A k \in 1 .. (j - 1) : ~rules[k][1]
    IN  rules[i][2]

=============================================================================
