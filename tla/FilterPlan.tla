----------------------------- MODULE FilterPlan ------------------------------
(***************************************************************************)
(* What a session's event subscriptions ask of Naryo                       *)
(* (internal/naryo/pipeline_filter_plan.go): one filter for each session,  *)
(* chosen from the list in its configuration, or all events.               *)
(*                                                                         *)
(* A plan is its key: the topic or the contract that the filter is for,    *)
(* AllEvents, or NoPlan.  The prefixes "H:" and "E:" keep the keys of      *)
(* topics and contracts apart, so here they are disjoint sets.             *)
(***************************************************************************)
EXTENDS SequencesExt

CONSTANTS
    Topics,        \* Hedera topic IDs
    Contracts,     \* addresses of token contracts, normalized
    Unset,         \* a target that is missing or blank, or topic 0.0.0
    DefaultTopic,  \* NARYO_DEFAULT_HCS_TOPIC_ID, or Unset
    AllowAll,      \* NARYO_ALLOW_ALL_BROADCASTER_FALLBACK
    AllEvents,     \* key of the plan without a filter
    NoPlan         \* nothing to provision: an error

ASSUME FilterPlanAssumption ==
    /\ Topics \intersect Contracts = {}
    /\ {Unset, AllEvents, NoPlan} \intersect (Topics \union Contracts) = {}
    /\ DefaultTopic \in Topics \union {Unset}
    /\ AllowAll \in BOOLEAN
    /\ AllEvents # NoPlan

Scoped == Topics \union Contracts
Plans == Scoped \union {AllEvents}

\* An entry of eventSubscriptions.subscriptions; any other kind is ignored.
Subscription ==
    [kind: {"hedera_hcs_topic"}, target: Topics \union {Unset}] \union
    [kind: {"erc20_transfer"}, target: Contracts \union {Unset}] \union
    [kind: {"other"}, target: {Unset}]

\* Where a list has the entries of a kind that name a target.
Naming(kind, subs) == {i \in DOMAIN subs : subs[i].kind = kind /\ subs[i].target # Unset}

\* A mutated choice: the last topic wins.
PlanOfLast(subs) ==
    LET topics == Naming("hedera_hcs_topic", subs)
        transfers == Naming("erc20_transfer", subs)
    IN CASE topics # {} -> subs[Max(topics)].target
         [] topics = {} /\ DefaultTopic # Unset -> DefaultTopic
         [] topics = {} /\ DefaultTopic = Unset /\ transfers # {} -> subs[Max(transfers)].target
         [] OTHER -> IF AllowAll THEN AllEvents ELSE NoPlan

\* resolvePipelineFilterPlan: the first topic, else the default topic, else
\* the first contract, else all events if that is allowed.
Plan(subs) ==
    LET topics == Naming("hedera_hcs_topic", subs)
        transfers == Naming("erc20_transfer", subs)
    IN CASE topics # {} -> subs[Min(topics)].target
         [] topics = {} /\ DefaultTopic # Unset -> DefaultTopic
         [] topics = {} /\ DefaultTopic = Unset /\ transfers # {} -> subs[Min(transfers)].target
         [] OTHER -> IF AllowAll THEN AllEvents ELSE NoPlan

\* The kind in the name of a session's filter ("-hcs", "-evm").
FilterKind(plan) == IF plan \in Topics THEN "hcs" ELSE "evm"

\* A mutated report: a second topic is not reported.
UnservedOneKind(subs) ==
    LET plan == Plan(subs) IN
    {i \in DOMAIN subs :
        \/ plan \in Topics /\ subs[i].kind = "erc20_transfer"
        \/ plan \in Contracts /\ subs[i].kind = "hedera_hcs_topic"
        \/ plan \in Contracts /\ subs[i].kind = "erc20_transfer" /\ subs[i].target # plan}

\* The entries that the dashboard reports as not provisioned in Naryo.
Unserved(subs) ==
    LET plan == Plan(subs) IN
    {i \in DOMAIN subs :
        \/ plan \in Topics /\ subs[i].kind = "erc20_transfer"
        \/ plan \in Topics /\ subs[i].kind = "hedera_hcs_topic" /\ subs[i].target # plan
        \/ plan \in Contracts /\ subs[i].kind = "hedera_hcs_topic"
        \/ plan \in Contracts /\ subs[i].kind = "erc20_transfer" /\ subs[i].target # plan}
=============================================================================
