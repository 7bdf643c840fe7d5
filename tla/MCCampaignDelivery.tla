------------------------- MODULE MCCampaignDelivery -------------------------
(* Values for the model checker. *)
EXTENDS CampaignDelivery, TLC

\* One campaign with a row for each lead, or two campaigns for the same lead.
OwnLead == [r \in Rows |-> r]
OneLead == [r \in Rows |-> CHOOSE l \in Leads : TRUE]

\* The leads (channels) name the same user, or a user each.
SharedContact == [l \in Leads |-> CHOOSE c \in Contacts : TRUE]
OwnContact    == [l \in Leads |-> l]

OneDispatcher  == {{"campaign_worker"}, {"validator"}}
BothAtOnce     == {{"campaign_worker", "validator"}}
ValidatorAlone == {{"validator"}}
WorkerAlone    == {{"campaign_worker"}}

LiveOnly == {"live"}

\* outreach:dry_run is never set; or it overrules the environment for a while.
NoKey     == [m \in Modes |-> {}]
Overruled == [m \in Modes |-> CASE m = "live"    -> {"unset", "on"}
                              [] m = "env_dry" -> {"unset", "off"}
                              [] OTHER         -> {"on"}]

RowSymmetry == Permutations(Rows)
=============================================================================
