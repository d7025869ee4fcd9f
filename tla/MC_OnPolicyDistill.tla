-------------------------- MODULE MC_OnPolicyDistill --------------------------
EXTENDS OnPolicyDistill

OneOnly == {"one_step_off"}

===============================================================================
