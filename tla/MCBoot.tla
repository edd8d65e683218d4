-------------------------------- MODULE MCBoot --------------------------------
\* Finite values for Boot: production, a production without its R2 settings,
\* and development with and without parts of the photo settings.
EXTENDS Boot

MCEnvironments ==
    {[dev |-> FALSE, set |-> Settings],
     [dev |-> FALSE, set |-> Settings \ {"r2"}],
     [dev |-> TRUE,  set |-> {}],
     [dev |-> TRUE,  set |-> {"cloudflare", "jwt", "r2"}],
     [dev |-> TRUE,  set |-> {"cloudflare", "quotas"}]}
=============================================================================
