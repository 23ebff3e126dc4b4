-------------------------- MODULE MCSettingsCache --------------------------
(* SettingsCache with the platform, two tenants and a site of the first.   *)
EXTENDS SettingsCache, TLC

CONSTANTS t1, t2, site

MCScope ==
    {Platform, TenantScope(t1), TenantScope(t2), [kind |-> "site", tenant |-> t1, id |-> site]}
Symmetry == Permutations(Sessions)
=============================================================================
