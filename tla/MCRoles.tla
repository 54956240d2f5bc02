------------------------------- MODULE MCRoles -------------------------------
(* A user, two guilds and two communities, of which one opens the area there *)
(* and is the one command_security asks for.                                 *)
EXTENDS RoleReconciliation, TLC

CONSTANTS a, b, there

MCAllowed == (a :> {}) @@ (b :> {there})
Setting(platform, secured, mode, remove, registerNew) ==
    [platform |-> platform, secured |-> secured, mode |-> mode, remove |-> remove,
     registerNew |-> registerNew]
MCConfigs == {Setting("discord", TRUE, "disable-user", TRUE, TRUE),
              Setting("discord", TRUE, "delete", TRUE, TRUE),
              Setting("discord", FALSE, "disable-user", TRUE, FALSE),
              Setting("discord", TRUE, "ignore", TRUE, FALSE),
              Setting("telegram", TRUE, "disable-user", TRUE, FALSE),
              Setting("telegram", FALSE, "delete", TRUE, FALSE)}

ASSUME RolesAssumption == ConstantsOK
=============================================================================
