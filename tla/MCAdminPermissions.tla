-------------------------- MODULE MCAdminPermissions --------------------------
(***************************************************************************)
(* Three mappings of permission admin and one of manager, three threads.   *)
(***************************************************************************)
EXTENDS AdminPermissions

MCMappings == {"adminRole", "adminGroup", "adminEmail", "managerRole"}
MCPermission == [m \in MCMappings |-> IF m = "managerRole" THEN "manager" ELSE "admin"]
MCMatches == [m \in MCMappings |->
  CASE m = "adminRole" -> {"ada"}
    [] m = "adminGroup" -> {"ada", "bea"}
    [] m = "adminEmail" -> {"cleo"}
    [] m = "managerRole" -> {"bea"}]
MCBootstrap == {"adminRole", "managerRole"}
===============================================================================
