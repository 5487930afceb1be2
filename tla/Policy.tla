------------------------------- MODULE Policy -------------------------------
(***************************************************************************)
(* Who may do what: the default rules of the API and how they are asked.   *)
(***************************************************************************)
EXTENDS TLC

\* The checks rules are made of (policies/base.py).
Checks == {"admin_or_owner", "admin_api", "deny_everybody"}

Owner(names) == [r \in names |-> "admin_or_owner"]
Admin(names) == [r \in names |-> "admin_api"]
Nobody(names) == [r \in names |-> "deny_everybody"]

ContainerCreateRules ==
    Owner({"container:create", "container:delete"}) @@
    Admin({"container:create:runtime", "container:create:requested_destination",
           "container:create:image_pull_policy",
           "container:delete_all_projects", "container:delete_force"}) @@
    Nobody({"container:create:privileged"})

ContainerGetRules ==
    Owner({"container:get_one", "container:get_all", "container:update"}) @@
    Admin({"container:get_one:host", "container:get_one:image_pull_policy",
           "container:get_one:privileged", "container:get_one:runtime",
           "container:get_one_all_projects", "container:get_all_all_projects"})

ContainerRunRules ==
    Owner({"container:start", "container:stop", "container:reboot",
           "container:pause", "container:unpause", "container:logs",
           "container:execute", "container:execute_resize", "container:kill",
           "container:rename", "container:attach"})

ContainerReachRules ==
    Owner({"container:resize", "container:top", "container:get_archive",
           "container:put_archive", "container:stats", "container:commit",
           "container:add_security_group", "container:network_detach",
           "container:network_attach", "container:remove_security_group",
           "container:rebuild", "container:resize_container"})

ContainerActionRules ==
    Owner({"container:actions"}) @@ Admin({"container:action:events"})

CapsuleRules ==
    Owner({"capsule:create", "capsule:delete", "capsule:get", "capsule:get_all"}) @@
    Admin({"capsule:delete_all_projects", "capsule:get:host",
           "capsule:get_one_all_projects", "capsule:get_all_all_projects"})

ImageRules ==
    Owner({"image:search"}) @@
    Admin({"image:pull", "image:get_all", "image:get_one", "image:delete"})

RegistryRules ==
    Owner({"registry:create", "registry:delete", "registry:get_one",
           "registry:get_all", "registry:update"}) @@
    Admin({"registry:get_all_all_projects"})

\* register_rules: what the enforcer of zun-api knows.
rules ==
    ContainerCreateRules @@ ContainerGetRules @@ ContainerRunRules @@
    ContainerReachRules @@ ContainerActionRules @@ CapsuleRules @@
    ImageRules @@ RegistryRules

\* enforce, of a target that belongs to a project; a rule nobody registered
\* lets nobody pass.
enforce(ctx, rule, project) ==
    /\ rule \in DOMAIN rules
    /\ CASE rules[rule] = "admin_or_owner" -> ctx.admin \/ ctx.project = project
         [] rules[rule] = "admin_api" -> ctx.admin
         [] OTHER -> FALSE

\* enforce without a target: the target is the caller's own project.
enforce_own(ctx, rule) == enforce(ctx, rule, ctx.project)

\* authorize with might_not_exist: a rule nobody registered lets everybody pass.
authorize(ctx, rule, project) == rule \in DOMAIN rules => enforce(ctx, rule, project)

\* RequestContext.can, of the caller's own project.
can(ctx, rule) == authorize(ctx, rule, ctx.project)
=============================================================================
