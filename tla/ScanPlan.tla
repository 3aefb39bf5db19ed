------------------------------- MODULE ScanPlan -------------------------------
(***************************************************************************)
(* The steps of a scan: the profile and the modules of the user expanded   *)
(* into tools (shared/profiles.ts, shared/modules.ts). Arguments, labels   *)
(* and time limits are left out.                                           *)
(*                                                                         *)
(* A plan is [profile, modules, only, scope]: "modules" in the order the   *)
(* user gave; "only" and "scope" are what a custom profile enables.        *)
(***************************************************************************)
EXTENDS Sequences, SequencesExt, Filter

Tools == {"nmap", "whatweb", "http", "tls", "wpscan", "subfinder", "dnsx", "rdap", "email", "nuclei", "retire",
          "httpx", "testssl", "feroxbuster", "waybackurls", "osv", "crawl-rules", "security-txt", "page-recon",
          "header-posture", "dns-hardening", "dnssec", "ip-intel"}

\* Disabled tools can be named by a custom profile only.
IsEnabled(plan, t) == plan.profile = "custom" => t \in plan.only

PortScope(plan) ==
    CASE plan.profile = "custom" -> plan.scope
      [] plan.profile \in {"quick", "php"} -> "common"
      [] plan.profile = "standard" -> "top100"
      [] OTHER -> "top1000"

\* WPScan is planned in a custom profile only; processJob adds it elsewhere.
ExpandProfile(plan) ==
    Keep(<<"nmap", "whatweb", "http", "tls", "wpscan">>,
         {t \in Tools : /\ IsEnabled(plan, t)
                        /\ plan.profile = "php" => t \notin {"nmap", "tls"}
                        /\ t = "wpscan" => plan.profile = "custom"})

ModuleTools ==
    [id \in {"asset-discovery", "vuln-scan", "tls-hardening", "content-discovery", "cve-context",
             "remediation-playbook", "web-trust", "domain-hardening", "infra-intel"} |->
        CASE id = "asset-discovery" -> <<"subfinder", "dnsx", "rdap", "email">>
          [] id = "vuln-scan" -> <<"nuclei", "retire", "httpx">>
          [] id = "tls-hardening" -> <<"testssl">>
          [] id = "content-discovery" -> <<"feroxbuster", "waybackurls">>
          [] id = "cve-context" -> <<"osv">>
          [] id = "remediation-playbook" -> <<>>
          [] id = "web-trust" -> <<"crawl-rules", "security-txt", "page-recon", "header-posture">>
          [] id = "domain-hardening" -> <<"dns-hardening", "dnssec">>
          [] id = "infra-intel" -> <<"ip-intel">>]

ExpandModules(plan) ==
    FlattenSeq([i \in 1..Len(plan.modules) |-> ModuleTools[plan.modules[i]]])

Steps(plan) == ExpandProfile(plan) \o ExpandModules(plan)

===============================================================================
