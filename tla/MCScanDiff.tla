------------------------------ MODULE MCScanDiff ------------------------------
(* A small pool of facts and troubles at a time, so that every finding and   *)
(* every way to fail meets those that depend on it.                          *)
EXTENDS ScanDiff

MCFullPlan == [profile |-> "deep", only |-> {}, scope |-> "common",
               modules |-> <<"asset-discovery", "vuln-scan", "tls-hardening", "content-discovery", "cve-context",
                             "remediation-playbook", "web-trust", "domain-hardening", "infra-intel">>]
MCCustomPlan == [profile |-> "custom", only |-> {"nmap", "whatweb", "http", "wpscan"}, scope |-> "common",
                 modules |-> <<"cve-context", "remediation-playbook">>]
MCPlans == {MCFullPlan, MCCustomPlan}

Of(t, facts) == {<<t, fact>> : fact \in facts}
Both(tools, fact) == {<<t, fact>> : t \in tools}
Trouble(t, hows) == {[tool |-> t, how |-> how, lost |-> {}] : how \in hows}
Cuts(t, losses) == {[tool |-> t, how |-> "cut", lost |-> lost] : lost \in losses}

PortPool == <<{Of("nmap", {"22"}), Of("nmap", {"8443"}), Of("nmap", {"80", "3306"})},
              Trouble("nmap", {"dies", "garbled"}) \cup Trouble("http", {"down"})>>
HeaderPool == <<{Both({"http", "httpx", "header-posture"}, "no csp header"), Of("http", {"no nosniff header"}),
                 Of("header-posture", {"no hsts"}) \cup Of("page-recon", {"mixed content"})},
                Trouble("http", {"https", "down"}) \cup Trouble("page-recon", {"down"})
                \cup Trouble("httpx", {"dies", "error"})>>
PhpPool == <<{Both({"whatweb", "http", "httpx"}, "php"), Of("http", {"php-7.4.33", "nginx"}), Of("httpx", {"php-8.2.35"})},
             Trouble("whatweb", {"dies", "garbled", "exits"}) \cup Trouble("http", {"https", "down"})
             \cup Trouble("httpx", {"dies"})>>
CookiePool == <<{Both({"httpx", "header-posture"}, "insecure cookie"), Of("header-posture", {"no samesite", "weak csp"}),
                 Both({"http", "httpx"}, "cloudflare")},
                Trouble("http", {"https"}) \cup Trouble("httpx", {"dies", "error"}) \cup Trouble("page-recon", {"down"})>>
TlsPool == <<{Both({"tls", "testssl", "nuclei"}, "expired"), Both({"tls", "testssl"}, "tls10"),
              Of("tls", {"self-signed"}) \cup Of("testssl", {"heartbleed"}),
              Of("tls", {"expiring"}) \cup Of("httpx", {"certificate date"})},
             Trouble("tls", {"dies", "down"}) \cup Trouble("testssl", {"dies", "garbled"})
             \cup Cuts("nuclei", {{"expired"}})>>
SoftwarePool == <<{Both({"whatweb", "osv", "nmap"}, "apache"), Both({"whatweb", "osv", "retire", "httpx"}, "jquery"),
                   Both({"whatweb", "httpx"}, "wordpress") \cup Of("wpscan", {"plugins"})},
                  Trouble("whatweb", {"dies", "garbled"}) \cup Trouble("osv", {"dies", "request"})
                  \cup Trouble("retire", {"download", "garbled"}) \cup Trouble("wpscan", {"dies", "garbled"})>>
TemplatePool == <<{Of("nuclei", {"exposed panel"}), Of("nuclei", {"old admin"}), Of("retire", {"lodash"})},
                  Cuts("nuclei", {{"old admin"}, {"old admin", "exposed panel"}}) \cup Trouble("nuclei", {"dies"})>>
PathPool == <<{Both({"feroxbuster", "waybackurls", "live"}, "/.env"), Of("feroxbuster", {"/admin", "/forbidden"}),
               Both({"waybackurls", "live"}, "/dump.sql") \cup Of("waybackurls", {"/login?token"})},
              Cuts("feroxbuster", {{"/admin"}}) \cup Cuts("waybackurls", {{"/.env"}, {"/dump.sql"}})
              \cup {[tool |-> "waybackurls", how |-> "unchecked", lost |-> {"/.env"}]}
              \cup Trouble("waybackurls", {"dies"})>>
DmarcPool == <<{Of("email", {"no dmarc"}), Both({"email", "dns-hardening"}, "dmarc p=none"),
                Of("email", {"mx", "no starttls", "no mta-sts"})},
               Trouble("email", {"dies", "txt", "mx", "smtp"}) \cup Trouble("dns-hardening", {"txt", "dkim"})>>
SpfPool == <<{Of("email", {"no spf", "no rua"}), Of("email", {"spf all", "many spf"}), Of("email", {"mx", "no tls-rpt"})},
             Trouble("email", {"dies", "txt", "mx"})>>
DomainPool == <<{Of("dns-hardening", {"no caa", "dmarc"}), Of("dnssec", {"unsigned"}), Of("ip-intel", {"hosted"})},
                Trouble("dns-hardening", {"caa", "dkim"}) \cup Trouble("dnssec", {"doh"}) \cup Trouble("ip-intel", {"geo"})>>
CrawlPool == <<{Of("crawl-rules", {"robots /admin"}) \cup Of("subfinder", {"mail"}), Of("security-txt", {"no security.txt"}),
                Of("page-recon", {"no sri"}) \cup Of("dnsx", {"a"}) \cup Of("header-posture", {"weak hsts", "csp report-only"})},
               Trouble("crawl-rules", {"robots", "both"}) \cup Trouble("security-txt", {"one path"})
               \cup Trouble("page-recon", {"down"}) \cup Cuts("subfinder", {{"mail"}}) \cup Trouble("rdap", {"down"})
               \cup Trouble("dnsx", {"lookups"})>>

MCPools == {PortPool, HeaderPool, PhpPool, CookiePool, TlsPool, SoftwarePool, TemplatePool, PathPool, DmarcPool,
            SpfPool, DomainPool, CrawlPool}
SoftwareOnly == {<<{Both({"whatweb", "osv"}, "apache"), Both({"whatweb", "osv", "retire"}, "jquery"),
                    Of("whatweb", {"wordpress"}), Of("nmap", {"22"})},
                   Trouble("whatweb", {"dies"})>>}
ArchiveOnly == {<<{Both({"waybackurls", "live"}, "/.env"), Of("feroxbuster", {"/admin"}),
                   Both({"waybackurls", "live"}, "/dump.sql"), Of("nmap", {"22"})},
                  Trouble("waybackurls", {"dies"})>>}
===============================================================================
