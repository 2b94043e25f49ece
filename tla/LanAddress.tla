------------------------------ MODULE LanAddress ------------------------------
(* The private LAN address of the local pair. rotate-lan-ip.py replaces it in five files,
   the running services and Nextcloud's settings; enable-lan-https.py starts the TLS
   gateway and trusts its Docker address. Both may run at once, fail or be killed. *)
EXTENDS Integers, FiniteSets

CONSTANTS Hosts,           \* LAN addresses of this machine
          GatewayIPs,      \* addresses Docker may give the HTTPS gateway
          MaxMishaps       \* bound: edits, moves of the gateway, kills and failures

\* Somebody else's proxy is not an address of the gateway.
ASSUME LanAssumption == Hosts # {} /\ GatewayIPs \cap {"none", "other"} = {}

VARIABLES
  lanFiles,   \* per managed file: the address it names, and whether somebody edited it
  lanRun,     \* what the running containers were started with
  settings,   \* Nextcloud's runtime settings
  gateway,    \* the HTTPS gateway: its Docker address and the saved one
  rotation,   \* the running rotate-lan-ip.py
  helpers,    \* running enable-lan-https.py: the operator's own and the rotation's
  backup,     \* what the latest complete backup holds
  mishaps

lanVars == <<lanFiles, lanRun, settings, gateway, rotation, helpers, backup, mishaps>>

(* managed_files *)
Rewritten == {"compose", "nginx", "san"}
ManagedFiles == Rewritten \cup {"cert", "env"}
Callers == {"operator", "rotation"}
NoHost == "none"

LanInit ==
  LET h == CHOOSE host \in Hosts : TRUE IN
    /\ lanFiles = [f \in ManagedFiles |-> [at |-> h, edited |-> FALSE]]
    /\ lanRun = [nextcloud |-> h, app |-> h, appStart |-> 0, resolved |-> 0,
                 https |-> h, lan |-> [at |-> h, name |-> h, cert |-> h]]
    /\ settings = [domains |-> {h}, proxies |-> {"other"}, scheme |-> "http", cli |-> h, web |-> h]
    /\ gateway = [ip |-> "none", saved |-> "none"]
    /\ rotation = [pc |-> "idle", old |-> NoHost, new |-> NoHost, domains |-> {}, checked |-> FALSE,
                   carried |-> {}, expected |-> lanFiles, lasting |-> FALSE]
    /\ helpers = [c \in Callers |-> [pc |-> "idle", host |-> h, stale |-> {}, ip |-> "none",
                                     proxies |-> {}, failed |-> FALSE]]
    /\ backup = <<>>
    /\ mishaps = 0

LanStays(changed) ==
  /\ "files" \in changed \/ UNCHANGED lanFiles
  /\ "run" \in changed \/ UNCHANGED lanRun
  /\ "settings" \in changed \/ UNCHANGED settings
  /\ "gateway" \in changed \/ UNCHANGED gateway
  /\ "rotation" \in changed \/ UNCHANGED rotation
  /\ "helpers" \in changed \/ UNCHANGED helpers
  /\ "backup" \in changed \/ UNCHANGED backup
  /\ "mishaps" \in changed \/ UNCHANGED mishaps
RotationAt(pc) == rotation.pc = pc
RotationGoto(pc) == rotation' = [rotation EXCEPT !.pc = pc]
NamedIn(f) == lanFiles[f].at
Mishap == mishaps < MaxMishaps /\ mishaps' = mishaps + 1

----------------------------------------------------------------------------
(* rotate-lan-ip.py: what preflight insists on. The new contents are made from the files as
   it reads them, with the edits they carry then; their hashes are taken afterwards. *)
CertifiedFor(host) == NamedIn("cert") = host                  \* validate_ca_and_old_cert
ComposeNames(host) == NamedIn("env") = host /\ NamedIn("compose") = host      \* validate_compose
ImagesMatch == lanRun.app = NamedIn("compose")                \* ensure_running_image_matches
RuntimeAt(host) ==                                       \* read_runtime
  host \in settings.domains /\ settings.cli = host /\ settings.web = host
Preflight(old) ==
  /\ NamedIn("env") = old /\ \A f \in Rewritten : NamedIn(f) = old
  /\ ComposeNames(old) /\ CertifiedFor(old)
  /\ ImagesMatch /\ RuntimeAt(old)

RotationStarts ==
  /\ RotationAt("idle")
  /\ \E old, new \in Hosts :
       /\ old # new /\ Preflight(old)
       /\ rotation' = [rotation EXCEPT !.pc = "hash", !.old = old, !.new = new,
                          !.carried = {f \in Rewritten : lanFiles[f].edited},
                          !.expected = lanFiles, !.checked = FALSE, !.lasting = FALSE]
  /\ LanStays({"rotation"})
HashFiles ==
  /\ RotationAt("hash")
  /\ rotation' = [rotation EXCEPT !.pc = "backup", !.expected = lanFiles]
  /\ LanStays({"rotation"})

(* backup_files: each file must still be the one preflight hashed. *)
BackUp ==
  /\ RotationAt("backup")
  /\ lanFiles = rotation.expected
  /\ backup' = lanFiles
  /\ RotationGoto("compose")
  /\ LanStays({"backup", "rotation"})

(* atomic_replace looks at the file's hash, and then renames the new one over it: an edit
   after the hash, or after the file was read, is gone. *)
ReplaceOrder == [compose |-> "nginx", nginx |-> "san", san |-> "cert", cert |-> "env"]
CheckHash ==
  /\ rotation.pc \in DOMAIN ReplaceOrder /\ ~rotation.checked
  /\ lanFiles[rotation.pc] = rotation.expected[rotation.pc]
  /\ rotation' = [rotation EXCEPT !.checked = TRUE]
  /\ LanStays({"rotation"})
AtomicReplace ==
  /\ rotation.pc \in DOMAIN ReplaceOrder /\ rotation.checked
  /\ lanFiles' = [lanFiles EXCEPT ![rotation.pc] =
                     [at |-> rotation.new, edited |-> rotation.pc \in rotation.carried]]
  /\ rotation' = [rotation EXCEPT !.pc = ReplaceOrder[@], !.checked = FALSE]
  /\ LanStays({"files", "rotation"})

(* External: allow-lan-access.sh rewrites .env, restarts Nextcloud and admits the host. *)
AllowLanAccess ==
  /\ RotationAt("env")
  /\ lanFiles' = [lanFiles EXCEPT !["env"] = [@ EXCEPT !.at = rotation.new]]
  /\ lanRun' = [lanRun EXCEPT !.nextcloud = rotation.new]
  /\ settings' = [settings EXCEPT !.domains = @ \cup {rotation.new},
                                  !.scheme = "http", !.cli = rotation.new]
  /\ RotationGoto("app")
  /\ LanStays({"files", "run", "settings", "rotation"})

(* Compose restarts a service whose configuration changed. The frontend resolves the
   app's address when it starts, so it is recreated in any case, and after the app. *)
RestartApp ==
  /\ RotationAt("app")
  /\ ComposeNames(rotation.new) /\ CertifiedFor(rotation.new)
  /\ lanRun' = IF lanRun.app = NamedIn("compose") THEN lanRun
               ELSE [lanRun EXCEPT !.app = NamedIn("compose"), !.appStart = 1 - @]
  /\ RotationGoto("frontend")
  /\ LanStays({"run", "rotation"})
RestartFrontend ==
  /\ RotationAt("frontend")
  /\ lanRun' = [lanRun EXCEPT !.resolved = lanRun.appStart]
  /\ RotationGoto("gateway")
  /\ LanStays({"run", "rotation"})
RestartLanGateway ==
  /\ RotationAt("gateway")
  /\ lanRun' = IF lanRun.lan.at = NamedIn("compose") THEN lanRun
               ELSE [lanRun EXCEPT !.lan = [at |-> NamedIn("compose"), name |-> NamedIn("nginx"),
                                            cert |-> NamedIn("cert")]]
  /\ RotationGoto("read")
  /\ LanStays({"run", "rotation"})

(* verify_weknora_https, then trusted_domains is read, and written without the old host. *)
ReadDomains ==
  /\ RotationAt("read")
  /\ ImagesMatch
  /\ lanRun.lan.at = rotation.new /\ lanRun.lan.cert = rotation.new
  /\ {rotation.old, rotation.new} \subseteq settings.domains
  /\ rotation' = [rotation EXCEPT !.pc = "write", !.domains = settings.domains \ {rotation.old}]
  /\ LanStays({"rotation"})
WriteDomains ==
  /\ RotationAt("write")
  /\ settings' = [settings EXCEPT !.domains = rotation.domains]
  /\ RotationGoto("web")
  /\ LanStays({"settings", "rotation"})
SetWebUrl ==
  /\ RotationAt("web")
  /\ settings' = [settings EXCEPT !.web = rotation.new]
  /\ RotationGoto("https")
  /\ LanStays({"settings", "rotation"})

(* The HTTPS helper runs as a command of its own; then everything is read back. *)
RotationSettled ==
  /\ RotationAt("settled")
  /\ settings.domains = rotation.domains
  /\ settings.scheme = "https" /\ settings.cli = rotation.new /\ settings.web = rotation.new
  /\ ComposeNames(rotation.new)
  /\ rotation' = [rotation EXCEPT !.pc = "idle", !.lasting = TRUE]
  /\ LanStays({"rotation"})

(* Any command fails, or the process is killed: before the backup nothing was changed;
   afterwards "restore from the backup" is what remains. *)
RotationFails ==
  /\ ~RotationAt("idle") /\ ~RotationAt("broken")
  /\ Mishap
  /\ RotationGoto(IF rotation.pc \in {"hash", "backup"} THEN "idle" ELSE "broken")
  /\ LanStays({"rotation", "mishaps"})
(* External: somebody puts the backup back and restarts what it describes. *)
RestoreBackup ==
  /\ RotationAt("broken") /\ helpers["rotation"].pc = "idle"
  /\ backup = rotation.expected \/ lanFiles = rotation.expected
  /\ lanFiles' = rotation.expected
  /\ lanRun' = [lanRun EXCEPT !.nextcloud = rotation.old, !.app = rotation.old,
                  !.appStart = 0, !.resolved = 0, !.https = rotation.old,
                  !.lan = [at |-> rotation.old, name |-> rotation.old, cert |-> rotation.old]]
  /\ settings' = [settings EXCEPT !.domains = {rotation.old}, !.cli = rotation.old,
                                  !.web = rotation.old]
  /\ RotationGoto("idle")
  /\ LanStays({"files", "run", "settings", "rotation"})

----------------------------------------------------------------------------
(* enable-lan-https.py *)
HelperAt(c, pc) == helpers[c].pc = pc
HelperGoto(c, pc) == helpers' = [helpers EXCEPT ![c] = [@ EXCEPT !.pc = pc]]
Locked == {"up", "proxies", "cli", "verify", "save"}
GatewayLockFree == \A c \in Callers : helpers[c].pc \notin Locked

(* The listener and its certificate are read before the lock is taken. *)
HelperStarts(c) ==
  /\ HelperAt(c, "idle")
  /\ IF c = "rotation" THEN RotationAt("https") /\ RotationGoto("helping") ELSE UNCHANGED rotation
  /\ CertifiedFor(NamedIn("env"))
  /\ helpers' = [helpers EXCEPT ![c] = [@ EXCEPT !.pc = "lock", !.host = NamedIn("env")]]
  /\ LanStays({"helpers", "rotation"})
HelperLocksUnread(c) ==   \* mutant: the trusted domains are not read under the lock
  /\ HelperAt(c, "lock") /\ GatewayLockFree
  /\ helpers' = [helpers EXCEPT ![c] = [@ EXCEPT !.pc = "up", !.stale = {gateway.saved, gateway.ip} \ {"none"}]]
  /\ LanStays({"helpers"})
HelperLocks(c) ==
  /\ HelperAt(c, "lock") /\ GatewayLockFree
  /\ helpers[c].host \in settings.domains
  /\ helpers' = [helpers EXCEPT ![c] = [@ EXCEPT !.pc = "up", !.stale = {gateway.saved, gateway.ip} \ {"none"}]]
  /\ LanStays({"helpers"})
(* Compose recreates the gateway when its listener changed; Docker picks its address. *)
GatewayUp(c) ==
  /\ HelperAt(c, "up")
  /\ \E ip \in GatewayIPs :
       /\ lanRun.https = NamedIn("env") /\ gateway.ip # "none" => ip = gateway.ip
       /\ gateway' = [gateway EXCEPT !.ip = ip]
       /\ helpers' = [helpers EXCEPT ![c] = [@ EXCEPT !.pc = "proxies", !.ip = ip]]
  /\ lanRun' = [lanRun EXCEPT !.https = NamedIn("env")]
  /\ LanStays({"gateway", "helpers", "run"})
DesiredProxies(c) == (settings.proxies \ (helpers[c].stale \ {helpers[c].ip})) \cup {helpers[c].ip}
SetProxies(c) ==
  /\ HelperAt(c, "proxies")
  /\ settings' = [settings EXCEPT !.proxies = DesiredProxies(c)]
  /\ helpers' = [helpers EXCEPT ![c] = [@ EXCEPT !.pc = "cli", !.proxies = DesiredProxies(c)]]
  /\ LanStays({"settings", "helpers"})
SetCliUrl(c) ==
  /\ HelperAt(c, "cli")
  /\ settings' = [settings EXCEPT !.scheme = "https", !.cli = helpers[c].host]
  /\ HelperGoto(c, "verify")
  /\ LanStays({"settings", "helpers"})
VerifyLogin(c) ==
  /\ HelperAt(c, "verify")
  /\ settings.proxies = helpers[c].proxies
  /\ settings.scheme = "https" /\ settings.cli = helpers[c].host
  /\ lanRun.https = helpers[c].host /\ lanRun.nextcloud = helpers[c].host
  /\ helpers[c].host \in settings.domains
  /\ HelperGoto(c, "save")
  /\ LanStays({"helpers"})
WriteGatewayState(c) ==
  /\ HelperAt(c, "save")
  /\ gateway' = [gateway EXCEPT !.saved = helpers[c].ip]
  /\ HelperGoto(c, "idle")
  /\ IF c = "rotation" /\ RotationAt("helping") THEN RotationGoto("settled") ELSE UNCHANGED rotation
  /\ LanStays({"gateway", "helpers", "rotation"})
HelperFails(c) ==
  /\ ~HelperAt(c, "idle")
  /\ Mishap
  /\ helpers' = [helpers EXCEPT ![c] = [@ EXCEPT !.pc = "idle", !.failed = TRUE]]
  /\ IF c = "rotation" /\ RotationAt("helping") THEN RotationGoto("broken") ELSE UNCHANGED rotation
  /\ LanStays({"helpers", "rotation", "mishaps"})

(* External: Docker gives the gateway another address; somebody edits a managed file. *)
GatewayMoves ==
  /\ Mishap
  /\ \E ip \in GatewayIPs : gateway.ip \notin {"none", ip} /\ gateway' = [gateway EXCEPT !.ip = ip]
  /\ LanStays({"gateway", "mishaps"})
FileEdited ==
  /\ ~RotationAt("idle") /\ Mishap
  /\ \E f \in ManagedFiles :
       ~lanFiles[f].edited /\ lanFiles' = [lanFiles EXCEPT ![f] = [@ EXCEPT !.edited = TRUE]]
  /\ LanStays({"files", "mishaps"})

LanStep ==
  \/ RotationStarts \/ HashFiles \/ BackUp \/ CheckHash \/ AtomicReplace \/ AllowLanAccess \/ RestartApp
  \/ RestartFrontend \/ RestartLanGateway \/ ReadDomains \/ WriteDomains \/ SetWebUrl
  \/ RotationSettled \/ RotationFails \/ RestoreBackup \/ GatewayMoves \/ FileEdited
  \/ \E c \in Callers :
       \/ HelperStarts(c) \/ HelperLocks(c) \/ GatewayUp(c) \/ SetProxies(c) \/ SetCliUrl(c)
       \/ VerifyLogin(c) \/ WriteGatewayState(c) \/ HelperFails(c)

----------------------------------------------------------------------------
(* After a rotation that reported success nothing names the old address any more: not a
   file, not a running service, not a setting, even when an HTTPS helper that read the old
   address was still waiting for the lock (rotate-lan-ip.py apply, enable). *)
RotationLasts ==
  rotation.lasting =>
    /\ \A f \in ManagedFiles : NamedIn(f) = rotation.new
    /\ lanRun.nextcloud = rotation.new /\ lanRun.app = rotation.new
    /\ lanRun.lan = [at |-> rotation.new, name |-> rotation.new, cert |-> rotation.new]
    /\ lanRun.resolved = lanRun.appStart /\ lanRun.https = rotation.new
    /\ settings.domains = {rotation.new} /\ settings.web = rotation.new /\ settings.cli = rotation.new

(* Before the first change to a managed file a backup holds all of them exactly as the
   rotation hashed them, whoever edits them meanwhile ("a mode-0600 backup is kept before
   the first change"). *)
BackupBeforeChange ==
  ~RotationAt("idle") /\ (\E f \in ManagedFiles : NamedIn(f) # rotation.expected[f].at) =>
    backup = rotation.expected

(* While no helper failed, only the gateway's current address is trusted once a helper is
   done, however often Docker moved the gateway; foreign proxies are never removed
   (desired_proxies). *)
ProxiesAccounted ==
  /\ "other" \in settings.proxies
  /\ (\A c \in Callers : ~helpers[c].failed /\ HelperAt(c, "idle"))
       /\ gateway.saved = gateway.ip /\ gateway.ip # "none" =>
       settings.proxies = {"other", gateway.ip}
=============================================================================
