------------------------- MODULE Operations_proofs --------------------------
(***************************************************************************)
(* What the operators' tools promise, for every value of the constants.    *)
(* Here are the inductive invariants of the tools that rotate addresses,   *)
(* measure and restore; those of the other tools are in Tools_proofs.      *)
(* OperationsStep is a step of one tool and a stutter of every other one,  *)
(* so every tool's invariant holds under OperationsSpec, and the promises  *)
(* of Operations are conjunctions of what they imply.                      *)
(***************************************************************************)
EXTENDS Operations, Tools_proofs, FiniteSetTheorems

-----------------------------------------------------------------------------
(* The LAN and gateway addresses: how far a rotation got tells what every file, service and
   setting names, and only one helper at a time is past the gateway's lock. *)
NamedFiles == [ManagedFiles -> [at : Hosts, edited : BOOLEAN]]
HelperPlaces == {"idle", "lock"} \cup Locked
Proxies == GatewayIPs \cup {"other"}
LanHelpers ==
  [pc : HelperPlaces, host : Hosts, stale : SUBSET GatewayIPs, ip : GatewayIPs \cup {"none"},
   proxies : SUBSET Proxies, failed : BOOLEAN]
Rewriting == {"compose", "nginx", "san", "cert", "env"}
Verifying == {"read", "write", "web", "https", "helping", "settled"}
Restarting == {"app", "frontend", "gateway"}
RotationPlaces == {"idle", "hash", "backup", "broken"} \cup Rewriting \cup Restarting \cup Verifying
Rotations ==
  [pc : RotationPlaces,
   old : Hosts \cup {NoHost}, new : Hosts \cup {NoHost}, domains : SUBSET Hosts, checked : BOOLEAN,
   carried : SUBSET Rewritten, expected : NamedFiles, lasting : BOOLEAN]
RunFields == {"nextcloud", "app", "appStart", "resolved", "https", "lan"}
LanSettings ==
  [domains : SUBSET Hosts, proxies : SUBSET Proxies, scheme : {"http", "https"}, cli : Hosts, web : Hosts]
Gateways == [ip : GatewayIPs \cup {"none"}, saved : GatewayIPs \cup {"none"}]
LanTypes ==
  /\ lanFiles \in NamedFiles /\ rotation \in Rotations /\ helpers \in [Callers -> LanHelpers]
  /\ settings \in LanSettings /\ gateway \in Gateways
  /\ DOMAIN lanRun = RunFields /\ lanRun = [field \in RunFields |-> lanRun[field]]
AllAt(host) == \A f \in ManagedFiles : NamedIn(f) = host
Replaced ==
  [compose |-> {}, nginx |-> {"compose"}, san |-> {"compose", "nginx"}, cert |-> Rewritten,
   env |-> Rewritten \cup {"cert"}]
FilesKnown ==
  /\ RotationAt("idle") => AllAt(NamedIn("env"))
  /\ ~RotationAt("idle") =>
       /\ rotation.old \in Hosts /\ rotation.new \in Hosts /\ rotation.old # rotation.new
       /\ \A f \in ManagedFiles : rotation.expected[f].at = rotation.old
  /\ rotation.pc \in {"hash", "backup"} => AllAt(rotation.old)
  /\ rotation.pc \in Rewriting =>
       \A f \in ManagedFiles :
         NamedIn(f) = IF f \in Replaced[rotation.pc] THEN rotation.new ELSE rotation.old
  /\ rotation.pc \in Restarting \cup Verifying => AllAt(rotation.new)
BackupKnown ==
  /\ rotation.pc \in Rewriting \cup Restarting \cup Verifying => backup = rotation.expected
  /\ RotationAt("broken") => backup = rotation.expected \/ AllAt(rotation.old)
LanAll(host) == [at |-> host, name |-> host, cert |-> host]
RunKnown ==
  /\ RotationAt("idle") => lanRun.lan = LanAll(NamedIn("env"))
  /\ rotation.pc \in {"hash", "backup"} \cup Rewriting \cup Restarting => lanRun.lan = LanAll(rotation.old)
  /\ rotation.pc \in Verifying => lanRun.lan = LanAll(rotation.new)
  /\ rotation.pc \in Restarting \cup Verifying => lanRun.nextcloud = rotation.new
  /\ rotation.pc \in {"frontend", "gateway"} \cup Verifying => lanRun.app = rotation.new
  /\ rotation.pc \in {"gateway"} \cup Verifying => lanRun.resolved = lanRun.appStart
DomainsKnown ==
  /\ RotationAt("idle") => settings.domains = {NamedIn("env")}
  /\ rotation.pc \in {"hash", "backup"} \cup Rewriting => settings.domains = {rotation.old}
  /\ rotation.pc \in Restarting \cup {"read", "write"} => settings.domains = {rotation.old, rotation.new}
  /\ RotationAt("write") => rotation.domains = {rotation.new}
  /\ rotation.pc \in Verifying \ {"read", "write"} => settings.domains = {rotation.new}
HelpersKnown ==
  /\ \A c, d \in Callers : helpers[c].pc \in Locked /\ helpers[d].pc \in Locked => c = d
  /\ rotation.pc \notin {"helping", "broken"} => HelperAt("rotation", "idle")
  /\ RotationAt("helping") /\ helpers["rotation"].pc \in Locked \ {"up"} =>
       lanRun.https = rotation.new
  /\ RotationAt("settled") => lanRun.https = rotation.new
  /\ RotationAt("settled") \/ rotation.lasting =>
       \A c \in Callers : helpers[c].pc \in Locked => helpers[c].host = rotation.new
  /\ \A c \in Callers : helpers[c].pc \in Locked \ {"up"} => helpers[c].ip # "none"
ForeignAnd(ips) == {"other"} \cup (ips \ {"none"})
ProxiesKnown ==
  /\ "other" \in settings.proxies
  /\ (\A c \in Callers : ~helpers[c].failed) =>
       /\ GatewayLockFree => settings.proxies = ForeignAnd({gateway.saved})
       /\ \A c \in Callers :
            /\ helpers[c].pc \in {"up", "proxies"} =>
                 settings.proxies = ForeignAnd({gateway.saved}) /\ {gateway.saved} \ {"none"} \subseteq helpers[c].stale
            /\ helpers[c].pc \in Locked \ {"up", "proxies"} => settings.proxies = ForeignAnd({helpers[c].ip})
LanLasting == rotation.lasting => RotationAt("idle") /\ RotationLasts
LanInv ==
  /\ LanTypes /\ FilesKnown /\ BackupKnown /\ RunKnown /\ DomainsKnown /\ HelpersKnown /\ ProxiesKnown
  /\ LanLasting
(* The control points by name *)
LEMMA Places ==
  /\ {"idle", "lock", "up", "proxies", "cli", "verify", "save"} \subseteq HelperPlaces
  /\ {"idle", "hash", "backup", "broken", "compose", "nginx", "san", "cert", "env", "app", "frontend", "gateway",
      "read", "write", "web", "https", "helping", "settled"} \subseteq RotationPlaces
BY DEF HelperPlaces, RotationPlaces, Locked, Rewriting, Verifying, Restarting

(* What the steps make of the rotation's record is such a record. *)
LEMMA RotationForms ==
  ASSUME rotation \in Rotations, NEW p \in RotationPlaces
  PROVE  /\ [rotation EXCEPT !.pc = p] \in Rotations
         /\ [rotation EXCEPT !.checked = TRUE] \in Rotations
         /\ [rotation EXCEPT !.pc = p, !.checked = FALSE] \in Rotations
         /\ [rotation EXCEPT !.pc = p, !.lasting = TRUE] \in Rotations
         /\ \A d \in SUBSET Hosts : [rotation EXCEPT !.pc = p, !.domains = d] \in Rotations
         /\ \A e \in NamedFiles : [rotation EXCEPT !.pc = p, !.expected = e] \in Rotations
         /\ \A old, new \in Hosts, e \in NamedFiles, fs \in SUBSET Rewritten :
              [rotation EXCEPT !.pc = p, !.old = old, !.new = new, !.carried = fs, !.expected = e,
                               !.checked = FALSE, !.lasting = FALSE] \in Rotations
BY DEF Rotations

(* What a helper's step makes of its record is such a record. *)
LEMMA HelperForms ==
  ASSUME helpers \in [Callers -> LanHelpers], NEW c \in Callers, NEW p \in HelperPlaces
  PROVE  /\ [helpers EXCEPT ![c] = [@ EXCEPT !.pc = p]] \in [Callers -> LanHelpers]
         /\ [helpers EXCEPT ![c] = [@ EXCEPT !.pc = p, !.failed = TRUE]] \in [Callers -> LanHelpers]
         /\ \A h \in Hosts : [helpers EXCEPT ![c] = [@ EXCEPT !.pc = p, !.host = h]] \in [Callers -> LanHelpers]
         /\ \A s \in SUBSET GatewayIPs :
              [helpers EXCEPT ![c] = [@ EXCEPT !.pc = p, !.stale = s]] \in [Callers -> LanHelpers]
         /\ \A ip \in GatewayIPs \cup {"none"} : 
              [helpers EXCEPT ![c] = [@ EXCEPT !.pc = p, !.ip = ip]] \in [Callers -> LanHelpers]
         /\ \A s \in SUBSET Proxies :
              [helpers EXCEPT ![c] = [@ EXCEPT !.pc = p, !.proxies = s]] \in [Callers -> LanHelpers]
<1>1. helpers[c] \in LanHelpers  OBVIOUS
<1>2. \A r \in LanHelpers : [helpers EXCEPT ![c] = r] \in [Callers -> LanHelpers]  OBVIOUS
<1>3. /\ [helpers[c] EXCEPT !.pc = p] \in LanHelpers
      /\ [helpers[c] EXCEPT !.pc = p, !.failed = TRUE] \in LanHelpers
      /\ \A h \in Hosts : [helpers[c] EXCEPT !.pc = p, !.host = h] \in LanHelpers
      /\ \A s \in SUBSET GatewayIPs : [helpers[c] EXCEPT !.pc = p, !.stale = s] \in LanHelpers
      /\ \A ip \in GatewayIPs \cup {"none"} : [helpers[c] EXCEPT !.pc = p, !.ip = ip] \in LanHelpers
      /\ \A s \in SUBSET Proxies : [helpers[c] EXCEPT !.pc = p, !.proxies = s] \in LanHelpers
  BY <1>1 DEF LanHelpers
<1> QED  BY <1>2, <1>3

(* What the steps make of Nextcloud's settings are settings. *)
LEMMA SettingForms ==
  ASSUME settings \in LanSettings
  PROVE  /\ \A p \in SUBSET Proxies : [settings EXCEPT !.proxies = p] \in LanSettings
         /\ \A d \in SUBSET Hosts : [settings EXCEPT !.domains = d] \in LanSettings
         /\ \A h \in Hosts : [settings EXCEPT !.scheme = "https", !.cli = h] \in LanSettings
         /\ \A h \in Hosts : [settings EXCEPT !.web = h] \in LanSettings
         /\ \A h \in Hosts : [settings EXCEPT !.domains = @ \cup {h}, !.scheme = "http", !.cli = h] \in LanSettings
         /\ \A h \in Hosts : [settings EXCEPT !.domains = {h}, !.cli = h, !.web = h] \in LanSettings
BY DEF LanSettings

(* A file that is replaced or edited stays a managed file. *)
LEMMA FileForms ==
  ASSUME lanFiles \in NamedFiles, NEW f \in ManagedFiles
  PROVE  /\ \A h \in Hosts : [lanFiles EXCEPT ![f] = [@ EXCEPT !.at = h]] \in NamedFiles
         /\ \A h \in Hosts, b \in BOOLEAN : [lanFiles EXCEPT ![f] = [at |-> h, edited |-> b]] \in NamedFiles
         /\ [lanFiles EXCEPT ![f] = [@ EXCEPT !.edited = TRUE]] \in NamedFiles
BY DEF NamedFiles

(* A managed file names a host. *)
LEMMA NamedHosts ==
  ASSUME lanFiles \in NamedFiles
  PROVE  \A f \in ManagedFiles : NamedIn(f) \in Hosts
BY DEF NamedFiles, NamedIn

(* The managed files by name *)
LEMMA FileNames == ManagedFiles = {"compose", "nginx", "san", "cert", "env"}
BY DEF ManagedFiles, Rewritten

(* Preflight leaves everything as it was. *)
LEMMA RotationStartsKeeps ==
  ASSUME LanInv, RotationStarts
  PROVE  LanInv'
<1> USE DEF LanInv
<1>1. ProxiesKnown'
  BY DEF RotationStarts, LanStays, ProxiesKnown, GatewayLockFree, ForeignAnd, Locked, HelperAt, Callers
<1>2. LanTypes'
  <2>1. rotation' \in Rotations
    <3>1. PICK old, new \in Hosts :
            rotation' = [rotation EXCEPT !.pc = "hash", !.old = old, !.new = new,
                           !.carried = {f \in Rewritten : lanFiles[f].edited},
                           !.expected = lanFiles, !.checked = FALSE, !.lasting = FALSE]
      BY DEF RotationStarts
    <3>2. {f \in Rewritten : lanFiles[f].edited} \in SUBSET Rewritten
      OBVIOUS
    <3> QED  BY <3>1, <3>2, RotationForms, Places DEF LanTypes
  <2> QED  BY <2>1 DEF RotationStarts, LanStays, RotationAt, Preflight, LanTypes
<1>3. FilesKnown'
  BY DEF RotationStarts, LanStays, RotationAt, Preflight, FilesKnown, AllAt, NamedIn, Replaced, Rewriting, Verifying, Restarting, Rewritten, ManagedFiles, LanTypes, Rotations
<1>4. BackupKnown'
  BY DEF RotationStarts, LanStays, RotationAt, Preflight, BackupKnown, AllAt, NamedIn, Rewriting, Verifying, Restarting, LanTypes, Rotations
<1>5. RunKnown'
  BY DEF RotationStarts, LanStays, RotationAt, Preflight, RunKnown, Rewriting, Verifying, Restarting, LanAll, NamedIn, LanTypes, Rotations
<1>6. DomainsKnown'
  BY DEF RotationStarts, LanStays, RotationAt, Preflight, DomainsKnown, Rewriting, Verifying, Restarting, NamedIn, LanTypes, Rotations
<1>7. HelpersKnown'
  BY DEF RotationStarts, LanStays, RotationAt, Preflight, HelpersKnown, HelperAt, Locked, Callers, LanTypes, Rotations, LanHelpers
<1>8. LanLasting'
  BY DEF RotationStarts, LanStays, RotationAt, Preflight, LanLasting, RotationLasts, NamedIn, LanTypes, Rotations
<1> QED  BY <1>1, <1>2, <1>3, <1>4, <1>5, <1>6, <1>7, <1>8

(* The hashes are those of the old files. *)
LEMMA HashFilesKeeps ==
  ASSUME LanInv, HashFiles
  PROVE  LanInv'
<1> USE DEF LanInv
<1>1. ProxiesKnown'
  BY DEF HashFiles, LanStays, ProxiesKnown, GatewayLockFree, ForeignAnd, Locked, HelperAt, Callers
<1>2. LanTypes'
  <2>1. rotation' \in Rotations
    BY RotationForms, Places DEF HashFiles, LanStays, RotationAt, LanTypes
  <2> QED  BY <2>1 DEF HashFiles, LanStays, RotationAt, LanTypes
<1>3. FilesKnown'
  BY DEF HashFiles, LanStays, RotationAt, FilesKnown, AllAt, NamedIn, Replaced, Rewriting, Verifying, Restarting, Rewritten, ManagedFiles, LanTypes, Rotations
<1>4. BackupKnown'
  BY DEF HashFiles, LanStays, RotationAt, BackupKnown, AllAt, NamedIn, Rewriting, Verifying, Restarting, LanTypes, Rotations
<1>5. RunKnown'
  BY DEF HashFiles, LanStays, RotationAt, RunKnown, Rewriting, Verifying, Restarting, LanAll, NamedIn, LanTypes, Rotations
<1>6. DomainsKnown'
  BY DEF HashFiles, LanStays, RotationAt, DomainsKnown, Rewriting, Verifying, Restarting, NamedIn, LanTypes, Rotations
<1>7. HelpersKnown'
  BY DEF HashFiles, LanStays, RotationAt, HelpersKnown, HelperAt, Locked, Callers, LanTypes, Rotations, LanHelpers
<1>8. LanLasting'
  BY DEF HashFiles, LanStays, RotationAt, LanLasting, RotationLasts, NamedIn, LanTypes, Rotations
<1> QED  BY <1>1, <1>2, <1>3, <1>4, <1>5, <1>6, <1>7, <1>8

(* The backup is what preflight hashed. *)
LEMMA BackUpKeeps ==
  ASSUME LanInv, BackUp
  PROVE  LanInv'
<1> USE DEF LanInv
<1>1. ProxiesKnown'
  BY DEF BackUp, LanStays, ProxiesKnown, GatewayLockFree, ForeignAnd, Locked, HelperAt, Callers
<1>2. LanTypes'
  <2>1. rotation' \in Rotations
    BY RotationForms, Places DEF BackUp, LanStays, RotationGoto, RotationAt, LanTypes
  <2> QED  BY <2>1 DEF BackUp, LanStays, RotationGoto, RotationAt, LanTypes
<1>3. FilesKnown'
  BY DEF BackUp, LanStays, RotationGoto, RotationAt, FilesKnown, AllAt, NamedIn, Replaced, Rewriting, Verifying, Restarting, Rewritten, ManagedFiles, LanTypes, Rotations
<1>4. BackupKnown'
  BY DEF BackUp, LanStays, RotationGoto, RotationAt, BackupKnown, AllAt, NamedIn, Rewriting, Verifying, Restarting, LanTypes, Rotations
<1>5. RunKnown'
  BY DEF BackUp, LanStays, RotationGoto, RotationAt, RunKnown, Rewriting, Verifying, Restarting, LanAll, NamedIn, LanTypes, Rotations
<1>6. DomainsKnown'
  BY DEF BackUp, LanStays, RotationGoto, RotationAt, DomainsKnown, Rewriting, Verifying, Restarting, NamedIn, LanTypes, Rotations
<1>7. HelpersKnown'
  BY DEF BackUp, LanStays, RotationGoto, RotationAt, HelpersKnown, HelperAt, Locked, Callers, LanTypes, Rotations, LanHelpers
<1>8. LanLasting'
  BY DEF BackUp, LanStays, RotationGoto, RotationAt, LanLasting, RotationLasts, NamedIn, LanTypes, Rotations
<1> QED  BY <1>1, <1>2, <1>3, <1>4, <1>5, <1>6, <1>7, <1>8

(* Nothing changes but what the rotation knows. *)
LEMMA CheckHashKeeps ==
  ASSUME LanInv, CheckHash
  PROVE  LanInv'
<1> USE DEF LanInv
<1>1. ProxiesKnown'
  BY DEF CheckHash, LanStays, ProxiesKnown, GatewayLockFree, ForeignAnd, Locked, HelperAt, Callers
<1>2. LanTypes'
  <2>1. rotation' \in Rotations
    BY RotationForms, Places DEF CheckHash, LanStays, ReplaceOrder, LanTypes
  <2> QED  BY <2>1 DEF CheckHash, LanStays, ReplaceOrder, LanTypes
<1>3. FilesKnown'
  BY DEF CheckHash, LanStays, ReplaceOrder, FilesKnown, AllAt, NamedIn, Replaced, RotationAt, Rewriting, Verifying, Restarting, Rewritten, ManagedFiles, LanTypes, Rotations
<1>4. BackupKnown'
  BY DEF CheckHash, LanStays, ReplaceOrder, BackupKnown, AllAt, NamedIn, RotationAt, Rewriting, Verifying, Restarting, LanTypes, Rotations
<1>5. RunKnown'
  BY DEF CheckHash, LanStays, ReplaceOrder, RunKnown, RotationAt, Rewriting, Verifying, Restarting, LanAll, NamedIn, LanTypes, Rotations
<1>6. DomainsKnown'
  BY DEF CheckHash, LanStays, ReplaceOrder, DomainsKnown, RotationAt, Rewriting, Verifying, Restarting, NamedIn, LanTypes, Rotations
<1>7. HelpersKnown'
  BY DEF CheckHash, LanStays, ReplaceOrder, HelpersKnown, RotationAt, HelperAt, Locked, Callers, LanTypes, Rotations, LanHelpers
<1>8. LanLasting'
  BY DEF CheckHash, LanStays, ReplaceOrder, LanLasting, RotationAt, RotationLasts, NamedIn, LanTypes, Rotations
<1> QED  BY <1>1, <1>2, <1>3, <1>4, <1>5, <1>6, <1>7, <1>8

(* One more file names the new address. *)
LEMMA AtomicReplaceKeeps ==
  ASSUME LanInv, AtomicReplace
  PROVE  LanInv'
<1> USE DEF LanInv
<1>1. ProxiesKnown'
  BY DEF AtomicReplace, LanStays, ProxiesKnown, GatewayLockFree, ForeignAnd, Locked, HelperAt, Callers
<1>2. LanTypes'
  <2>1. lanFiles' \in NamedFiles
    <3>1. rotation.pc \in ManagedFiles /\ rotation.new \in Hosts
      BY FileNames DEF AtomicReplace, ReplaceOrder, LanTypes, FilesKnown, RotationAt
    <3>2. ASSUME NEW b \in BOOLEAN,
                 lanFiles' = [lanFiles EXCEPT ![rotation.pc] = [at |-> rotation.new, edited |-> b]]
          PROVE  lanFiles' \in NamedFiles
      BY <3>1, <3>2, FileForms DEF LanTypes
    <3>3. (rotation.pc \in rotation.carried) \in BOOLEAN
      OBVIOUS
    <3> QED  BY <3>2, <3>3 DEF AtomicReplace
  <2>2. rotation' \in Rotations
    <3>1. ReplaceOrder[rotation.pc] \in RotationPlaces
      BY Places DEF AtomicReplace, ReplaceOrder
    <3> QED  BY <3>1, RotationForms DEF AtomicReplace, LanTypes
  <2> QED  BY <2>1, <2>2 DEF AtomicReplace, LanStays, ReplaceOrder, LanTypes
<1>3. FilesKnown'
  BY DEF AtomicReplace, LanStays, ReplaceOrder, FilesKnown, AllAt, NamedIn, Replaced, RotationAt, Rewriting, Verifying, Restarting, Rewritten, ManagedFiles, LanTypes, NamedFiles, Rotations
<1>4. BackupKnown'
  BY DEF AtomicReplace, LanStays, ReplaceOrder, BackupKnown, AllAt, NamedIn, RotationAt, Rewriting, Verifying, Restarting, LanTypes, NamedFiles, Rotations
<1>5. RunKnown'
  BY DEF AtomicReplace, LanStays, ReplaceOrder, RunKnown, RotationAt, Rewriting, Verifying, Restarting, LanAll, NamedIn, LanTypes, NamedFiles, Rotations
<1>6. DomainsKnown'
  BY DEF AtomicReplace, LanStays, ReplaceOrder, DomainsKnown, RotationAt, Rewriting, Verifying, Restarting, NamedIn, LanTypes, NamedFiles, Rotations
<1>7. HelpersKnown'
  BY DEF AtomicReplace, LanStays, ReplaceOrder, HelpersKnown, RotationAt, HelperAt, Locked, Callers, LanTypes, Rotations, LanHelpers
<1>8. LanLasting'
  BY DEF AtomicReplace, LanStays, ReplaceOrder, LanLasting, RotationAt, RotationLasts, NamedIn, LanTypes, NamedFiles, Rotations
<1> QED  BY <1>1, <1>2, <1>3, <1>4, <1>5, <1>6, <1>7, <1>8

(* The last file and Nextcloud name the new address. *)
LEMMA AllowLanAccessKeeps ==
  ASSUME LanInv, AllowLanAccess
  PROVE  LanInv'
<1> USE DEF LanInv
<1>1. LanTypes'
  <2>1. lanFiles' \in NamedFiles
    BY FileForms, Places, FileNames DEF AllowLanAccess, LanStays, RotationGoto, RotationAt, LanTypes, FilesKnown
  <2>2. rotation' \in Rotations
    BY RotationForms, Places DEF AllowLanAccess, LanStays, RotationGoto, RotationAt, LanTypes, FilesKnown
  <2>3. settings' \in LanSettings
    BY SettingForms, Places DEF AllowLanAccess, LanStays, RotationGoto, RotationAt, LanTypes, FilesKnown
  <2> QED  BY <2>1, <2>2, <2>3 DEF AllowLanAccess, LanStays, RotationGoto, RotationAt, LanTypes, RunFields
<1>2. FilesKnown'
  BY DEF AllowLanAccess, LanStays, RotationGoto, RotationAt, FilesKnown, AllAt, NamedIn, Replaced, Rewriting, Verifying, Restarting, Rewritten, ManagedFiles, LanTypes, NamedFiles, Rotations
<1>3. BackupKnown'
  BY DEF AllowLanAccess, LanStays, RotationGoto, RotationAt, BackupKnown, AllAt, NamedIn, Rewriting, Verifying, Restarting, LanTypes, NamedFiles, Rotations
<1>4. RunKnown'
  BY DEF AllowLanAccess, LanStays, RotationGoto, RotationAt, RunKnown, Rewriting, Verifying, Restarting, LanAll, NamedIn, LanTypes, NamedFiles, Rotations, RunFields
<1>5. DomainsKnown'
  BY DEF AllowLanAccess, LanStays, RotationGoto, RotationAt, DomainsKnown, Rewriting, Verifying, Restarting, NamedIn, LanTypes, NamedFiles, Rotations, LanSettings
<1>6. HelpersKnown'
  BY DEF AllowLanAccess, LanStays, RotationGoto, RotationAt, HelpersKnown, HelperAt, Locked, Callers, LanTypes, Rotations, RunFields, LanHelpers
<1>7. ProxiesKnown'
  BY DEF AllowLanAccess, LanStays, RotationGoto, RotationAt, ProxiesKnown, GatewayLockFree, ForeignAnd, Locked, HelperAt, Callers, LanTypes, LanSettings, LanHelpers
<1>8. LanLasting'
  BY DEF AllowLanAccess, LanStays, RotationGoto, RotationAt, LanLasting, RotationLasts, NamedIn, LanTypes, NamedFiles, Rotations, RunFields, LanSettings
<1> QED  BY <1>1, <1>2, <1>3, <1>4, <1>5, <1>6, <1>7, <1>8

(* The app serves the new address. *)
LEMMA RestartAppKeeps ==
  ASSUME LanInv, RestartApp
  PROVE  LanInv'
<1> USE DEF LanInv
<1>1. ProxiesKnown'
  BY DEF RestartApp, LanStays, ProxiesKnown, GatewayLockFree, ForeignAnd, Locked, HelperAt, Callers
<1>2. LanTypes'
  <2>1. rotation' \in Rotations
    BY RotationForms, Places, NamedHosts, FileNames DEF RestartApp, LanStays, RotationGoto, RotationAt, NamedIn, ComposeNames, CertifiedFor, LanTypes, FilesKnown
  <2> QED  BY <2>1 DEF RestartApp, LanStays, RotationGoto, RotationAt, NamedIn, ComposeNames, CertifiedFor, LanTypes, RunFields
<1>3. FilesKnown'
  BY DEF RestartApp, LanStays, RotationGoto, RotationAt, NamedIn, ComposeNames, CertifiedFor, FilesKnown, AllAt, Replaced, Rewriting, Verifying, Restarting, Rewritten, ManagedFiles, LanTypes, Rotations
<1>4. BackupKnown'
  BY DEF RestartApp, LanStays, RotationGoto, RotationAt, NamedIn, ComposeNames, CertifiedFor, BackupKnown, AllAt, Rewriting, Verifying, Restarting, LanTypes, Rotations
<1>5. RunKnown'
  BY DEF RestartApp, LanStays, RotationGoto, RotationAt, NamedIn, ComposeNames, CertifiedFor, RunKnown, Rewriting, Verifying, Restarting, LanAll, LanTypes, Rotations, RunFields
<1>6. DomainsKnown'
  BY DEF RestartApp, LanStays, RotationGoto, RotationAt, NamedIn, ComposeNames, CertifiedFor, DomainsKnown, Rewriting, Verifying, Restarting, LanTypes, Rotations
<1>7. HelpersKnown'
  BY DEF RestartApp, LanStays, RotationGoto, RotationAt, NamedIn, ComposeNames, CertifiedFor, HelpersKnown, HelperAt, Locked, Callers, LanTypes, Rotations, RunFields, LanHelpers
<1>8. LanLasting'
  BY DEF RestartApp, LanStays, RotationGoto, RotationAt, NamedIn, ComposeNames, CertifiedFor, LanLasting, RotationLasts, LanTypes, Rotations, RunFields
<1> QED  BY <1>1, <1>2, <1>3, <1>4, <1>5, <1>6, <1>7, <1>8

(* The frontend knows the app's place. *)
LEMMA RestartFrontendKeeps ==
  ASSUME LanInv, RestartFrontend
  PROVE  LanInv'
<1> USE DEF LanInv
<1>1. ProxiesKnown'
  BY DEF RestartFrontend, LanStays, ProxiesKnown, GatewayLockFree, ForeignAnd, Locked, HelperAt, Callers
<1>2. LanTypes'
  <2>1. rotation' \in Rotations
    BY RotationForms, Places DEF RestartFrontend, LanStays, RotationGoto, RotationAt, LanTypes
  <2> QED  BY <2>1 DEF RestartFrontend, LanStays, RotationGoto, RotationAt, LanTypes, RunFields
<1>3. FilesKnown'
  BY DEF RestartFrontend, LanStays, RotationGoto, RotationAt, FilesKnown, AllAt, NamedIn, Replaced, Rewriting, Verifying, Restarting, Rewritten, ManagedFiles, LanTypes, Rotations
<1>4. BackupKnown'
  BY DEF RestartFrontend, LanStays, RotationGoto, RotationAt, BackupKnown, AllAt, NamedIn, Rewriting, Verifying, Restarting, LanTypes, Rotations
<1>5. RunKnown'
  BY DEF RestartFrontend, LanStays, RotationGoto, RotationAt, RunKnown, Rewriting, Verifying, Restarting, LanAll, NamedIn, LanTypes, Rotations, RunFields
<1>6. DomainsKnown'
  BY DEF RestartFrontend, LanStays, RotationGoto, RotationAt, DomainsKnown, Rewriting, Verifying, Restarting, NamedIn, LanTypes, Rotations
<1>7. HelpersKnown'
  BY DEF RestartFrontend, LanStays, RotationGoto, RotationAt, HelpersKnown, HelperAt, Locked, Callers, LanTypes, Rotations, RunFields, LanHelpers
<1>8. LanLasting'
  BY DEF RestartFrontend, LanStays, RotationGoto, RotationAt, LanLasting, RotationLasts, NamedIn, LanTypes, Rotations, RunFields
<1> QED  BY <1>1, <1>2, <1>3, <1>4, <1>5, <1>6, <1>7, <1>8

(* The LAN gateway serves the new address. *)
LEMMA RestartLanGatewayKeeps ==
  ASSUME LanInv, RestartLanGateway
  PROVE  LanInv'
<1> USE DEF LanInv
<1>1. ProxiesKnown'
  BY DEF RestartLanGateway, LanStays, ProxiesKnown, GatewayLockFree, ForeignAnd, Locked, HelperAt, Callers
<1>2. LanTypes'
  <2>1. rotation' \in Rotations
    BY RotationForms, Places, NamedHosts, FileNames DEF RestartLanGateway, LanStays, RotationGoto, RotationAt, NamedIn, LanTypes
  <2> QED  BY <2>1 DEF RestartLanGateway, LanStays, RotationGoto, RotationAt, NamedIn, LanTypes, RunFields
<1>3. FilesKnown'
  BY DEF RestartLanGateway, LanStays, RotationGoto, RotationAt, NamedIn, FilesKnown, AllAt, Replaced, Rewriting, Verifying, Restarting, Rewritten, ManagedFiles, LanTypes, Rotations
<1>4. BackupKnown'
  BY DEF RestartLanGateway, LanStays, RotationGoto, RotationAt, NamedIn, BackupKnown, AllAt, Rewriting, Verifying, Restarting, LanTypes, Rotations
<1>5. RunKnown'
  BY FileNames DEF RestartLanGateway, LanStays, RotationGoto, RotationAt, NamedIn, RunKnown, Rewriting, Verifying, Restarting, LanAll, FilesKnown, AllAt, LanTypes, Rotations, RunFields
<1>6. DomainsKnown'
  BY DEF RestartLanGateway, LanStays, RotationGoto, RotationAt, NamedIn, DomainsKnown, Rewriting, Verifying, Restarting, LanTypes, Rotations
<1>7. HelpersKnown'
  BY DEF RestartLanGateway, LanStays, RotationGoto, RotationAt, NamedIn, HelpersKnown, HelperAt, Locked, Callers, LanTypes, Rotations, RunFields, LanHelpers
<1>8. LanLasting'
  BY DEF RestartLanGateway, LanStays, RotationGoto, RotationAt, NamedIn, LanLasting, RotationLasts, LanTypes, Rotations, RunFields
<1> QED  BY <1>1, <1>2, <1>3, <1>4, <1>5, <1>6, <1>7, <1>8

(* The domains to write are the new address alone. *)
LEMMA ReadDomainsKeeps ==
  ASSUME LanInv, ReadDomains
  PROVE  LanInv'
<1> USE DEF LanInv
<1>1. ProxiesKnown'
  BY DEF ReadDomains, LanStays, ProxiesKnown, GatewayLockFree, ForeignAnd, Locked, HelperAt, Callers
<1>2. LanTypes'
  <2>1. rotation' \in Rotations
    <3>1. settings.domains \ {rotation.old} \in SUBSET Hosts
      BY DEF LanTypes, LanSettings
    <3> QED  BY <3>1, RotationForms, Places DEF ReadDomains, LanTypes
  <2> QED  BY <2>1 DEF ReadDomains, LanStays, RotationAt, ImagesMatch, LanTypes
<1>3. FilesKnown'
  BY DEF ReadDomains, LanStays, RotationAt, ImagesMatch, FilesKnown, AllAt, NamedIn, Replaced, Rewriting, Verifying, Restarting, Rewritten, ManagedFiles, LanTypes, Rotations
<1>4. BackupKnown'
  BY DEF ReadDomains, LanStays, RotationAt, ImagesMatch, BackupKnown, AllAt, NamedIn, Rewriting, Verifying, Restarting, LanTypes, Rotations
<1>5. RunKnown'
  BY DEF ReadDomains, LanStays, RotationAt, ImagesMatch, RunKnown, Rewriting, Verifying, Restarting, LanAll, NamedIn, LanTypes, Rotations
<1>6. DomainsKnown'
  BY DEF ReadDomains, LanStays, RotationAt, ImagesMatch, DomainsKnown, Rewriting, Verifying, Restarting, NamedIn, FilesKnown, LanTypes, Rotations
<1>7. HelpersKnown'
  BY DEF ReadDomains, LanStays, RotationAt, ImagesMatch, HelpersKnown, HelperAt, Locked, Callers, LanTypes, Rotations, LanHelpers
<1>8. LanLasting'
  BY DEF ReadDomains, LanStays, RotationAt, ImagesMatch, LanLasting, RotationLasts, NamedIn, LanTypes, Rotations
<1> QED  BY <1>1, <1>2, <1>3, <1>4, <1>5, <1>6, <1>7, <1>8

(* The old address is no longer trusted. *)
LEMMA WriteDomainsKeeps ==
  ASSUME LanInv, WriteDomains
  PROVE  LanInv'
<1> USE DEF LanInv
<1>1. LanTypes'
  <2>1. rotation' \in Rotations
    BY RotationForms, Places DEF WriteDomains, LanStays, RotationGoto, RotationAt, LanTypes
  <2>2. settings' \in LanSettings
    <3>1. rotation.domains \in SUBSET Hosts
      BY DEF LanTypes, Rotations
    <3> QED  BY <3>1, SettingForms DEF WriteDomains, LanTypes
  <2> QED  BY <2>1, <2>2 DEF WriteDomains, LanStays, RotationGoto, RotationAt, LanTypes
<1>2. FilesKnown'
  BY DEF WriteDomains, LanStays, RotationGoto, RotationAt, FilesKnown, AllAt, NamedIn, Replaced, Rewriting, Verifying, Restarting, Rewritten, ManagedFiles, LanTypes, Rotations
<1>3. BackupKnown'
  BY DEF WriteDomains, LanStays, RotationGoto, RotationAt, BackupKnown, AllAt, NamedIn, Rewriting, Verifying, Restarting, LanTypes, Rotations
<1>4. RunKnown'
  BY DEF WriteDomains, LanStays, RotationGoto, RotationAt, RunKnown, Rewriting, Verifying, Restarting, LanAll, NamedIn, LanTypes, Rotations
<1>5. DomainsKnown'
  BY DEF WriteDomains, LanStays, RotationGoto, RotationAt, DomainsKnown, Rewriting, Verifying, Restarting, NamedIn, LanTypes, Rotations, LanSettings
<1>6. HelpersKnown'
  BY DEF WriteDomains, LanStays, RotationGoto, RotationAt, HelpersKnown, HelperAt, Locked, Callers, LanTypes, Rotations, LanHelpers
<1>7. ProxiesKnown'
  BY DEF WriteDomains, LanStays, RotationGoto, RotationAt, ProxiesKnown, GatewayLockFree, ForeignAnd, Locked, HelperAt, Callers, LanTypes, LanSettings, LanHelpers
<1>8. LanLasting'
  BY DEF WriteDomains, LanStays, RotationGoto, RotationAt, LanLasting, RotationLasts, NamedIn, LanTypes, Rotations, LanSettings
<1> QED  BY <1>1, <1>2, <1>3, <1>4, <1>5, <1>6, <1>7, <1>8

(* The web URL names the new address. *)
LEMMA SetWebUrlKeeps ==
  ASSUME LanInv, SetWebUrl
  PROVE  LanInv'
<1> USE DEF LanInv
<1>1. LanTypes'
  <2>1. rotation' \in Rotations
    BY RotationForms, Places DEF SetWebUrl, LanStays, RotationGoto, RotationAt, LanTypes, FilesKnown
  <2>2. settings' \in LanSettings
    BY SettingForms, Places DEF SetWebUrl, LanStays, RotationGoto, RotationAt, LanTypes, FilesKnown
  <2> QED  BY <2>1, <2>2 DEF SetWebUrl, LanStays, RotationGoto, RotationAt, LanTypes
<1>2. FilesKnown'
  BY DEF SetWebUrl, LanStays, RotationGoto, RotationAt, FilesKnown, AllAt, NamedIn, Replaced, Rewriting, Verifying, Restarting, Rewritten, ManagedFiles, LanTypes, Rotations
<1>3. BackupKnown'
  BY DEF SetWebUrl, LanStays, RotationGoto, RotationAt, BackupKnown, AllAt, NamedIn, Rewriting, Verifying, Restarting, LanTypes, Rotations
<1>4. RunKnown'
  BY DEF SetWebUrl, LanStays, RotationGoto, RotationAt, RunKnown, Rewriting, Verifying, Restarting, LanAll, NamedIn, LanTypes, Rotations
<1>5. DomainsKnown'
  BY DEF SetWebUrl, LanStays, RotationGoto, RotationAt, DomainsKnown, Rewriting, Verifying, Restarting, NamedIn, LanTypes, Rotations, LanSettings
<1>6. HelpersKnown'
  BY DEF SetWebUrl, LanStays, RotationGoto, RotationAt, HelpersKnown, HelperAt, Locked, Callers, LanTypes, Rotations, LanHelpers
<1>7. ProxiesKnown'
  BY DEF SetWebUrl, LanStays, RotationGoto, RotationAt, ProxiesKnown, GatewayLockFree, ForeignAnd, Locked, HelperAt, Callers, LanTypes, LanSettings, LanHelpers
<1>8. LanLasting'
  BY DEF SetWebUrl, LanStays, RotationGoto, RotationAt, LanLasting, RotationLasts, NamedIn, LanTypes, Rotations, LanSettings
<1> QED  BY <1>1, <1>2, <1>3, <1>4, <1>5, <1>6, <1>7, <1>8

(* What was read back is what lasts. *)
LEMMA RotationSettledKeeps ==
  ASSUME LanInv, RotationSettled
  PROVE  LanInv'
<1> USE DEF LanInv
<1>1. ProxiesKnown'
  BY DEF RotationSettled, LanStays, ProxiesKnown, GatewayLockFree, ForeignAnd, Locked, HelperAt, Callers
<1>2. LanTypes'
  <2>1. rotation' \in Rotations
    BY RotationForms, Places DEF RotationSettled, LanStays, RotationAt, ComposeNames, LanTypes, FilesKnown
  <2> QED  BY <2>1 DEF RotationSettled, LanStays, RotationAt, ComposeNames, LanTypes
<1>3. FilesKnown'
  BY DEF RotationSettled, LanStays, RotationAt, ComposeNames, FilesKnown, AllAt, NamedIn, Replaced, Rewriting, Verifying, Restarting, Rewritten, ManagedFiles, LanTypes, Rotations
<1>4. BackupKnown'
  BY DEF RotationSettled, LanStays, RotationAt, ComposeNames, BackupKnown, AllAt, NamedIn, Rewriting, Verifying, Restarting, LanTypes, Rotations
<1>5. RunKnown'
  BY DEF RotationSettled, LanStays, RotationAt, ComposeNames, RunKnown, Rewriting, Verifying, Restarting, LanAll, NamedIn, LanTypes, Rotations
<1>6. DomainsKnown'
  BY DEF RotationSettled, LanStays, RotationAt, ComposeNames, DomainsKnown, Rewriting, Verifying, Restarting, NamedIn, LanTypes, Rotations
<1>7. HelpersKnown'
  BY DEF RotationSettled, LanStays, RotationAt, ComposeNames, HelpersKnown, HelperAt, Locked, Callers, LanTypes, Rotations, LanHelpers
<1>8. LanLasting'
  BY DEF RotationSettled, LanStays, RotationAt, ComposeNames, LanLasting, RotationLasts, NamedIn, FilesKnown, RunKnown, DomainsKnown, HelpersKnown, AllAt, LanAll, Rewriting, Verifying, Restarting, LanTypes, Rotations
<1> QED  BY <1>1, <1>2, <1>3, <1>4, <1>5, <1>6, <1>7, <1>8

(* A rotation that fails has its backup, or changed nothing. *)
LEMMA RotationFailsKeeps ==
  ASSUME LanInv, RotationFails
  PROVE  LanInv'
<1> USE DEF LanInv
<1>1. ProxiesKnown'
  BY DEF RotationFails, LanStays, ProxiesKnown, GatewayLockFree, ForeignAnd, Locked, HelperAt, Callers
<1>2. LanTypes'
  <2>1. rotation' \in Rotations
    BY RotationForms, Places DEF RotationFails, LanStays, RotationGoto, RotationAt, Mishap, LanTypes
  <2> QED  BY <2>1 DEF RotationFails, LanStays, RotationGoto, RotationAt, Mishap, LanTypes
<1>3. FilesKnown'
  BY DEF RotationFails, LanStays, RotationGoto, RotationAt, Mishap, FilesKnown, AllAt, NamedIn, Replaced, Rewriting, Verifying, Restarting, Rewritten, ManagedFiles, LanTypes, Rotations
<1>4. BackupKnown'
  BY DEF RotationFails, LanStays, RotationGoto, RotationAt, Mishap, BackupKnown, AllAt, NamedIn, Rewriting, Verifying, Restarting, FilesKnown, RotationPlaces, LanTypes, Rotations
<1>0. rotation.pc \in {"hash", "backup"} => NamedIn("env") = rotation.old
  BY FileNames DEF FilesKnown, AllAt
<1>5. RunKnown'
  BY <1>0 DEF RotationFails, LanStays, RotationGoto, RotationAt, Mishap, RunKnown, Rewriting, Verifying, Restarting, LanAll, NamedIn, LanTypes, Rotations
<1>6. DomainsKnown'
  BY <1>0 DEF RotationFails, LanStays, RotationGoto, RotationAt, Mishap, DomainsKnown, Rewriting, Verifying, Restarting, NamedIn, LanTypes, Rotations
<1>7. HelpersKnown'
  BY DEF RotationFails, LanStays, RotationGoto, RotationAt, Mishap, HelpersKnown, HelperAt, Locked, Callers, LanTypes, Rotations, LanHelpers
<1>8. LanLasting'
  BY DEF RotationFails, LanStays, RotationGoto, RotationAt, Mishap, LanLasting, RotationLasts, NamedIn, LanTypes, Rotations
<1> QED  BY <1>1, <1>2, <1>3, <1>4, <1>5, <1>6, <1>7, <1>8

(* The restored backup is the old address everywhere. *)
LEMMA RestoreBackupKeeps ==
  ASSUME LanInv, RestoreBackup
  PROVE  LanInv'
<1> USE DEF LanInv
<1>1. LanTypes'
  <2>1. lanFiles' \in NamedFiles
    BY DEF RestoreBackup, LanTypes, Rotations
  <2>2. rotation' \in Rotations
    BY RotationForms, Places DEF RestoreBackup, LanStays, RotationGoto, RotationAt, LanTypes, FilesKnown
  <2>3. settings' \in LanSettings
    BY SettingForms, Places DEF RestoreBackup, LanStays, RotationGoto, RotationAt, LanTypes, FilesKnown
  <2> QED  BY <2>1, <2>2, <2>3 DEF RestoreBackup, LanStays, RotationGoto, RotationAt, LanTypes, RunFields
<1>2. FilesKnown'
  BY DEF RestoreBackup, LanStays, RotationGoto, RotationAt, FilesKnown, AllAt, NamedIn, Replaced, Rewriting, Verifying, Restarting, Rewritten, ManagedFiles, LanTypes, NamedFiles, Rotations
<1>3. BackupKnown'
  BY DEF RestoreBackup, LanStays, RotationGoto, RotationAt, BackupKnown, AllAt, NamedIn, Rewriting, Verifying, Restarting, LanTypes, NamedFiles, Rotations
<1>4. RunKnown'
  BY FileNames DEF RestoreBackup, LanStays, RotationGoto, RotationAt, RunKnown, Rewriting, Verifying, Restarting, LanAll, NamedIn, FilesKnown, LanTypes, NamedFiles, Rotations, RunFields
<1>5. DomainsKnown'
  BY FileNames DEF RestoreBackup, LanStays, RotationGoto, RotationAt, DomainsKnown, Rewriting, Verifying, Restarting, NamedIn, FilesKnown, LanTypes, NamedFiles, Rotations, LanSettings
<1>6. HelpersKnown'
  BY DEF RestoreBackup, LanStays, RotationGoto, RotationAt, HelpersKnown, HelperAt, Locked, Callers, LanTypes, Rotations, RunFields, LanHelpers
<1>7. ProxiesKnown'
  BY DEF RestoreBackup, LanStays, RotationGoto, RotationAt, ProxiesKnown, GatewayLockFree, ForeignAnd, Locked, HelperAt, Callers, LanTypes, LanSettings, LanHelpers
<1>8. LanLasting'
  BY DEF RestoreBackup, LanStays, RotationGoto, RotationAt, LanLasting, RotationLasts, NamedIn, LanTypes, NamedFiles, Rotations, RunFields, LanSettings
<1> QED  BY <1>1, <1>2, <1>3, <1>4, <1>5, <1>6, <1>7, <1>8

(* Docker moves the gateway. *)
LEMMA GatewayMovesKeeps ==
  ASSUME LanInv, GatewayMoves
  PROVE  LanInv'
<1> USE DEF LanInv
<1>1. FilesKnown' /\ BackupKnown' /\ RunKnown' /\ DomainsKnown' /\ HelpersKnown' /\ LanLasting'
  BY DEF GatewayMoves, LanStays, FilesKnown, AllAt, NamedIn, Replaced, RotationAt, Rewriting, Verifying, Restarting, Rewritten, ManagedFiles, BackupKnown, RunKnown, LanAll, DomainsKnown, HelpersKnown, HelperAt, Locked, Callers, LanLasting, RotationLasts
<1>2. LanTypes'
  <2> QED  BY  DEF GatewayMoves, LanStays, Mishap, LanTypes, Gateways, LanHelpers
<1>3. ProxiesKnown'
  BY DEF GatewayMoves, LanStays, Mishap, ProxiesKnown, GatewayLockFree, ForeignAnd, Locked, HelperAt, Callers, LanTypes, Gateways, LanHelpers
<1> QED  BY <1>1, <1>2, <1>3

(* An edit changes no address. *)
LEMMA FileEditedKeeps ==
  ASSUME LanInv, FileEdited
  PROVE  LanInv'
<1> USE DEF LanInv
<1>1. HelpersKnown' /\ ProxiesKnown'
  BY DEF FileEdited, LanStays, HelpersKnown, RotationAt, HelperAt, Locked, Callers, ProxiesKnown, GatewayLockFree, ForeignAnd
<1>2. LanTypes'
  <2>1. lanFiles' \in NamedFiles
    BY FileForms, Places, FileNames DEF FileEdited, LanStays, RotationAt, Mishap, LanTypes
  <2> QED  BY <2>1 DEF FileEdited, LanStays, RotationAt, Mishap, LanTypes
<1>3. FilesKnown'
  BY DEF FileEdited, LanStays, RotationAt, Mishap, FilesKnown, AllAt, NamedIn, Replaced, Rewriting, Verifying, Restarting, Rewritten, ManagedFiles, LanTypes, NamedFiles, Rotations
<1>4. BackupKnown'
  BY DEF FileEdited, LanStays, RotationAt, Mishap, BackupKnown, AllAt, NamedIn, Rewriting, Verifying, Restarting, LanTypes, NamedFiles, Rotations
<1>5. RunKnown'
  BY DEF FileEdited, LanStays, RotationAt, Mishap, RunKnown, Rewriting, Verifying, Restarting, LanAll, NamedIn, LanTypes, NamedFiles, Rotations
<1>6. DomainsKnown'
  BY DEF FileEdited, LanStays, RotationAt, Mishap, DomainsKnown, Rewriting, Verifying, Restarting, NamedIn, LanTypes, NamedFiles, Rotations
<1>7. LanLasting'
  BY DEF FileEdited, LanStays, RotationAt, Mishap, LanLasting, RotationLasts, NamedIn, LanTypes, NamedFiles, Rotations
<1> QED  BY <1>1, <1>2, <1>3, <1>4, <1>5, <1>6, <1>7

(* A helper reads the listener before it locks. *)
LEMMA HelperStartsKeeps ==
  ASSUME LanInv, NEW c \in Callers, HelperStarts(c)
  PROVE  LanInv'
<1> USE DEF LanInv
<1>1. LanTypes'
  <2>1. rotation' \in Rotations
    BY RotationForms, Places, NamedHosts, FileNames DEF HelperStarts, LanStays, RotationGoto, RotationAt, HelperAt, NamedIn, CertifiedFor, LanTypes
  <2>2. helpers' \in [Callers -> LanHelpers]
    <3>1. helpers' = [helpers EXCEPT ![c] = [@ EXCEPT !.pc = "lock", !.host = NamedIn("env")]]
      BY DEF HelperStarts
    <3>2. NamedIn("env") \in Hosts
      BY NamedHosts, FileNames DEF LanTypes
    <3> QED  BY <3>1, <3>2, HelperForms, Places DEF LanTypes
  <2> QED  BY <2>1, <2>2 DEF HelperStarts, LanStays, RotationGoto, RotationAt, HelperAt, NamedIn, CertifiedFor, LanTypes
<1>2. FilesKnown'
  BY DEF HelperStarts, LanStays, RotationGoto, RotationAt, HelperAt, NamedIn, CertifiedFor, FilesKnown, AllAt, Replaced, Rewriting, Verifying, Restarting, Rewritten, ManagedFiles, LanTypes, Rotations
<1>3. BackupKnown'
  BY DEF HelperStarts, LanStays, RotationGoto, RotationAt, HelperAt, NamedIn, CertifiedFor, BackupKnown, AllAt, Rewriting, Verifying, Restarting, LanTypes, Rotations
<1>4. RunKnown'
  BY DEF HelperStarts, LanStays, RotationGoto, RotationAt, HelperAt, NamedIn, CertifiedFor, RunKnown, Rewriting, Verifying, Restarting, LanAll, LanTypes, Rotations
<1>5. DomainsKnown'
  BY DEF HelperStarts, LanStays, RotationGoto, RotationAt, HelperAt, NamedIn, CertifiedFor, DomainsKnown, Rewriting, Verifying, Restarting, LanTypes, Rotations
<1>6. HelpersKnown'
  BY DEF HelperStarts, LanStays, RotationGoto, RotationAt, HelperAt, NamedIn, CertifiedFor, HelpersKnown, Locked, Callers, LanTypes, LanHelpers, Rotations
<1>7. ProxiesKnown'
  BY DEF HelperStarts, LanStays, RotationGoto, RotationAt, HelperAt, NamedIn, CertifiedFor, ProxiesKnown, GatewayLockFree, ForeignAnd, Locked, Callers, LanTypes, LanHelpers
<1>8. LanLasting'
  BY DEF HelperStarts, LanStays, RotationGoto, RotationAt, HelperAt, NamedIn, CertifiedFor, LanLasting, RotationLasts, LanTypes, Rotations
<1> QED  BY <1>1, <1>2, <1>3, <1>4, <1>5, <1>6, <1>7, <1>8

(* A helper that read the old address does not get past the lock. *)
LEMMA HelperLocksKeeps ==
  ASSUME LanInv, NEW c \in Callers, HelperLocks(c)
  PROVE  LanInv'
<1> USE DEF LanInv
<1>1. FilesKnown' /\ BackupKnown' /\ RunKnown' /\ DomainsKnown' /\ LanLasting'
  BY DEF HelperLocks, LanStays, FilesKnown, AllAt, NamedIn, Replaced, RotationAt, Rewriting, Verifying, Restarting, Rewritten, ManagedFiles, BackupKnown, RunKnown, LanAll, DomainsKnown, LanLasting, RotationLasts
<1>2. LanTypes'
  <2>1. helpers' \in [Callers -> LanHelpers]
    <3>1. {gateway.saved, gateway.ip} \ {"none"} \in SUBSET GatewayIPs
      BY DEF LanTypes, Gateways
    <3> QED  BY <3>1, HelperForms, Places DEF HelperLocks, LanTypes
  <2> QED  BY <2>1 DEF HelperLocks, LanStays, HelperAt, GatewayLockFree, LanTypes
<1>3. HelpersKnown'
  BY DEF HelperLocks, LanStays, HelperAt, GatewayLockFree, HelpersKnown, RotationAt, Locked, Callers, DomainsKnown, LanLasting, RotationLasts, Verifying, LanTypes, LanHelpers, Rotations
<1>4. ProxiesKnown'
  BY DEF HelperLocks, LanStays, HelperAt, GatewayLockFree, ProxiesKnown, ForeignAnd, Locked, Callers, LanTypes, LanHelpers
<1> QED  BY <1>1, <1>2, <1>3, <1>4

(* The gateway serves what the environment file names. *)
LEMMA GatewayUpKeeps ==
  ASSUME LanInv, NEW c \in Callers, GatewayUp(c)
  PROVE  LanInv'
<1> USE DEF LanInv
<1>1. FilesKnown' /\ BackupKnown' /\ DomainsKnown'
  BY DEF GatewayUp, LanStays, FilesKnown, AllAt, NamedIn, Replaced, RotationAt, Rewriting, Verifying, Restarting, Rewritten, ManagedFiles, BackupKnown, DomainsKnown
<1>2. LanTypes'
  <2>1. helpers' \in [Callers -> LanHelpers]
    <3>1. PICK ip \in GatewayIPs : helpers' = [helpers EXCEPT ![c] = [@ EXCEPT !.pc = "proxies", !.ip = ip]]
      BY DEF GatewayUp
    <3> QED  BY <3>1, HelperForms, Places DEF LanTypes
  <2> QED  BY <2>1 DEF GatewayUp, LanStays, HelperAt, NamedIn, LanTypes, Gateways, RunFields, LanHelpers
<1>3. RunKnown'
  BY DEF GatewayUp, LanStays, HelperAt, NamedIn, RunKnown, RotationAt, Rewriting, Verifying, Restarting, LanAll, LanTypes, RunFields, Rotations
<1>4. HelpersKnown'
  <2>1. PICK ip \in GatewayIPs : helpers' = [helpers EXCEPT ![c] = [@ EXCEPT !.pc = "proxies", !.ip = ip]]
    BY DEF GatewayUp
  <2>2. ip # "none" /\ helpers[c].pc = "up" /\ rotation' = rotation /\ lanRun'.https = NamedIn("env")
    BY LanAssumption DEF GatewayUp, HelperAt, LanStays, LanTypes, RunFields
  <2>3. /\ helpers'[c].pc = "proxies" /\ helpers'[c].ip = ip /\ helpers'[c].host = helpers[c].host
        /\ \A d \in Callers : d # c => helpers'[d] = helpers[d]
    BY <2>1 DEF LanTypes, LanHelpers
  <2>4. rotation.pc \in Verifying => NamedIn("env") = rotation.new
    BY FileNames DEF FilesKnown, AllAt
  <2>5. \A d \in Callers : helpers[d].pc \in Locked => d = c
    BY <2>2 DEF HelpersKnown, Locked
  <2> QED  BY <2>2, <2>3, <2>4, <2>5 DEF HelpersKnown, RotationAt, HelperAt, Locked, Verifying, Callers
<1>5. ProxiesKnown'
  BY LanAssumption DEF GatewayUp, LanStays, HelperAt, NamedIn, ProxiesKnown, GatewayLockFree, ForeignAnd, Locked, Callers, Proxies, LanTypes, Gateways, LanHelpers
<1>6. LanLasting'
  BY FileNames DEF GatewayUp, LanStays, HelperAt, NamedIn, LanLasting, RotationAt, RotationLasts, FilesKnown, HelpersKnown, AllAt, Locked, Callers, LanTypes, RunFields, Rotations
<1> QED  BY <1>1, <1>2, <1>3, <1>4, <1>5, <1>6

(* The stale addresses go and the new one is trusted. *)
LEMMA SetProxiesKeeps ==
  ASSUME LanInv, NEW c \in Callers, SetProxies(c)
  PROVE  LanInv'
<1> USE DEF LanInv
<1>1. FilesKnown' /\ BackupKnown' /\ RunKnown'
  BY DEF SetProxies, LanStays, FilesKnown, AllAt, NamedIn, Replaced, RotationAt, Rewriting, Verifying, Restarting, Rewritten, ManagedFiles, BackupKnown, RunKnown, LanAll
<1>2. LanTypes'
  <2>1. helpers' \in [Callers -> LanHelpers]
    <3>1. DesiredProxies(c) \in SUBSET Proxies
      BY DEF DesiredProxies, LanTypes, LanHelpers, LanSettings, Proxies, SetProxies, HelperAt, HelpersKnown, Locked
    <3> QED  BY <3>1, HelperForms, Places DEF SetProxies, LanTypes
  <2>2. settings' \in LanSettings
    <3>1. DesiredProxies(c) \in SUBSET Proxies
      BY DEF DesiredProxies, LanTypes, LanHelpers, LanSettings, Proxies, SetProxies, HelperAt, HelpersKnown, Locked
    <3> QED  BY <3>1, SettingForms DEF SetProxies, LanTypes
  <2> QED  BY <2>1, <2>2 DEF SetProxies, LanStays, HelperAt, DesiredProxies, LanTypes
<1>3. DomainsKnown'
  BY DEF SetProxies, LanStays, HelperAt, DesiredProxies, DomainsKnown, RotationAt, Rewriting, Verifying, Restarting, NamedIn, LanTypes, LanSettings, Rotations
<1>4. HelpersKnown'
  BY DEF SetProxies, LanStays, HelperAt, DesiredProxies, HelpersKnown, RotationAt, Locked, Callers, LanTypes, LanHelpers, Rotations
<1>5. ProxiesKnown'
  <2>1. /\ helpers[c].pc = "proxies" /\ helpers[c].ip # "none" /\ "other" \in settings.proxies
        /\ "other" \notin helpers[c].stale
    BY LanAssumption DEF SetProxies, HelperAt, HelpersKnown, Locked, ProxiesKnown, LanTypes, LanHelpers
  <2>2. /\ settings'.proxies = DesiredProxies(c) /\ gateway' = gateway /\ helpers'[c].pc = "cli"
        /\ \A d \in Callers : helpers'[d].failed = helpers[d].failed /\ helpers'[d].ip = helpers[d].ip
        /\ \A d \in Callers : d # c => helpers'[d] = helpers[d]
    BY DEF SetProxies, LanStays, LanTypes, LanSettings, LanHelpers
  <2>3. "other" \in DesiredProxies(c)
    BY <2>1 DEF DesiredProxies
  <2>4. (\A d \in Callers : ~helpers[d].failed) => DesiredProxies(c) = ForeignAnd({helpers[c].ip})
    BY <2>1 DEF DesiredProxies, ProxiesKnown, ForeignAnd
  <2>5. \A d \in Callers : helpers[d].pc \in Locked => d = c
    BY <2>1 DEF HelpersKnown, Locked
  <2>6. helpers'[c].pc \in Locked \ {"up", "proxies"}
    BY <2>2 DEF Locked
  <2>7. ~GatewayLockFree'
    BY <2>2, <2>6 DEF GatewayLockFree, Locked
  <2>8. ASSUME NEW d \in Callers, \A e \in Callers : ~helpers'[e].failed
        PROVE  /\ helpers'[d].pc \notin {"up", "proxies"}
               /\ helpers'[d].pc \in Locked \ {"up", "proxies"} => settings'.proxies = ForeignAnd({helpers'[d].ip})
    BY <2>2, <2>4, <2>5, <2>8 DEF Locked
  <2> QED  BY <2>2, <2>3, <2>7, <2>8 DEF ProxiesKnown, ForeignAnd
<1>6. LanLasting'
  BY DEF SetProxies, LanStays, HelperAt, DesiredProxies, LanLasting, RotationAt, RotationLasts, NamedIn, LanTypes, LanSettings, Rotations
<1> QED  BY <1>1, <1>2, <1>3, <1>4, <1>5, <1>6

(* The helper past the lock names the address of a rotation that lasts. *)
LEMMA SetCliUrlKeeps ==
  ASSUME LanInv, NEW c \in Callers, SetCliUrl(c)
  PROVE  LanInv'
<1> USE DEF LanInv
<1>1. FilesKnown' /\ BackupKnown' /\ RunKnown'
  BY DEF SetCliUrl, LanStays, FilesKnown, AllAt, NamedIn, Replaced, RotationAt, Rewriting, Verifying, Restarting, Rewritten, ManagedFiles, BackupKnown, RunKnown, LanAll
<1>2. LanTypes'
  <2>1. helpers' \in [Callers -> LanHelpers]
    BY HelperForms, Places DEF SetCliUrl, LanStays, HelperAt, HelperGoto, LanTypes
  <2>2. settings' \in LanSettings
    <3>1. helpers[c].host \in Hosts
      BY DEF LanTypes, LanHelpers
    <3> QED  BY <3>1, SettingForms DEF SetCliUrl, LanTypes
  <2> QED  BY <2>1, <2>2 DEF SetCliUrl, LanStays, HelperAt, HelperGoto, LanTypes
<1>3. DomainsKnown'
  BY DEF SetCliUrl, LanStays, HelperAt, HelperGoto, DomainsKnown, RotationAt, Rewriting, Verifying, Restarting, NamedIn, LanTypes, LanSettings, Rotations
<1>4. HelpersKnown'
  BY DEF SetCliUrl, LanStays, HelperAt, HelperGoto, HelpersKnown, RotationAt, Locked, Callers, LanTypes, LanHelpers, Rotations
<1>5. ProxiesKnown'
  BY DEF SetCliUrl, LanStays, HelperAt, HelperGoto, ProxiesKnown, GatewayLockFree, ForeignAnd, Locked, Callers, LanTypes, LanHelpers, LanSettings
<1>6. LanLasting'
  BY DEF SetCliUrl, LanStays, HelperAt, HelperGoto, LanLasting, RotationAt, RotationLasts, NamedIn, HelpersKnown, Locked, Callers, LanHelpers, LanTypes, LanSettings, Rotations
<1> QED  BY <1>1, <1>2, <1>3, <1>4, <1>5, <1>6

(* Verifying changes nothing. *)
LEMMA VerifyLoginKeeps ==
  ASSUME LanInv, NEW c \in Callers, VerifyLogin(c)
  PROVE  LanInv'
<1> USE DEF LanInv
<1>1. FilesKnown' /\ BackupKnown' /\ RunKnown' /\ DomainsKnown' /\ LanLasting'
  BY DEF VerifyLogin, LanStays, FilesKnown, AllAt, NamedIn, Replaced, RotationAt, Rewriting, Verifying, Restarting, Rewritten, ManagedFiles, BackupKnown, RunKnown, LanAll, DomainsKnown, LanLasting, RotationLasts
<1>2. LanTypes'
  <2>1. helpers' \in [Callers -> LanHelpers]
    BY HelperForms, Places DEF VerifyLogin, LanStays, HelperAt, HelperGoto, LanTypes
  <2> QED  BY <2>1 DEF VerifyLogin, LanStays, HelperAt, HelperGoto, LanTypes
<1>3. HelpersKnown'
  BY DEF VerifyLogin, LanStays, HelperAt, HelperGoto, HelpersKnown, RotationAt, Locked, Callers, LanTypes, LanHelpers, Rotations
<1>4. ProxiesKnown'
  BY DEF VerifyLogin, LanStays, HelperAt, HelperGoto, ProxiesKnown, GatewayLockFree, ForeignAnd, Locked, Callers, LanTypes, LanHelpers
<1> QED  BY <1>1, <1>2, <1>3, <1>4

(* The saved address is the trusted one. *)
LEMMA WriteGatewayStateKeeps ==
  ASSUME LanInv, NEW c \in Callers, WriteGatewayState(c)
  PROVE  LanInv'
<1> USE DEF LanInv
<1>1. LanTypes'
  <2>1. rotation' \in Rotations
    BY RotationForms, Places DEF WriteGatewayState, LanStays, RotationGoto, RotationAt, HelperAt, HelperGoto, LanTypes
  <2>2. helpers' \in [Callers -> LanHelpers]
    <3>1. helpers' = [helpers EXCEPT ![c] = [@ EXCEPT !.pc = "idle"]]
      BY DEF WriteGatewayState, HelperGoto
    <3> QED  BY <3>1, HelperForms, Places DEF LanTypes
  <2> QED  BY <2>1, <2>2 DEF WriteGatewayState, LanStays, RotationGoto, RotationAt, HelperAt, HelperGoto, LanTypes, Gateways, LanHelpers
<1>2. FilesKnown'
  BY DEF WriteGatewayState, LanStays, RotationGoto, RotationAt, HelperAt, HelperGoto, FilesKnown, AllAt, NamedIn, Replaced, Rewriting, Verifying, Restarting, Rewritten, ManagedFiles, LanTypes, Rotations
<1>3. BackupKnown'
  BY DEF WriteGatewayState, LanStays, RotationGoto, RotationAt, HelperAt, HelperGoto, BackupKnown, AllAt, NamedIn, Rewriting, Verifying, Restarting, LanTypes, Rotations
<1>4. RunKnown'
  BY DEF WriteGatewayState, LanStays, RotationGoto, RotationAt, HelperAt, HelperGoto, RunKnown, Rewriting, Verifying, Restarting, LanAll, NamedIn, LanTypes, Rotations
<1>5. DomainsKnown'
  BY DEF WriteGatewayState, LanStays, RotationGoto, RotationAt, HelperAt, HelperGoto, DomainsKnown, Rewriting, Verifying, Restarting, NamedIn, LanTypes, Rotations
<1>6. HelpersKnown'
  BY DEF WriteGatewayState, LanStays, RotationGoto, RotationAt, HelperAt, HelperGoto, HelpersKnown, Locked, Callers, LanTypes, LanHelpers, Rotations
<1>7. ProxiesKnown'
  BY DEF WriteGatewayState, LanStays, RotationGoto, RotationAt, HelperAt, HelperGoto, ProxiesKnown, GatewayLockFree, ForeignAnd, Locked, Callers, LanHelpers, HelpersKnown, Proxies, LanTypes, Gateways
<1>8. LanLasting'
  BY DEF WriteGatewayState, LanStays, RotationGoto, RotationAt, HelperAt, HelperGoto, LanLasting, RotationLasts, NamedIn, LanTypes, Rotations
<1> QED  BY <1>1, <1>2, <1>3, <1>4, <1>5, <1>6, <1>7, <1>8

(* A helper that fails is remembered. *)
LEMMA HelperFailsKeeps ==
  ASSUME LanInv, NEW c \in Callers, HelperFails(c)
  PROVE  LanInv'
<1> USE DEF LanInv
<1>1. LanTypes'
  <2>1. rotation' \in Rotations
    BY RotationForms, Places DEF HelperFails, LanStays, RotationGoto, RotationAt, HelperAt, Mishap, LanTypes
  <2>2. helpers' \in [Callers -> LanHelpers]
    BY HelperForms, Places DEF HelperFails, LanStays, RotationGoto, RotationAt, HelperAt, Mishap, LanTypes
  <2> QED  BY <2>1, <2>2 DEF HelperFails, LanStays, RotationGoto, RotationAt, HelperAt, Mishap, LanTypes
<1>2. FilesKnown'
  BY DEF HelperFails, LanStays, RotationGoto, RotationAt, HelperAt, Mishap, FilesKnown, AllAt, NamedIn, Replaced, Rewriting, Verifying, Restarting, Rewritten, ManagedFiles, LanTypes, Rotations
<1>3. BackupKnown'
  BY DEF HelperFails, LanStays, RotationGoto, RotationAt, HelperAt, Mishap, BackupKnown, AllAt, NamedIn, Rewriting, Verifying, Restarting, LanTypes, Rotations
<1>4. RunKnown'
  BY DEF HelperFails, LanStays, RotationGoto, RotationAt, HelperAt, Mishap, RunKnown, Rewriting, Verifying, Restarting, LanAll, NamedIn, LanTypes, Rotations
<1>5. DomainsKnown'
  BY DEF HelperFails, LanStays, RotationGoto, RotationAt, HelperAt, Mishap, DomainsKnown, Rewriting, Verifying, Restarting, NamedIn, LanTypes, Rotations
<1>6. HelpersKnown'
  BY DEF HelperFails, LanStays, RotationGoto, RotationAt, HelperAt, Mishap, HelpersKnown, Locked, Callers, LanTypes, LanHelpers, Rotations
<1>7. ProxiesKnown'
  BY DEF HelperFails, LanStays, RotationGoto, RotationAt, HelperAt, Mishap, ProxiesKnown, GatewayLockFree, ForeignAnd, Locked, Callers, LanTypes, LanHelpers
<1>8. LanLasting'
  BY DEF HelperFails, LanStays, RotationGoto, RotationAt, HelperAt, Mishap, LanLasting, RotationLasts, NamedIn, LanTypes, Rotations
<1> QED  BY <1>1, <1>2, <1>3, <1>4, <1>5, <1>6, <1>7, <1>8

(* One address everywhere is where the tools begin. *)
LEMMA LanBegins == LanInit => LanInv
<1> SUFFICES ASSUME LanInit PROVE LanInv
  OBVIOUS
<1>1. PICK h \in Hosts :
        /\ lanFiles = [f \in ManagedFiles |-> [at |-> h, edited |-> FALSE]]
        /\ lanRun = [nextcloud |-> h, app |-> h, appStart |-> 0, resolved |-> 0,
                     https |-> h, lan |-> [at |-> h, name |-> h, cert |-> h]]
        /\ settings = [domains |-> {h}, proxies |-> {"other"}, scheme |-> "http", cli |-> h, web |-> h]
        /\ gateway = [ip |-> "none", saved |-> "none"]
        /\ rotation = [pc |-> "idle", old |-> NoHost, new |-> NoHost, domains |-> {}, checked |-> FALSE,
                       carried |-> {}, expected |-> lanFiles, lasting |-> FALSE]
        /\ helpers = [c \in Callers |-> [pc |-> "idle", host |-> h, stale |-> {}, ip |-> "none",
                                         proxies |-> {}, failed |-> FALSE]]
  BY LanAssumption DEF LanInit
<1>2. lanFiles \in NamedFiles /\ \A f \in ManagedFiles : NamedIn(f) = h
  BY <1>1 DEF NamedFiles, NamedIn
<1>3. rotation \in Rotations /\ rotation.pc = "idle" /\ ~rotation.lasting
  BY <1>1, <1>2, Places DEF Rotations
<1>4. helpers \in [Callers -> LanHelpers] /\ \A c \in Callers : helpers[c].pc = "idle"
  BY <1>1, Places DEF LanHelpers
<1>5. LanTypes
  BY <1>1, <1>2, <1>3, <1>4 DEF LanTypes, LanSettings, Proxies, Gateways, RunFields
<1>6. FilesKnown /\ BackupKnown /\ DomainsKnown /\ LanLasting /\ RunKnown
  BY <1>1, <1>2, <1>3, FileNames DEF FilesKnown, BackupKnown, DomainsKnown, LanLasting, RunKnown, RotationAt,
     AllAt, Rewriting, Restarting, Verifying, LanAll
<1>7. HelpersKnown
  BY <1>3, <1>4 DEF HelpersKnown, RotationAt, HelperAt, Locked, Callers
<1>8. settings.proxies = ForeignAnd({gateway.saved}) /\ settings.proxies = {"other"}
  BY <1>1 DEF ForeignAnd
<1>9. ProxiesKnown
  BY <1>4, <1>8 DEF ProxiesKnown, Locked
<1> QED  BY <1>5, <1>6, <1>7, <1>9 DEF LanInv

(* Every step of a rotation, of a helper and of the others keeps the invariant. *)
LEMMA LanGoesOn ==
  ASSUME LanInv, [LanStep]_lanVars
  PROVE  LanInv'
<1>1. CASE UNCHANGED lanVars
  <2> USE <1>1 DEF lanVars, LanInv
  <2>1. LanTypes' /\ HelpersKnown'
    BY DEF LanTypes, HelpersKnown, RotationAt, HelperAt
  <2>2. FilesKnown' /\ BackupKnown' /\ RunKnown' /\ DomainsKnown'
    BY DEF FilesKnown, BackupKnown, RunKnown, DomainsKnown, AllAt, NamedIn, RotationAt
  <2>3. ProxiesKnown' /\ LanLasting'
    BY DEF ProxiesKnown, GatewayLockFree, LanLasting, RotationLasts, NamedIn, RotationAt
  <2> QED  BY <2>1, <2>2, <2>3
<1>2. CASE LanStep
  BY <1>2, RotationStartsKeeps, HashFilesKeeps, BackUpKeeps, CheckHashKeeps, AtomicReplaceKeeps, AllowLanAccessKeeps,
     RestartAppKeeps, RestartFrontendKeeps, RestartLanGatewayKeeps, ReadDomainsKeeps,
     WriteDomainsKeeps, SetWebUrlKeeps, RotationSettledKeeps, RotationFailsKeeps,
     RestoreBackupKeeps, GatewayMovesKeeps, FileEditedKeeps, HelperStartsKeeps, HelperLocksKeeps,
     GatewayUpKeeps, SetProxiesKeeps, SetCliUrlKeeps, VerifyLoginKeeps, WriteGatewayStateKeeps,
     HelperFailsKeeps, Zenon DEF LanStep
<1> QED  BY <1>1, <1>2

(* What the invariant says of a rotation that lasts, of the backup and of the trusted proxies *)
LEMMA LanSound ==
  ASSUME LanInv
  PROVE  RotationLasts /\ BackupBeforeChange /\ ProxiesAccounted
<1>1. RotationLasts
  BY DEF LanInv, LanLasting, RotationLasts
<1>2. BackupBeforeChange
  BY DEF LanInv, BackupBeforeChange, BackupKnown, FilesKnown, RotationAt, AllAt, LanTypes, Rotations,
     RotationPlaces, Rewriting, Restarting, Verifying
<1>3. ASSUME \A c \in Callers : ~helpers[c].failed /\ HelperAt(c, "idle"),
             gateway.saved = gateway.ip, gateway.ip # "none"
      PROVE  settings.proxies = {"other", gateway.ip}
  <2>1. GatewayLockFree
    BY <1>3 DEF GatewayLockFree, HelperAt, Locked
  <2>2. settings.proxies = ForeignAnd({gateway.saved})
    BY <1>3, <2>1 DEF LanInv, ProxiesKnown
  <2> QED  BY <1>3, <2>2 DEF ForeignAnd
<1> QED  BY <1>1, <1>2, <1>3 DEF ProxiesAccounted, LanInv, ProxiesKnown

-----------------------------------------------------------------------------
(* The load pilot: at most one event is written that is not dispatched, so every task covers
   exactly one event; the pilot writes the next one only when nothing is left to dispatch. *)
Marks == {"written", "sent", "received", "target", "dispatched", "applied", "log"}
FlowFields == Marks \cup {"state", "sync"}
FlowRecord(r) == DOMAIN r = FlowFields /\ r = [field \in FlowFields |-> r[field]]
LoadFields ==
  {"pc", "pattern", "sample", "seen", "sourcePaired", "cloudPaired", "error", "incomplete", "ok"}
LoadRecord(r) == DOMAIN r = LoadFields /\ r = [field \in LoadFields |-> r[field]]
PairFields == {"bound", "state", "synced", "published", "receiver", "sender"}
PairRecord(r) == DOMAIN r = PairFields /\ r = [field \in PairFields |-> r[field]]
LoadTasks == [low : Nat, high : Nat]
HopRecords == [log : Nat, worker : Nat, accept : BOOLEAN, receipt : BOOLEAN]
FlowTypes ==
  /\ FlowRecord(flow)
  /\ flow.written \in Nat /\ flow.received \in Nat /\ flow.dispatched \in Nat
  /\ flow.target \in Nat /\ flow.log \in Nat
  /\ tasks \in Seq(LoadTasks) /\ timed \in Seq(Nat) /\ hops \in Seq(HopRecords)
LoadTypes == LoadRecord(load) /\ load.seen \in Nat /\ PairRecord(pair)
FlowInOrder ==
  /\ flow.received <= flow.written /\ flow.written <= flow.dispatched + 1
  /\ flow.dispatched <= flow.received /\ flow.target <= flow.received
  /\ flow.state = "leased" => flow.dispatched < flow.target
  /\ flow.state = "queued" => flow.target = flow.dispatched
  /\ flow.log <= Len(tasks)
TaskPerEvent ==
  /\ \A k \in 1..Len(tasks) : tasks[k].high = tasks[k].low + 1 /\ tasks[k].high <= flow.received
  /\ flow.log # 0 => tasks[flow.log].high = flow.target
TimedInOrder ==
  /\ \A i \in 1..Len(timed) : timed[i] <= flow.written
  /\ \A i, j \in 1..Len(timed) : i < j => timed[i] < timed[j]
BeforeSamples ==
  {"idle", "bind", "pair", "active", "sync", "published", "receiver", "sender", "baseline"}
PlaceKnown ==
  /\ load.pc \in BeforeSamples => timed = <<>> /\ hops = <<>>
  /\ load.pc \in {"idle", "bind"} => flow.written = 0
  /\ load.pc = "baseline" => load.seen = flow.written
  /\ load.pc \in {"sample", "measure", "applied"} => flow.dispatched = flow.written
  /\ load.pc \in {"primed", "accepted", "applied"} => load.seen = flow.written
  /\ load.pc \in {"accepted", "applied"} => Len(timed) > 0 /\ timed[Len(timed)] = load.seen
  /\ load.pc \in {"primed", "measure"} => load.pattern # "sequential"
LengthsKnown ==
  /\ load.pattern = "sequential" => Len(timed) = Len(hops)
  /\ load.pattern # "sequential" =>
       /\ 2 * Len(hops) <= Len(timed)
       /\ load.pc \in {"sample", "accepted", "applied"} => Len(timed) = 2 * Len(hops)
       /\ load.pc \in {"primed", "measure"} => Len(timed) = 2 * Len(hops) + 1
HopKnown(n) ==
  /\ hops[n].log # 0 => hops[n].log <= Len(tasks) /\ CoveredBy(hops[n].log, SampleOf(n))
  /\ hops[n].worker # 0 => hops[n].worker <= Len(tasks) /\ CoveredBy(hops[n].worker, SampleOf(n))
  /\ hops[n].accept => flow.dispatched >= SampleOf(n)
HopsKnown == \A n \in 1..Len(hops) : HopKnown(n)
AtSamples == {"baseline", "sample", "primed", "measure", "accepted", "applied"}
CredentialsKnown ==
  /\ load.pc \in AtSamples \cup {"sender"} => load.sourcePaired
  /\ load.pc \in AtSamples => load.cloudPaired
  /\ load.pc \notin Revoking => ~load.error
  /\ load.pc \in Revoking /\ ~load.error =>
       load.sample = NSamples /\ load.sourcePaired /\ load.cloudPaired
  /\ load.pc \in {"revoke-receiver", "ended"} /\ load.cloudPaired /\ ~load.incomplete =>
       pair.sender # "live"
  /\ load.pc = "ended" /\ load.sourcePaired /\ ~load.incomplete => pair.receiver # "live"
  /\ load.ok => load.pc = "ended" /\ ~load.error /\ ~load.incomplete
LoadInv ==
  /\ FlowTypes /\ LoadTypes /\ FlowInOrder /\ TaskPerEvent /\ TimedInOrder /\ PlaceKnown
  /\ LengthsKnown /\ HopsKnown /\ CredentialsKnown

LEMMA LoadBegins == LoadInit => LoadInv
<1> SUFFICES ASSUME LoadInit PROVE LoadInv
  OBVIOUS
<1>1. FlowTypes
  BY DEF LoadInit, FlowTypes, FlowRecord, FlowFields, Marks
<1>2. LoadTypes
  BY DEF LoadInit, LoadTypes, LoadRecord, LoadFields, PairRecord, PairFields
<1>3. FlowInOrder /\ TaskPerEvent /\ TimedInOrder
  BY DEF LoadInit, FlowInOrder, TaskPerEvent, TimedInOrder
<1>4. PlaceKnown /\ LengthsKnown
  BY DEF LoadInit, PlaceKnown, LengthsKnown
<1>5. HopsKnown /\ CredentialsKnown
  BY DEF LoadInit, HopsKnown, CredentialsKnown, AtSamples, Revoking
<1> QED  BY <1>1, <1>2, <1>3, <1>4, <1>5 DEF LoadInv

(* A sample's own event keeps its place. *)
LEMMA SampleKnown ==
  ASSUME LoadInv, NEW n \in 1..Len(hops)
  PROVE  SampleOf(n) \in Nat /\ SampleOf(n) <= flow.written
<1>1. /\ timed \in Seq(Nat) /\ hops \in Seq(HopRecords) /\ Len(timed) \in Nat /\ Len(hops) \in Nat
      /\ \A i \in 1..Len(timed) : timed[i] \in Nat /\ timed[i] <= flow.written
  BY DEF LoadInv, FlowTypes, TimedInOrder
<1>2. CASE load.pattern = "sequential"
  BY <1>1, <1>2 DEF LoadInv, LengthsKnown, SampleOf
<1>3. CASE load.pattern # "sequential"
  BY <1>1, <1>3 DEF LoadInv, LengthsKnown, SampleOf
<1> QED  BY <1>2, <1>3

(* The services carry an event on: nothing is written, and a task once made stays. *)
LEMMA EventCarried ==
  ASSUME LoadInv, UNCHANGED <<load, pair, timed, hops>>, FlowTypes', FlowInOrder', TaskPerEvent',
         flow'.written = flow.written, flow.dispatched <= flow'.dispatched,
         Len(tasks) <= Len(tasks)', \A k \in 1..Len(tasks) : tasks'[k] = tasks[k]
  PROVE  LoadInv'
<1>1. LoadTypes' /\ LengthsKnown' /\ CredentialsKnown'
  BY DEF LoadInv, LoadTypes, LengthsKnown, CredentialsKnown
<1>2. TimedInOrder'
  BY DEF LoadInv, TimedInOrder
<1>3. PlaceKnown'
  BY DEF LoadInv, PlaceKnown, FlowTypes, FlowInOrder
<1>4. HopsKnown'
  <2> SUFFICES ASSUME NEW n \in 1..Len(hops) PROVE HopKnown(n)'
    BY DEF HopsKnown
  <2>1. HopKnown(n) /\ SampleOf(n)' = SampleOf(n)
    BY DEF LoadInv, HopsKnown, SampleOf
  <2>2. /\ hops[n].log \in Nat /\ hops[n].worker \in Nat /\ Len(tasks) \in Nat
        /\ Len(tasks)' \in Nat /\ flow.dispatched \in Nat /\ flow'.dispatched \in Nat
    <3>1. hops[n] \in HopRecords
      BY DEF LoadInv, FlowTypes
    <3>2. hops[n].log \in Nat /\ hops[n].worker \in Nat
      BY <3>1 DEF HopRecords
    <3> QED  BY <3>2 DEF LoadInv, FlowTypes
  <2>3. \A k \in 1..Len(tasks) : CoveredBy(k, SampleOf(n)) => CoveredBy(k, SampleOf(n))'
    BY <2>1 DEF CoveredBy
  <2>4. SampleOf(n) \in Nat
    BY SampleKnown
  <2>5. /\ hops[n].log # 0 => hops[n].log \in 1..Len(tasks)
        /\ hops[n].worker # 0 => hops[n].worker \in 1..Len(tasks)
    BY <2>1, <2>2 DEF HopKnown
  <2>6. hops[n].log # 0 => hops[n].log <= Len(tasks)' /\ CoveredBy(hops[n].log, SampleOf(n))'
    BY <2>1, <2>2, <2>3, <2>5 DEF HopKnown
  <2>7. hops[n].worker # 0 => hops[n].worker <= Len(tasks)' /\ CoveredBy(hops[n].worker, SampleOf(n))'
    BY <2>1, <2>2, <2>3, <2>5 DEF HopKnown
  <2>8. hops[n].accept => flow'.dispatched >= SampleOf(n)
    BY <2>1, <2>2, <2>4 DEF HopKnown
  <2> QED  BY <2>1, <2>6, <2>7, <2>8 DEF HopKnown, CoveredBy
<1> QED  BY <1>1, <1>2, <1>3, <1>4 DEF LoadInv

(* The pilot goes on, and the event's way does not. *)
LEMMA PilotMovesOn ==
  ASSUME LoadInv, UNCHANGED <<flow, tasks, timed, hops>>, LoadRecord(load'), PairRecord(pair'),
         load'.seen = load.seen \/ load'.seen = flow.written,
         load'.pattern = load.pattern \/ hops = <<>>,
         PlaceKnown', LengthsKnown', CredentialsKnown'
  PROVE  LoadInv'
<1>1. FlowTypes' /\ FlowInOrder' /\ TaskPerEvent' /\ TimedInOrder'
  BY DEF LoadInv, FlowTypes, FlowRecord, FlowInOrder, TaskPerEvent, TimedInOrder
<1>2. LoadTypes'
  BY DEF LoadInv, LoadTypes, FlowTypes
<1>3. HopsKnown'
  <2>1. CASE load'.pattern = load.pattern
    BY <2>1 DEF LoadInv, HopsKnown, HopKnown, SampleOf, CoveredBy
  <2>2. CASE hops = <<>>
    BY <2>2 DEF HopsKnown
  <2> QED  BY <2>1, <2>2
<1> QED  BY <1>1, <1>2, <1>3 DEF LoadInv

(* The services' own steps *)
LEMMA ServicesGoOn ==
  ASSUME LoadInv, Deliver \/ ClaimDispatch \/ EnqueueTask \/ RunTask \/ LeaseLost
  PROVE  LoadInv'
<1>0. /\ FlowTypes /\ FlowInOrder /\ TaskPerEvent
  BY DEF LoadInv
<1>00. UNCHANGED <<load, pair, timed, hops>>
  BY DEF Deliver, ClaimDispatch, EnqueueTask, RunTask, LeaseLost
<1>1. CASE Deliver
  <2>1. /\ FlowRecord(flow') /\ flow'.written = flow.written /\ flow'.dispatched = flow.dispatched
        /\ flow'.target = flow.target /\ flow'.log = flow.log /\ flow'.state = flow.state
        /\ flow'.received = flow.received \/ flow'.received = flow.written
        /\ UNCHANGED tasks
    BY <1>0, <1>1 DEF Deliver, FlowTypes, FlowRecord, FlowFields, Marks
  <2>2. FlowTypes' /\ FlowInOrder' /\ TaskPerEvent'
    <3>1. FlowTypes'
      BY <1>0, <1>00, <2>1 DEF FlowTypes
    <3>2. FlowInOrder'
      BY <1>0, <2>1 DEF FlowTypes, FlowInOrder
    <3>3. flow.received <= flow'.received /\ flow'.received \in Nat
      BY <1>0, <2>1 DEF FlowTypes, FlowInOrder
    <3>4. TaskPerEvent'
      <4> SUFFICES ASSUME NEW k \in 1..Len(tasks) PROVE tasks[k].high <= flow'.received
        BY <1>0, <2>1 DEF TaskPerEvent
      <4>1. tasks[k].high <= flow.received /\ tasks[k] \in LoadTasks
        BY <1>0 DEF TaskPerEvent, FlowTypes
      <4>2. tasks[k].high \in Nat
        BY <4>1 DEF LoadTasks
      <4> QED  BY <1>0, <3>3, <4>1, <4>2 DEF FlowTypes
    <3> QED  BY <3>1, <3>2, <3>4
  <2> QED  BY <1>0, <1>00, <2>1, <2>2, EventCarried DEF FlowTypes
<1>2. CASE ClaimDispatch
  <2>1. /\ FlowRecord(flow') /\ flow'.written = flow.written /\ flow'.dispatched = flow.dispatched
        /\ flow'.target = flow.received /\ flow'.log = 0 /\ flow'.state = "leased"
        /\ flow'.received = flow.received /\ flow.received > flow.dispatched
        /\ UNCHANGED tasks
    BY <1>0, <1>2 DEF ClaimDispatch, FlowTypes, FlowRecord, FlowFields, Marks
  <2>2. FlowTypes' /\ FlowInOrder' /\ TaskPerEvent'
    BY <1>0, <1>00, <2>1 DEF FlowTypes, FlowInOrder, TaskPerEvent
  <2> QED  BY <1>0, <1>00, <2>1, <2>2, EventCarried DEF FlowTypes
<1>3. CASE EnqueueTask
  <2>1. flow.state = "leased" /\ flow.dispatched + 1 = flow.target /\ flow.target = flow.received
    BY <1>0, <1>3 DEF EnqueueTask, FlowTypes, FlowInOrder
  <2>2. CASE flow.log = 0
    <3> DEFINE new == [low |-> flow.dispatched, high |-> flow.target]
    <3>1. tasks' = Append(tasks, new) /\ flow' = [flow EXCEPT !.log = Len(tasks) + 1]
      BY <1>3, <2>2 DEF EnqueueTask
    <3>2. /\ new \in LoadTasks /\ new.high = new.low + 1 /\ new.high = flow.target
          /\ new.high <= flow.received
      BY <1>0, <2>1 DEF FlowTypes, LoadTasks
    <3> HIDE DEF new
    <3>3. /\ tasks' \in Seq(LoadTasks) /\ Len(tasks') = Len(tasks) + 1 /\ Len(tasks) \in Nat
          /\ \A k \in 1..Len(tasks) : tasks'[k] = tasks[k]
          /\ tasks'[Len(tasks) + 1] = new
      BY <1>0, <3>1, <3>2 DEF FlowTypes
    <3>4. /\ FlowRecord(flow') /\ flow'.written = flow.written /\ flow'.dispatched = flow.dispatched
          /\ flow'.target = flow.target /\ flow'.log = Len(tasks) + 1 /\ flow'.state = flow.state
          /\ flow'.received = flow.received
      BY <1>0, <3>1 DEF FlowTypes, FlowRecord, FlowFields, Marks
    <3>5. FlowTypes'
      BY <1>0, <1>00, <3>3, <3>4 DEF FlowTypes
    <3>6. FlowInOrder'
      BY <1>0, <3>3, <3>4 DEF FlowInOrder, FlowTypes
    <3>7. TaskPerEvent'
      <4>1. ASSUME NEW k \in 1..Len(tasks')
            PROVE  tasks'[k].high = tasks'[k].low + 1 /\ tasks'[k].high <= flow'.received
        <5>1. CASE k = Len(tasks) + 1
          BY <3>2, <3>3, <3>4, <5>1
        <5>2. CASE k \in 1..Len(tasks)
          BY <1>0, <3>3, <3>4, <5>2 DEF TaskPerEvent
        <5> QED  BY <3>3, <5>1, <5>2
      <4>2. tasks'[flow'.log].high = flow'.target
        BY <3>2, <3>3, <3>4
      <4> QED  BY <4>1, <4>2 DEF TaskPerEvent
    <3> QED  BY <1>0, <1>00, <3>3, <3>4, <3>5, <3>6, <3>7, EventCarried DEF FlowTypes
  <2>3. CASE flow.log # 0
    <3>1. /\ FlowRecord(flow') /\ flow'.written = flow.written /\ flow'.dispatched = flow.target
          /\ flow'.target = flow.target /\ flow'.log = flow.log /\ flow'.state = "queued"
          /\ flow'.received = flow.received /\ UNCHANGED tasks
      BY <1>0, <1>3, <2>3 DEF EnqueueTask, FlowTypes, FlowRecord, FlowFields, Marks
    <3>2. FlowTypes' /\ TaskPerEvent'
      BY <1>0, <1>00, <3>1 DEF FlowTypes, TaskPerEvent
    <3>3. FlowInOrder'
      BY <1>0, <2>1, <3>1 DEF FlowInOrder, FlowTypes
    <3>4. flow.dispatched <= flow'.dispatched
      BY <1>0, <2>1, <3>1 DEF FlowTypes
    <3> QED  BY <1>0, <1>00, <3>1, <3>2, <3>3, <3>4, EventCarried DEF FlowTypes
  <2> QED  BY <2>2, <2>3
<1>4. CASE RunTask \/ LeaseLost
  <2>1. /\ FlowRecord(flow') /\ flow'.written = flow.written /\ flow'.dispatched = flow.dispatched
        /\ flow'.target = flow.target /\ flow'.log = flow.log
        /\ flow'.state = flow.state \/ flow'.state \in {"idle", "retry"}
        /\ flow'.received = flow.received /\ UNCHANGED tasks
    BY <1>0, <1>4 DEF RunTask, LeaseLost, FlowTypes, FlowRecord, FlowFields, Marks
  <2>2. FlowTypes' /\ FlowInOrder' /\ TaskPerEvent'
    BY <1>0, <1>00, <2>1 DEF FlowTypes, FlowInOrder, TaskPerEvent
  <2> QED  BY <1>0, <1>00, <2>1, <2>2, EventCarried DEF FlowTypes
<1> QED  BY <1>1, <1>2, <1>3, <1>4

(* What the pilot does before its first sample *)
LEMMA PreparationGoesOn ==
  ASSUME LoadInv,
         \/ StartLoad \/ CreateBinding \/ PairSource \/ WaitActive \/ BulkSync \/ WaitPublished
         \/ CreateReceiver \/ ConfigureSender \/ AnswerLost \/ DrainBaseline
  PROVE  LoadInv'
<1>0. /\ LoadRecord(load) /\ PairRecord(pair) /\ FlowRecord(flow) /\ flow.written \in Nat
      /\ flow.dispatched \in Nat /\ flow.received \in Nat
      /\ PlaceKnown /\ LengthsKnown /\ CredentialsKnown /\ FlowInOrder
  BY DEF LoadInv, LoadTypes, FlowTypes
<1>1. ASSUME load.pc \in BeforeSamples, load'.pc \in BeforeSamples, UNCHANGED <<timed, hops>>,
             load'.pc \notin {"idle", "bind"} \/ flow.written = 0,
             flow'.written = flow.written,
             load'.pc = "baseline" => load'.seen = flow.written
      PROVE  PlaceKnown' /\ LengthsKnown'
  BY <1>0, <1>1 DEF PlaceKnown, LengthsKnown, BeforeSamples
<1>2. CASE StartLoad
  <2>1. /\ LoadRecord(load') /\ load.pc = "idle" /\ load'.pc = "bind" /\ load'.seen = load.seen
        /\ load'.error = load.error /\ load'.ok = load.ok /\ load'.incomplete = load.incomplete
        /\ UNCHANGED <<pair, flow, tasks, timed, hops>>
    BY <1>0, <1>2 DEF StartLoad, LoadAt, OutsideStays, LoadRecord, LoadFields
  <2>2. PlaceKnown' /\ LengthsKnown'
    BY <1>0, <1>1, <2>1 DEF BeforeSamples, PlaceKnown
  <2>3. CredentialsKnown'
    BY <1>0, <2>1 DEF CredentialsKnown, AtSamples, Revoking
  <2>4. hops = <<>>
    BY <1>0, <2>1 DEF PlaceKnown, BeforeSamples
  <2> QED  BY <1>0, <2>1, <2>2, <2>3, <2>4, PilotMovesOn
<1>3. CASE CreateBinding
  <2>1. PICK baseline \in {0, 1} : flow' = [flow EXCEPT !.written = baseline]
    BY <1>3 DEF CreateBinding
  <2>2. /\ LoadRecord(load') /\ load.pc = "bind" /\ load'.pc = "pair" /\ load'.seen = load.seen
        /\ load'.error = load.error /\ load'.ok = load.ok /\ load'.incomplete = load.incomplete
        /\ PairRecord(pair') /\ UNCHANGED <<tasks, timed, hops>>
    BY <1>0, <1>3 DEF CreateBinding, LoadAt, LoadGoto, LoadRecord, LoadFields, PairRecord, PairFields
  <2>3. /\ FlowRecord(flow') /\ flow'.written = baseline /\ flow'.dispatched = flow.dispatched
        /\ flow'.target = flow.target /\ flow'.log = flow.log /\ flow'.state = flow.state
        /\ flow'.received = flow.received
    BY <1>0, <2>1 DEF FlowRecord, FlowFields, Marks
  <2>4. timed = <<>> /\ hops = <<>> /\ flow.written = 0
    BY <1>0, <2>2 DEF PlaceKnown, BeforeSamples
  <2>5. flow.received = 0 /\ flow.dispatched = 0
    BY <1>0, <2>4 DEF FlowInOrder
  <2>6. FlowTypes' /\ TaskPerEvent'
    BY <2>2, <2>3 DEF LoadInv, FlowTypes, TaskPerEvent
  <2>7. FlowInOrder'
    BY <2>2, <2>3, <2>4, <2>5 DEF LoadInv, FlowTypes, FlowInOrder
  <2>8. TimedInOrder' /\ HopsKnown'
    BY <2>2, <2>4 DEF TimedInOrder, HopsKnown
  <2>9. PlaceKnown' /\ LengthsKnown'
    BY <2>2, <2>4 DEF PlaceKnown, LengthsKnown
  <2>10. CredentialsKnown' /\ LoadTypes'
    BY <1>0, <2>2 DEF CredentialsKnown, AtSamples, Revoking, LoadInv, LoadTypes
  <2> QED  BY <2>6, <2>7, <2>8, <2>9, <2>10 DEF LoadInv
<1>4. CASE PairSource \/ WaitActive \/ BulkSync \/ WaitPublished
  <2>1. /\ LoadRecord(load') /\ PairRecord(pair') /\ load.pc \in BeforeSamples
        /\ load'.pc \in {"pair", "active", "sync", "published", "receiver"}
        /\ load'.seen = load.seen /\ load'.pattern = load.pattern
        /\ load'.error = load.error /\ load'.ok = load.ok /\ load'.incomplete = load.incomplete
        /\ UNCHANGED <<flow, tasks, timed, hops>>
    <3>1. CASE PairSource
      BY <1>0, <3>1 DEF PairSource, LoadAt, LoadGoto, LoadRecord, LoadFields, PairRecord, PairFields, BeforeSamples
    <3>2. CASE WaitActive
      BY <1>0, <3>2 DEF WaitActive, LoadAt, LoadGoto, LoadRecord, LoadFields, PairRecord, PairFields, BeforeSamples
    <3>3. CASE BulkSync \/ WaitPublished
      BY <1>0, <3>3 DEF BulkSync, WaitPublished, LoadAt, LoadGoto, LoadRecord, LoadFields, PairRecord,
                        PairFields, BeforeSamples
    <3> QED  BY <1>4, <3>1, <3>2, <3>3
  <2>2. PlaceKnown' /\ LengthsKnown'
    BY <1>1, <2>1 DEF BeforeSamples
  <2>3. CredentialsKnown'
    BY <1>0, <2>1 DEF CredentialsKnown, AtSamples, Revoking, BeforeSamples
  <2> QED  BY <2>1, <2>2, <2>3, PilotMovesOn
<1>5. CASE CreateReceiver
  <2>1. /\ LoadRecord(load') /\ PairRecord(pair') /\ load.pc = "receiver" /\ load'.pc = "sender"
        /\ load'.sourcePaired = TRUE
        /\ load'.seen = load.seen /\ load'.pattern = load.pattern
        /\ load'.error = load.error /\ load'.ok = load.ok /\ load'.incomplete = load.incomplete
        /\ UNCHANGED <<flow, tasks, timed, hops>>
    BY <1>0, <1>5 DEF CreateReceiver, LoadAt, LoadRecord, LoadFields, PairRecord, PairFields
  <2>2. PlaceKnown' /\ LengthsKnown'
    BY <1>1, <2>1 DEF BeforeSamples
  <2>3. CredentialsKnown'
    BY <1>0, <2>1 DEF CredentialsKnown, AtSamples, Revoking
  <2> QED  BY <2>1, <2>2, <2>3, PilotMovesOn
<1>6. CASE ConfigureSender
  <2>1. /\ LoadRecord(load') /\ PairRecord(pair') /\ load.pc = "sender" /\ load'.pc = "baseline"
        /\ load'.sourcePaired = load.sourcePaired /\ load'.cloudPaired = TRUE
        /\ load'.seen = flow.written /\ load'.pattern = load.pattern
        /\ load'.error = load.error /\ load'.ok = load.ok /\ load'.incomplete = load.incomplete
        /\ UNCHANGED <<flow, tasks, timed, hops>>
    BY <1>0, <1>6 DEF ConfigureSender, LoadAt, LoadRecord, LoadFields, PairRecord, PairFields
  <2>2. PlaceKnown' /\ LengthsKnown'
    BY <1>1, <2>1 DEF BeforeSamples
  <2>3. CredentialsKnown'
    BY <1>0, <2>1 DEF CredentialsKnown, AtSamples, Revoking
  <2> QED  BY <2>1, <2>2, <2>3, PilotMovesOn
<1>7. CASE AnswerLost
  <2>1. /\ LoadRecord(load') /\ PairRecord(pair') /\ load.pc \in {"receiver", "sender"}
        /\ load'.pc = "revoke-sender" /\ load'.error = TRUE
        /\ load'.seen = load.seen /\ load'.pattern = load.pattern
        /\ load'.ok = load.ok /\ load'.incomplete = load.incomplete
        /\ UNCHANGED <<flow, tasks, timed, hops>>
    BY <1>0, <1>7 DEF AnswerLost, LoadAt, LoadRecord, LoadFields, PairRecord, PairFields
  <2>2. load.pc \notin Revoking /\ load.pc \in BeforeSamples
    BY <2>1 DEF Revoking, BeforeSamples
  <2>3. PlaceKnown' /\ LengthsKnown'
    BY <1>0, <2>1, <2>2 DEF PlaceKnown, LengthsKnown, BeforeSamples
  <2>4. ~load.ok
    BY <1>0, <2>1, <2>2 DEF CredentialsKnown
  <2>5. CredentialsKnown'
    BY <2>1, <2>4 DEF CredentialsKnown, AtSamples, Revoking
  <2> QED  BY <2>1, <2>3, <2>5, PilotMovesOn
<1>8. CASE DrainBaseline
  <2>1. /\ LoadRecord(load') /\ PairRecord(pair') /\ load.pc = "baseline" /\ load'.pc = "sample"
        /\ load'.sourcePaired = load.sourcePaired /\ load'.cloudPaired = load.cloudPaired
        /\ load'.seen = load.seen /\ load'.pattern = load.pattern
        /\ load'.error = load.error /\ load'.ok = load.ok /\ load'.incomplete = load.incomplete
        /\ flow.dispatched >= load.seen
        /\ UNCHANGED <<flow, tasks, timed, hops>>
    BY <1>0, <1>8 DEF DrainBaseline, LoadAt, LoadGoto, OutsideStays, LoadRecord, LoadFields
  <2>2. timed = <<>> /\ hops = <<>> /\ flow.dispatched = flow.written
    BY <1>0, <2>1 DEF PlaceKnown, BeforeSamples, FlowInOrder
  <2>3. PlaceKnown' /\ LengthsKnown'
    BY <2>1, <2>2 DEF PlaceKnown, LengthsKnown, BeforeSamples
  <2>4. CredentialsKnown'
    BY <1>0, <2>1 DEF CredentialsKnown, AtSamples, Revoking
  <2> QED  BY <2>1, <2>3, <2>4, PilotMovesOn
<1> QED  BY <1>2, <1>3, <1>4, <1>5, <1>6, <1>7, <1>8

(* A sample: the pilot writes when nothing is left to dispatch, and waits. *)
LEMMA SamplesGoOn ==
  ASSUME LoadInv, PrimeAccepted \/ Accepted \/ Applied PROVE LoadInv'
<1>0. /\ LoadRecord(load) /\ PairRecord(pair) /\ flow.written \in Nat
      /\ flow.dispatched \in Nat /\ flow.received \in Nat
      /\ PlaceKnown /\ LengthsKnown /\ CredentialsKnown /\ FlowInOrder
  BY DEF LoadInv, LoadTypes, FlowTypes
<1>1. /\ LoadRecord(load')
      /\ <<load.pc, load'.pc>> \in {<<"primed", "measure">>, <<"accepted", "applied">>, <<"applied", "sample">>}
      /\ load.pc \in {"primed", "accepted"} => flow.dispatched >= load.seen
      /\ load'.sourcePaired = load.sourcePaired /\ load'.cloudPaired = load.cloudPaired
      /\ load'.seen = load.seen /\ load'.pattern = load.pattern
      /\ load'.error = load.error /\ load'.ok = load.ok /\ load'.incomplete = load.incomplete
      /\ UNCHANGED <<pair, flow, tasks, timed, hops>>
  <2>1. CASE PrimeAccepted
    BY <1>0, <2>1 DEF PrimeAccepted, LoadAt, LoadGoto, Reached, OutsideStays, LoadRecord, LoadFields
  <2>2. CASE Accepted
    BY <1>0, <2>2 DEF Accepted, LoadAt, LoadGoto, Reached, OutsideStays, LoadRecord, LoadFields
  <2>3. CASE Applied
    BY <1>0, <2>3 DEF Applied, LoadAt, LoadGoto, Reached, OutsideStays, LoadRecord, LoadFields
  <2> QED  BY <2>1, <2>2, <2>3
<1>2. flow.dispatched = flow.written
  BY <1>0, <1>1 DEF PlaceKnown, FlowInOrder
<1>3. PlaceKnown' /\ LengthsKnown'
  BY <1>0, <1>1, <1>2 DEF PlaceKnown, LengthsKnown, BeforeSamples
<1>4. CredentialsKnown'
  BY <1>0, <1>1 DEF CredentialsKnown, AtSamples, Revoking
<1> QED  BY <1>0, <1>1, <1>3, <1>4, PilotMovesOn

(* The next event is written when everything before it is dispatched. *)
LEMMA ProbeWritten ==
  ASSUME LoadInv, NEW next \in {"primed", "accepted"}, WriteProbe(next), UNCHANGED <<pair, tasks>>,
         flow.dispatched = flow.written
  PROVE  /\ FlowTypes' \/ hops' \notin Seq(HopRecords)
         /\ LoadTypes' /\ FlowInOrder' /\ TaskPerEvent' /\ TimedInOrder'
         /\ flow'.written = flow.written + 1 /\ flow'.dispatched = flow.dispatched
         /\ load'.pc = next /\ load'.seen = flow.written + 1 /\ load'.pattern = load.pattern
         /\ load'.sourcePaired = load.sourcePaired /\ load'.cloudPaired = load.cloudPaired
         /\ load'.error = load.error /\ load'.ok = load.ok /\ load'.incomplete = load.incomplete
         /\ Len(timed') = Len(timed) + 1 /\ timed'[Len(timed) + 1] = flow.written + 1
         /\ \A i \in 1..Len(timed) : timed'[i] = timed[i]
<1>0. /\ LoadRecord(load) /\ PairRecord(pair) /\ FlowRecord(flow) /\ flow.written \in Nat
      /\ flow.dispatched \in Nat /\ flow.received \in Nat /\ timed \in Seq(Nat)
      /\ flow.target \in Nat /\ flow.log \in Nat /\ tasks \in Seq(LoadTasks) /\ hops \in Seq(HopRecords)
      /\ TimedInOrder /\ FlowInOrder /\ TaskPerEvent
  BY DEF LoadInv, LoadTypes, FlowTypes
<1>1. /\ FlowRecord(flow') /\ flow'.written = flow.written + 1 /\ flow'.dispatched = flow.dispatched
      /\ flow'.target = flow.target /\ flow'.log = flow.log /\ flow'.state = flow.state
      /\ flow'.received = flow.received
  BY <1>0 DEF WriteProbe, WriteEvent, FlowRecord, FlowFields, Marks
<1>2. /\ LoadRecord(load') /\ load'.pc = next /\ load'.seen = flow.written + 1
      /\ load'.pattern = load.pattern
      /\ load'.sourcePaired = load.sourcePaired /\ load'.cloudPaired = load.cloudPaired
      /\ load'.error = load.error /\ load'.ok = load.ok /\ load'.incomplete = load.incomplete
  BY <1>0 DEF WriteProbe, LoadRecord, LoadFields
<1>3. /\ timed' \in Seq(Nat) /\ Len(timed') = Len(timed) + 1 /\ Len(timed) \in Nat
      /\ timed'[Len(timed) + 1] = flow.written + 1
      /\ \A i \in 1..Len(timed) : timed'[i] = timed[i] /\ timed[i] \in Nat
  BY <1>0 DEF WriteProbe
<1>4. FlowTypes' \/ hops' \notin Seq(HopRecords)
  BY <1>0, <1>1, <1>3 DEF FlowTypes
<1>5. LoadTypes' /\ TaskPerEvent'
  BY <1>0, <1>1, <1>2 DEF LoadTypes, TaskPerEvent
<1>6. FlowInOrder'
  BY <1>0, <1>1 DEF FlowInOrder
<1>7. TimedInOrder'
  <2>1. \A i \in 1..Len(timed) : timed'[i] <= flow.written /\ timed'[i] \in Nat
    BY <1>0, <1>3 DEF TimedInOrder
  <2>2. ASSUME NEW i \in 1..(Len(timed) + 1) PROVE timed'[i] <= flow.written + 1
    <3>1. i \in 1..Len(timed) \/ i = Len(timed) + 1
      BY <1>3, <2>2
    <3> QED  BY <1>0, <1>3, <2>1, <3>1
  <2>3. ASSUME NEW i \in 1..(Len(timed) + 1), NEW j \in 1..(Len(timed) + 1), i < j
        PROVE  timed'[i] < timed'[j]
    <3>1. i \in 1..Len(timed) /\ (j \in 1..Len(timed) \/ j = Len(timed) + 1)
      BY <1>3, <2>3
    <3>2. CASE j = Len(timed) + 1
      BY <1>0, <1>3, <2>1, <3>1, <3>2
    <3>3. CASE j \in 1..Len(timed)
      BY <1>0, <1>3, <2>3, <3>1, <3>3 DEF TimedInOrder
    <3> QED  BY <3>1, <3>2, <3>3
  <2> QED  BY <1>1, <1>3, <2>2, <2>3 DEF TimedInOrder
<1> QED  BY <1>1, <1>2, <1>3, <1>4, <1>5, <1>6, <1>7

(* What was attributed to an earlier sample still is. *)
LEMMA HopsStay ==
  ASSUME LoadInv, load'.pattern = load.pattern, UNCHANGED tasks, flow'.dispatched = flow.dispatched,
         \A i \in 1..Len(timed) : timed'[i] = timed[i],
         NEW n \in 1..Len(hops), hops'[n] = hops[n]
  PROVE  HopKnown(n)'
<1>1. Len(timed) \in Nat /\ Len(hops) \in Nat
  BY DEF LoadInv, FlowTypes
<1>2. SampleOf(n)' = SampleOf(n)
  <2>1. CASE load.pattern = "sequential"
    BY <1>1, <2>1 DEF LoadInv, LengthsKnown, SampleOf
  <2>2. CASE load.pattern # "sequential"
    BY <1>1, <2>2 DEF LoadInv, LengthsKnown, SampleOf
  <2> QED  BY <2>1, <2>2
<1> QED  BY <1>2 DEF LoadInv, HopsKnown, HopKnown, CoveredBy

LEMMA PrimeGoesOn == ASSUME LoadInv, Prime PROVE LoadInv'
<1>1. /\ load.pc = "sample" /\ load.pattern # "sequential" /\ WriteProbe("primed")
      /\ UNCHANGED <<pair, tasks, hops>>
  BY DEF Prime, LoadAt
<1>2. /\ flow.dispatched = flow.written /\ Len(timed) = 2 * Len(hops)
  BY <1>1 DEF LoadInv, PlaceKnown, LengthsKnown
<1>3. hops' \in Seq(HopRecords) /\ Len(hops) \in Nat /\ flow.written \in Nat
  BY <1>1 DEF LoadInv, FlowTypes
<1>4. /\ FlowTypes' /\ LoadTypes' /\ FlowInOrder' /\ TaskPerEvent' /\ TimedInOrder'
      /\ flow'.written = flow.written + 1 /\ flow'.dispatched = flow.dispatched
      /\ load'.pc = "primed" /\ load'.seen = flow.written + 1 /\ load'.pattern = load.pattern
      /\ load'.sourcePaired = load.sourcePaired /\ load'.cloudPaired = load.cloudPaired
      /\ load'.error = load.error /\ load'.ok = load.ok /\ load'.incomplete = load.incomplete
      /\ Len(timed') = Len(timed) + 1
      /\ \A i \in 1..Len(timed) : timed'[i] = timed[i]
  BY <1>1, <1>2, <1>3, ProbeWritten
<1>5. PlaceKnown'
  BY <1>1, <1>4 DEF PlaceKnown, BeforeSamples
<1>6. LengthsKnown'
  BY <1>1, <1>2, <1>3, <1>4 DEF LengthsKnown
<1>7. HopsKnown'
  BY <1>1, <1>4, HopsStay DEF HopsKnown
<1>8. CredentialsKnown'
  BY <1>1, <1>4 DEF LoadInv, CredentialsKnown, AtSamples, Revoking
<1> QED  BY <1>4, <1>5, <1>6, <1>7, <1>8 DEF LoadInv

LEMMA MeasureGoesOn == ASSUME LoadInv, Measure PROVE LoadInv'
<1> DEFINE blank == [log |-> 0, worker |-> 0, accept |-> FALSE, receipt |-> FALSE]
<1>1. /\ load.pc = "measure" \/ (load.pc = "sample" /\ load.pattern = "sequential")
      /\ WriteProbe("accepted") /\ UNCHANGED <<pair, tasks>> /\ hops' = Append(hops, blank)
  BY Zenon DEF Measure, LoadAt
<1>2. /\ flow.dispatched = flow.written
      /\ load.pattern = "sequential" => Len(timed) = Len(hops)
      /\ load.pattern # "sequential" => Len(timed) = 2 * Len(hops) + 1
  BY <1>1 DEF LoadInv, PlaceKnown, LengthsKnown
<1>3. blank \in HopRecords /\ blank.log = 0 /\ blank.worker = 0 /\ blank.accept = FALSE
  BY DEF HopRecords
<1> HIDE DEF blank
<1>30. /\ hops' \in Seq(HopRecords) /\ Len(hops) \in Nat /\ flow.written \in Nat
      /\ Len(hops') = Len(hops) + 1 /\ hops'[Len(hops) + 1] = blank
      /\ \A n \in 1..Len(hops) : hops'[n] = hops[n]
  BY <1>1, <1>3 DEF LoadInv, FlowTypes
<1>4. /\ FlowTypes' /\ LoadTypes' /\ FlowInOrder' /\ TaskPerEvent' /\ TimedInOrder'
      /\ flow'.written = flow.written + 1 /\ flow'.dispatched = flow.dispatched
      /\ load'.pc = "accepted" /\ load'.seen = flow.written + 1 /\ load'.pattern = load.pattern
      /\ load'.sourcePaired = load.sourcePaired /\ load'.cloudPaired = load.cloudPaired
      /\ load'.error = load.error /\ load'.ok = load.ok /\ load'.incomplete = load.incomplete
      /\ Len(timed') = Len(timed) + 1 /\ timed'[Len(timed) + 1] = flow.written + 1
      /\ \A i \in 1..Len(timed) : timed'[i] = timed[i]
  BY <1>1, <1>2, <1>30, ProbeWritten
<1>40. Len(timed) \in Nat
  BY DEF LoadInv, FlowTypes
<1>5. PlaceKnown'
  BY <1>4, <1>40 DEF PlaceKnown, BeforeSamples
<1>6. LengthsKnown'
  BY <1>2, <1>30, <1>4, <1>40 DEF LengthsKnown
<1>7. HopsKnown'
  <2> SUFFICES ASSUME NEW n \in 1..(Len(hops) + 1) PROVE HopKnown(n)'
    BY <1>30 DEF HopsKnown
  <2>1. CASE n = Len(hops) + 1
    BY <1>3, <1>30, <2>1 DEF HopKnown
  <2>2. CASE n \in 1..Len(hops)
    BY <1>1, <1>30, <1>4, <2>2, HopsStay
  <2> QED  BY <1>30, <2>1, <2>2
<1>8. CredentialsKnown'
  BY <1>1, <1>4 DEF LoadInv, CredentialsKnown, AtSamples, Revoking
<1> QED  BY <1>4, <1>5, <1>6, <1>7, <1>8 DEF LoadInv

(* The recorder attributes to the sample only what covers its event. *)
LEMMA ObserveGoesOn == ASSUME LoadInv, Observe PROVE LoadInv'
<1> DEFINE n == Len(hops)
           event == load.seen
           old == hops[n]
           new == [log |-> IF CoversEvent THEN First(old.log, flow.log) ELSE old.log,
                   worker |-> IF CoversEvent /\ flow.sync # "none" THEN First(old.worker, flow.log)
                              ELSE old.worker,
                   accept |-> old.accept \/ flow.dispatched >= load.seen,
                   receipt |-> old.receipt \/ flow.sent >= load.seen]
<1>0. /\ flow.written \in Nat /\ flow.dispatched \in Nat /\ flow.received \in Nat /\ load.seen \in Nat
      /\ flow.target \in Nat /\ flow.log \in Nat /\ tasks \in Seq(LoadTasks) /\ hops \in Seq(HopRecords)
      /\ timed \in Seq(Nat) /\ FlowInOrder /\ TaskPerEvent /\ Len(hops) \in Nat /\ Len(timed) \in Nat
      /\ Len(tasks) \in Nat
  BY DEF LoadInv, LoadTypes, FlowTypes
<1>1. /\ load.pc \in {"accepted", "applied"} /\ UNCHANGED <<load, pair, flow, tasks, timed>>
      /\ hops' = [hops EXCEPT ![n] = new]
  BY DEF Observe
<1>2. /\ load.seen = flow.written /\ Len(timed) > 0 /\ timed[Len(timed)] = load.seen
      /\ load.pattern = "sequential" => Len(timed) = Len(hops)
      /\ load.pattern # "sequential" => Len(timed) = 2 * Len(hops)
  BY <1>1 DEF LoadInv, PlaceKnown, LengthsKnown
<1>3. n \in 1..Len(hops) /\ SampleOf(n) = event
  BY <1>0, <1>2 DEF SampleOf
<1>4. old \in HopRecords /\ HopKnown(n)
  BY <1>0, <1>3 DEF LoadInv, HopsKnown
<1>5. old.log \in Nat /\ old.worker \in Nat /\ old.accept \in BOOLEAN /\ old.receipt \in BOOLEAN
  BY <1>4 DEF HopRecords
<1>6. CoversEvent /\ flow.log # 0 => flow.log <= Len(tasks) /\ CoveredBy(flow.log, event)
  <2> SUFFICES ASSUME flow.target >= load.seen, flow.log # 0
               PROVE  flow.log <= Len(tasks) /\ CoveredBy(flow.log, event)
    BY DEF CoversEvent
  <2>1. flow.log \in 1..Len(tasks) /\ flow.target = event
    BY <1>0, <1>2 DEF FlowInOrder
  <2>2. /\ tasks[flow.log].high = event /\ tasks[flow.log].high = tasks[flow.log].low + 1
        /\ tasks[flow.log] \in LoadTasks
    BY <1>0, <2>1 DEF TaskPerEvent
  <2>3. tasks[flow.log].low \in Nat
    BY <2>2 DEF LoadTasks
  <2> QED  BY <1>0, <2>1, <2>2, <2>3 DEF CoveredBy
<1>7. /\ new.log \in {old.log, flow.log} /\ (new.log # old.log => CoversEvent)
      /\ new.worker \in {old.worker, flow.log} /\ (new.worker # old.worker => CoversEvent)
      /\ new.accept \in BOOLEAN /\ new.receipt \in BOOLEAN
      /\ new.accept => old.accept \/ flow.dispatched >= load.seen
  BY <1>5 DEF First
<1>8. new \in HopRecords
  <2>1. new.log \in Nat /\ new.worker \in Nat
    BY <1>0, <1>5, <1>7
  <2> QED  BY <1>7, <2>1 DEF HopRecords
<1> HIDE DEF new
<1>9. hops' \in Seq(HopRecords) /\ Len(hops') = Len(hops) /\ hops'[n] = new
      /\ \A m \in 1..Len(hops) : m # n => hops'[m] = hops[m]
  BY <1>0, <1>1, <1>3, <1>8
<1>10. FlowTypes' /\ LoadTypes' /\ FlowInOrder' /\ TaskPerEvent' /\ TimedInOrder'
  BY <1>1, <1>9 DEF LoadInv, FlowTypes, LoadTypes, FlowRecord, FlowInOrder, TaskPerEvent, TimedInOrder
<1>11. PlaceKnown'
  BY <1>1 DEF LoadInv, PlaceKnown, BeforeSamples
<1>12. LengthsKnown' /\ CredentialsKnown'
  BY <1>1, <1>9 DEF LoadInv, LengthsKnown, CredentialsKnown
<1>13. HopsKnown'
  <2> SUFFICES ASSUME NEW m \in 1..Len(hops) PROVE HopKnown(m)'
    BY <1>9 DEF HopsKnown
  <2>1. CASE m # n
    BY <1>1, <1>9, <2>1, HopsStay
  <2>2. CASE m = n
    <3>1. SampleOf(m)' = event
      BY <1>1, <1>3, <2>2 DEF SampleOf
    <3>2. new.log # 0 => new.log <= Len(tasks) /\ CoveredBy(new.log, event)
      BY <1>3, <1>4, <1>6, <1>7 DEF HopKnown
    <3>3. new.worker # 0 => new.worker <= Len(tasks) /\ CoveredBy(new.worker, event)
      BY <1>3, <1>4, <1>6, <1>7 DEF HopKnown
    <3>4. new.accept => flow.dispatched >= event
      BY <1>3, <1>4, <1>7 DEF HopKnown
    <3> QED  BY <1>1, <1>9, <2>2, <3>1, <3>2, <3>3, <3>4 DEF HopKnown, CoveredBy
  <2> QED  BY <2>1, <2>2
<1> QED  BY <1>10, <1>11, <1>12, <1>13 DEF LoadInv

(* The end: both credentials are revoked. *)
LEMMA RevocationGoesOn ==
  ASSUME LoadInv, SamplesDone \/ LoadFails \/ RevokeSender \/ RevokeReceiver
  PROVE  LoadInv'
<1>0. /\ LoadRecord(load) /\ PairRecord(pair) /\ PlaceKnown /\ LengthsKnown /\ CredentialsKnown
  BY DEF LoadInv, LoadTypes
<1>00. ASSUME load'.pc \in Revoking, load'.seen = load.seen, load'.pattern = load.pattern,
              LoadRecord(load'), PairRecord(pair'),
              UNCHANGED <<flow, tasks, timed, hops>>, CredentialsKnown'
       PROVE  LoadInv'
  <2>1. PlaceKnown' /\ LengthsKnown'
    BY <1>0, <1>00 DEF PlaceKnown, LengthsKnown, BeforeSamples, Revoking
  <2> QED  BY <1>00, <2>1, PilotMovesOn
<1>1. CASE SamplesDone
  <2>1. /\ LoadRecord(load') /\ load.pc = "sample" /\ load'.pc = "revoke-sender"
        /\ load.sample = NSamples /\ load'.sample = load.sample
        /\ load'.sourcePaired = load.sourcePaired /\ load'.cloudPaired = load.cloudPaired
        /\ load'.seen = load.seen /\ load'.pattern = load.pattern
        /\ load'.error = load.error /\ load'.ok = load.ok /\ load'.incomplete = load.incomplete
        /\ UNCHANGED <<pair, flow, tasks, timed, hops>>
    BY <1>0, <1>1 DEF SamplesDone, LoadAt, LoadGoto, OutsideStays, LoadRecord, LoadFields
  <2>2. CredentialsKnown'
    BY <1>0, <2>1 DEF CredentialsKnown, AtSamples, Revoking
  <2> QED  BY <1>0, <1>00, <2>1, <2>2 DEF Revoking
<1>2. CASE LoadFails
  <2>1. /\ LoadRecord(load') /\ load.pc \notin Revoking /\ load'.pc = "revoke-sender" /\ load'.error = TRUE
        /\ load'.seen = load.seen /\ load'.pattern = load.pattern
        /\ load'.ok = load.ok /\ load'.incomplete = load.incomplete
        /\ UNCHANGED <<pair, flow, tasks, timed, hops>>
    BY <1>0, <1>2 DEF LoadFails, LoadRecord, LoadFields
  <2>2. CredentialsKnown'
    BY <1>0, <2>1 DEF CredentialsKnown, AtSamples, Revoking
  <2> QED  BY <1>0, <1>00, <2>1, <2>2 DEF Revoking
<1>3. CASE RevokeSender
  <2>1. /\ LoadRecord(load') /\ PairRecord(pair')
        /\ load.pc = "revoke-sender" /\ load'.pc = "revoke-receiver"
        /\ load'.sample = load.sample /\ load'.error = load.error /\ load'.ok = load.ok
        /\ load'.sourcePaired = load.sourcePaired /\ load'.cloudPaired = load.cloudPaired
        /\ load'.seen = load.seen /\ load'.pattern = load.pattern
        /\ UNCHANGED <<flow, tasks, timed, hops>>
        /\ load.cloudPaired /\ ~load'.incomplete => pair'.sender = "revoked"
    <3>1. CASE pair' = [pair EXCEPT !.sender = "revoked"] /\ LoadGoto("revoke-receiver")
      BY <1>0, <1>3, <3>1 DEF RevokeSender, LoadAt, LoadGoto, LoadRecord, LoadFields, PairRecord, PairFields
    <3>2. CASE ~load.cloudPaired /\ LoadGoto("revoke-receiver") /\ UNCHANGED pair
      BY <1>0, <1>3, <3>2 DEF RevokeSender, LoadAt, LoadGoto, LoadRecord, LoadFields
    <3>3. CASE /\ load' = [load EXCEPT !.pc = "revoke-receiver", !.incomplete = TRUE]
               /\ UNCHANGED pair
      BY <1>0, <1>3, <3>3 DEF RevokeSender, LoadAt, LoadRecord, LoadFields
    <3> QED  BY <1>3, <3>1, <3>2, <3>3 DEF RevokeSender
  <2>2. CredentialsKnown'
    BY <1>0, <2>1 DEF CredentialsKnown, AtSamples, Revoking
  <2> QED  BY <1>00, <2>1, <2>2 DEF Revoking
<1>4. CASE RevokeReceiver
  <2>1. /\ LoadRecord(load') /\ PairRecord(pair') /\ pair'.sender = pair.sender
        /\ load.pc = "revoke-receiver" /\ load'.pc = "ended"
        /\ load'.sample = load.sample /\ load'.error = load.error
        /\ load'.sourcePaired = load.sourcePaired /\ load'.cloudPaired = load.cloudPaired
        /\ load'.seen = load.seen /\ load'.pattern = load.pattern
        /\ UNCHANGED <<flow, tasks, timed, hops>>
        /\ \/ /\ load.sourcePaired => pair'.receiver = "revoked"
              /\ load'.incomplete = load.incomplete /\ load'.ok = (~load.error /\ ~load.incomplete)
           \/ load'.incomplete = TRUE /\ load'.ok = load.ok
    <3>1. CASE /\ pair' = [pair EXCEPT !.receiver = IF load.sourcePaired THEN "revoked" ELSE @]
               /\ load' = [load EXCEPT !.pc = "ended", !.ok = ~load.error /\ ~load.incomplete]
      BY <1>0, <1>4, <3>1 DEF RevokeReceiver, LoadAt, LoadRecord, LoadFields, PairRecord, PairFields
    <3>2. CASE /\ load' = [load EXCEPT !.pc = "ended", !.incomplete = TRUE]
               /\ UNCHANGED pair
      BY <1>0, <1>4, <3>2 DEF RevokeReceiver, LoadAt, LoadRecord, LoadFields
    <3> QED  BY <1>4, <3>1, <3>2 DEF RevokeReceiver
  <2>2. CredentialsKnown'
    BY <1>0, <2>1 DEF CredentialsKnown, AtSamples, Revoking
  <2> QED  BY <1>00, <2>1, <2>2 DEF Revoking
<1> QED  BY <1>1, <1>2, <1>3, <1>4

LEMMA LoadGoesOn == LoadInv /\ [LoadStep]_loadVars => LoadInv'
<1>1. LoadInv /\ UNCHANGED loadVars => LoadInv'
  <2> SUFFICES ASSUME LoadInv, UNCHANGED loadVars PROVE LoadInv'
    OBVIOUS
  <2>1. UNCHANGED <<load, pair, flow, tasks, timed, hops>>
    BY DEF loadVars
  <2>2. FlowTypes' /\ LoadTypes' /\ FlowInOrder' /\ TaskPerEvent' /\ TimedInOrder'
    BY <2>1 DEF LoadInv, FlowTypes, LoadTypes, FlowRecord, LoadRecord, PairRecord, FlowInOrder, TaskPerEvent,
                TimedInOrder
  <2>3. PlaceKnown' /\ LengthsKnown' /\ CredentialsKnown'
    BY <2>1 DEF LoadInv, PlaceKnown, LengthsKnown, CredentialsKnown
  <2>4. HopsKnown'
    BY <2>1 DEF LoadInv, HopsKnown, HopKnown, SampleOf, CoveredBy
  <2> QED  BY <2>2, <2>3, <2>4 DEF LoadInv
<1>2. LoadInv /\ LoadStep => LoadInv'
  BY ServicesGoOn, PreparationGoesOn, SamplesGoOn, PrimeGoesOn, MeasureGoesOn, ObserveGoesOn,
     RevocationGoesOn DEF LoadStep
<1> QED  BY <1>1, <1>2

LEMMA LoadSound == LoadInv => SamplesHaveOwnTask /\ HopsBelongToSample /\ CredentialsRevoked
<1> SUFFICES ASSUME LoadInv
             PROVE  SamplesHaveOwnTask /\ HopsBelongToSample /\ CredentialsRevoked
  OBVIOUS
<1>0. /\ timed \in Seq(Nat) /\ tasks \in Seq(LoadTasks) /\ TaskPerEvent /\ TimedInOrder
      /\ Len(timed) \in Nat
  BY DEF LoadInv, FlowTypes
<1>1. SamplesHaveOwnTask
  <2> SUFFICES ASSUME NEW i \in 1..Len(timed), NEW t \in 1..Len(tasks), CoveredBy(t, timed[i])
               PROVE  /\ \A j \in 1..Len(timed) : j # i => ~CoveredBy(t, timed[j])
                      /\ tasks[t].low + 1 = timed[i]
    BY DEF SamplesHaveOwnTask
  <2>1. tasks[t] \in LoadTasks /\ tasks[t].high = tasks[t].low + 1
    BY <1>0 DEF TaskPerEvent
  <2>2. tasks[t].low \in Nat
    BY <2>1 DEF LoadTasks
  <2>3. \A j \in 1..Len(timed) : timed[j] \in Nat
    BY <1>0
  <2>4. \A j \in 1..Len(timed) : CoveredBy(t, timed[j]) => timed[j] = tasks[t].low + 1
    BY <2>1, <2>2, <2>3 DEF CoveredBy
  <2>5. \A j \in 1..Len(timed) : j # i => timed[j] # timed[i]
    <3> SUFFICES ASSUME NEW j \in 1..Len(timed), j # i PROVE timed[j] # timed[i]
      OBVIOUS
    <3>1. i < j \/ j < i
      BY <1>0
    <3>2. timed[i] < timed[j] \/ timed[j] < timed[i]
      BY <1>0, <3>1 DEF TimedInOrder
    <3> QED  BY <2>3, <3>2
  <2> QED  BY <2>4, <2>5
<1>2. HopsBelongToSample
  BY DEF LoadInv, HopsKnown, HopKnown, HopsBelongToSample
<1>3. CredentialsRevoked
  BY DEF LoadInv, CredentialsKnown, CredentialsRevoked, LoadAt, Revoking
<1> QED  BY <1>1, <1>2, <1>3

-----------------------------------------------------------------------------
(* The resource watch: an id that was given out belongs to the same owner ever after, and the
   watch holds at most one id, of a container of the fixture, and samples that one only. *)
Ids == 0..MaxContainers
Containers == [id : Ids, ours : BOOLEAN]
WatchFields ==
  {"pc", "stage", "ids", "listed", "pending", "rescans", "seen", "samples", "terminal", "next"}
WatchRecord(r) == DOMAIN r = WatchFields /\ r = [field \in WatchFields |-> r[field]]
WatchTypes ==
  /\ daemon \in [ProjectNames -> Containers] /\ made \in [1..MaxContainers -> BOOLEAN]
  /\ WatchRecord(watch) /\ watch.next \in Nat \ {0} /\ watch.ids \in Ids
OwnersKnown ==
  /\ \A n \in ProjectNames : daemon[n].id # 0 =>
       daemon[n].id < watch.next /\ made[daemon[n].id] = daemon[n].ours
  /\ watch.ids # 0 => watch.ids < watch.next /\ made[watch.ids]
OneSampled == watch.seen \in {0, watch.ids} /\ watch.samples \subseteq {watch.ids} \ {0}
MarkerKnown == RivalKeepsMarker /\ rival \in BOOLEAN
WatchInv == WatchTypes /\ OwnersKnown /\ OneSampled /\ MarkerKnown

LEMMA WatchBegins == WatchInit => WatchInv
<1> SUFFICES ASSUME WatchInit PROVE WatchInv
  OBVIOUS
<1>1. WatchTypes
  <2>1. NoContainer \in Containers
    BY WatchAssumption DEF NoContainer, Containers, Ids
  <2>2. 0 \in Ids
    BY WatchAssumption DEF Ids
  <2>3. /\ WatchRecord(watch) /\ watch.next = 1 /\ watch.ids = 0
    BY DEF WatchInit, WatchRecord, WatchFields
  <2> QED  BY <2>1, <2>2, <2>3 DEF WatchInit, WatchTypes
<1>2. OwnersKnown /\ OneSampled /\ MarkerKnown
  BY DEF WatchInit, OwnersKnown, OneSampled, MarkerKnown, RivalKeepsMarker, NoContainer
<1> QED  BY <1>1, <1>2 DEF WatchInv

(* The watch goes on without a new identity. *)
LEMMA WatchStays ==
  ASSUME WatchInv, WatchRecord(watch'), watch'.ids = watch.ids, watch'.next = watch.next,
         watch'.seen \in {watch.seen, 0, watch.ids},
         watch'.samples \subseteq watch.samples \cup ({watch.seen} \ {0}),
         UNCHANGED <<daemon, made>>, MarkerKnown'
  PROVE  WatchInv'
BY DEF WatchInv, WatchTypes, OwnersKnown, OneSampled

LEMMA WatchGoesOn == WatchInv /\ [WatchStep]_watchVars => WatchInv'
<1> SUFFICES ASSUME WatchInv, [WatchStep]_watchVars PROVE WatchInv'
  OBVIOUS
<1>0. WatchRecord(watch) /\ MarkerKnown
  BY DEF WatchInv, WatchTypes
<1>1. CASE UNCHANGED watchVars
  BY <1>1 DEF watchVars, WatchInv, WatchTypes, WatchRecord, OwnersKnown, OneSampled, MarkerKnown,
              RivalKeepsMarker
<1>2. ASSUME NEW stage
      PROVE  /\ WatchRecord(BeginVerify(stage)) /\ BeginVerify(stage).ids = watch.ids
             /\ BeginVerify(stage).next = watch.next /\ BeginVerify(stage).samples = watch.samples
             /\ BeginVerify(stage).seen = watch.seen
             /\ WatchRecord([BeginVerify(stage) EXCEPT !.seen = watch.ids])
  BY <1>0 DEF WatchRecord, WatchFields, BeginVerify
<1>3. CASE \/ StartWatch \/ ListLabelled \/ ListPrefixed \/ InspectListed \/ SettleSnapshot
           \/ ConfirmSnapshot \/ BeginSample \/ WriteSample \/ LoopEnds \/ WatchKilled
  <2>1. OnlyWatch
    BY <1>3 DEF StartWatch, ListLabelled, ListPrefixed, InspectListed, SettleSnapshot,
                ConfirmSnapshot, BeginSample, WriteSample, LoopEnds, WatchKilled
  <2>2. MarkerKnown'
    BY <1>0, <2>1 DEF OnlyWatch, MarkerKnown, RivalKeepsMarker
  <2>3. /\ WatchRecord(watch') /\ watch'.ids = watch.ids /\ watch'.next = watch.next
        /\ watch'.seen = watch.seen
        /\ watch'.samples \subseteq watch.samples \cup ({watch.seen} \ {0})
    <3>1. CASE StartWatch \/ BeginSample
      BY <1>2, <3>1 DEF StartWatch, BeginSample
    <3>2. CASE ListLabelled \/ ListPrefixed
      BY <1>0, <3>2 DEF ListLabelled, ListPrefixed, WatchFails, WatchRecord, WatchFields
    <3>3. CASE InspectListed
      BY <1>0, <3>3 DEF InspectListed, WatchFails, WatchRecord, WatchFields
    <3>4. CASE SettleSnapshot
      BY <1>0, <3>4 DEF SettleSnapshot, WatchFails, WatchRecord, WatchFields
    <3>5. CASE ConfirmSnapshot
      BY <1>0, <3>5 DEF ConfirmSnapshot, WatchFails, WatchRecord, WatchFields
    <3>6. CASE WriteSample
      BY <1>0, <3>6 DEF WriteSample, WatchRecord, WatchFields
    <3>7. CASE LoopEnds \/ WatchKilled
      BY <1>0, <3>7 DEF LoopEnds, WatchKilled, WatchRecord, WatchFields
    <3> QED  BY <1>3, <3>1, <3>2, <3>3, <3>4, <3>5, <3>6, <3>7
  <2> QED  BY <2>1, <2>2, <2>3, WatchStays DEF OnlyWatch
<1>4. CASE TakeMarker
  <2>1. /\ WatchRecord(watch') /\ watch'.ids = watch.ids /\ watch'.next = watch.next
        /\ watch'.seen = watch.seen /\ watch'.samples = watch.samples /\ UNCHANGED <<daemon, made>>
    BY <1>0, <1>4 DEF TakeMarker, WatchRecord, WatchFields
  <2>2. MarkerKnown'
    BY <1>0, <1>4 DEF TakeMarker, MarkerKnown, RivalKeepsMarker
  <2> QED  BY <2>1, <2>2, WatchStays
<1>5. CASE EndWatch
  <2>1. /\ WatchRecord(watch') /\ watch'.ids = watch.ids /\ watch'.next = watch.next
        /\ watch'.seen = watch.seen /\ watch'.samples = watch.samples /\ UNCHANGED <<daemon, made>>
    BY <1>0, <1>5 DEF EndWatch, WatchRecord, WatchFields
  <2>2. MarkerKnown'
    BY <1>0, <1>5 DEF EndWatch, MarkerKnown, RivalKeepsMarker
  <2> QED  BY <2>1, <2>2, WatchStays
<1>6. CASE MarkerRemoved \/ RivalRuns
  <2>1. MarkerKnown' /\ UNCHANGED <<daemon, made, watch>>
    <3>1. rival \in BOOLEAN /\ (rival => marker = "rival")
      BY <1>0 DEF MarkerKnown, RivalKeepsMarker
    <3>2. CASE MarkerRemoved
      BY <3>1, <3>2 DEF MarkerRemoved, MarkerKnown, RivalKeepsMarker
    <3>3. CASE RivalRuns
      <4>1. CASE rival
        BY <3>1, <3>3, <4>1 DEF RivalRuns, MarkerKnown, RivalKeepsMarker
      <4>2. CASE ~rival
        BY <3>1, <3>3, <4>2 DEF RivalRuns, MarkerKnown, RivalKeepsMarker
      <4> QED  BY <4>1, <4>2
    <3> QED  BY <1>6, <3>2, <3>3
  <2> QED  BY <1>0, <2>1, WatchStays
<1>7. ASSUME OnlyWatch PROVE MarkerKnown' /\ UNCHANGED <<daemon, made>>
  BY <1>0, <1>7 DEF OnlyWatch, MarkerKnown, RivalKeepsMarker
<1>8. CASE ReadContainer
  <2>1. \/ watch' = [BeginVerify("after") EXCEPT !.seen = watch.ids]
        \/ WatchFails
    BY <1>8 DEF ReadContainer
  <2>2. /\ WatchRecord(watch') /\ watch'.ids = watch.ids /\ watch'.next = watch.next
        /\ watch'.seen \in {watch.seen, watch.ids} /\ watch'.samples = watch.samples
    BY <1>0, <2>1 DEF WatchFails, WatchRecord, WatchFields, BeginVerify
  <2> QED  BY <1>7, <1>8, <2>2, WatchStays DEF ReadContainer
<1>9. CASE InspectTarget
  <2>1. CASE watch' = [BeginVerify("after") EXCEPT !.seen = 0] \/ WatchFails
    <3>1. /\ WatchRecord(watch') /\ watch'.ids = watch.ids /\ watch'.next = watch.next
          /\ watch'.seen \in {watch.seen, 0} /\ watch'.samples = watch.samples
      BY <1>0, <2>1 DEF WatchFails, WatchRecord, WatchFields, BeginVerify
    <3> QED  BY <1>7, <1>9, <3>1, WatchStays DEF InspectTarget
  <2>2. CASE /\ Exists("app") /\ daemon["app"].ours /\ watch.ids \in {0, daemon["app"].id}
             /\ watch' = [watch EXCEPT !.pc = "read", !.ids = daemon["app"].id]
    <3>1. /\ WatchRecord(watch') /\ watch'.ids = daemon["app"].id /\ watch'.next = watch.next
          /\ watch'.seen = watch.seen /\ watch'.samples = watch.samples
      BY <1>0, <2>2 DEF WatchRecord, WatchFields
    <3>2. /\ "app" \in ProjectNames /\ daemon["app"] \in Containers /\ daemon["app"].id # 0
      BY <2>2 DEF ProjectNames, Expected, WatchInv, WatchTypes, Exists
    <3>3. daemon["app"].id < watch.next /\ made[daemon["app"].id] /\ daemon["app"].id \in Ids
      BY <2>2, <3>2 DEF WatchInv, OwnersKnown, Containers
    <3>4. UNCHANGED <<daemon, made>> /\ MarkerKnown'
      BY <1>7, <1>9 DEF InspectTarget
    <3>5. WatchTypes' /\ OwnersKnown'
      BY <3>1, <3>3, <3>4 DEF WatchInv, WatchTypes, OwnersKnown
    <3>6. OneSampled'
      BY <2>2, <3>1 DEF WatchInv, OneSampled
    <3> QED  BY <3>4, <3>5, <3>6 DEF WatchInv
  <2> QED  BY <1>9, <2>1, <2>2 DEF InspectTarget
<1>10. CASE ContainerRemoved
  <2>1. PICK n \in OnDaemon : daemon' = [daemon EXCEPT ![n] = NoContainer]
    BY <1>10 DEF ContainerRemoved
  <2>2. UNCHANGED <<made, watch>> /\ MarkerKnown'
    BY <1>0, <1>10 DEF ContainerRemoved, MarkerKnown, RivalKeepsMarker
  <2>3. NoContainer \in Containers /\ NoContainer.id = 0
    BY WatchAssumption DEF NoContainer, Containers, Ids
  <2>4. WatchTypes'
    BY <2>1, <2>2, <2>3 DEF WatchInv, WatchTypes, WatchRecord
  <2>5. \A m \in ProjectNames : daemon'[m] = daemon[m] \/ daemon'[m] = NoContainer
    BY <2>1 DEF WatchInv, WatchTypes
  <2>6. OwnersKnown'
    BY <2>2, <2>3, <2>5 DEF WatchInv, OwnersKnown
  <2>7. OneSampled'
    BY <2>2 DEF WatchInv, OneSampled
  <2> QED  BY <2>2, <2>4, <2>6, <2>7 DEF WatchInv
<1>11. CASE ContainerCreated
  <2>1. PICK n \in ProjectNames, mine \in BOOLEAN :
          /\ daemon' = [daemon EXCEPT ![n] = [id |-> watch.next, ours |-> mine]]
          /\ made' = [made EXCEPT ![watch.next] = mine]
    BY <1>11 DEF ContainerCreated
  <2>2. watch.next <= MaxContainers /\ watch' = [watch EXCEPT !.next = @ + 1] /\ MarkerKnown'
    BY <1>0, <1>11 DEF ContainerCreated, MarkerKnown, RivalKeepsMarker
  <2> DEFINE new == [id |-> watch.next, ours |-> mine]
  <2>3. watch.next \in 1..MaxContainers /\ watch.next \in Ids /\ watch.next \in Nat
    BY <2>2, WatchAssumption DEF WatchInv, WatchTypes, Ids
  <2>4. new \in Containers /\ new.id = watch.next /\ new.ours = mine
    BY <2>1, <2>3 DEF Containers
  <2>5. /\ WatchRecord(watch') /\ watch'.ids = watch.ids /\ watch'.next = watch.next + 1
        /\ watch'.seen = watch.seen /\ watch'.samples = watch.samples
    BY <1>0, <2>2 DEF WatchRecord, WatchFields
  <2> HIDE DEF new
  <2>6. daemon' = [daemon EXCEPT ![n] = new]
    BY <2>1 DEF new
  <2>7. /\ daemon' \in [ProjectNames -> Containers] /\ made' \in [1..MaxContainers -> BOOLEAN]
    BY <2>1, <2>3, <2>4, <2>6 DEF WatchInv, WatchTypes
  <2>8. \A m \in ProjectNames : daemon'[m] = IF m = n THEN new ELSE daemon[m]
    BY <2>6 DEF WatchInv, WatchTypes
  <2>9. \A i \in 1..MaxContainers : made'[i] = IF i = watch.next THEN mine ELSE made[i]
    BY <2>1 DEF WatchInv, WatchTypes
  <2>10. WatchTypes'
    BY <2>3, <2>5, <2>7 DEF WatchInv, WatchTypes
  <2>11. ASSUME NEW m \in ProjectNames, daemon'[m].id # 0
         PROVE  daemon'[m].id < watch'.next /\ made'[daemon'[m].id] = daemon'[m].ours
    <3>1. CASE m = n
      BY <2>3, <2>4, <2>5, <2>8, <2>9, <3>1
    <3>2. CASE m # n
      <4>1. daemon'[m] = daemon[m] /\ daemon[m].id \in Ids
        BY <2>8, <3>2 DEF WatchInv, WatchTypes, Containers
      <4>2. daemon[m].id < watch.next /\ made[daemon[m].id] = daemon[m].ours
        BY <2>11, <4>1 DEF WatchInv, OwnersKnown
      <4>3. daemon[m].id \in 1..MaxContainers /\ daemon[m].id # watch.next
        BY <2>3, <2>11, <4>1, <4>2, WatchAssumption DEF Ids
      <4> QED  BY <2>3, <2>5, <2>9, <4>1, <4>2, <4>3, WatchAssumption DEF Ids
    <3> QED  BY <3>1, <3>2
  <2>12. watch'.ids # 0 => watch'.ids < watch'.next /\ made'[watch'.ids]
    <3> SUFFICES ASSUME watch.ids # 0 PROVE watch.ids < watch.next + 1 /\ made'[watch.ids]
      BY <2>5
    <3>1. watch.ids < watch.next /\ made[watch.ids] /\ watch.ids \in 1..MaxContainers
      BY WatchAssumption DEF WatchInv, WatchTypes, OwnersKnown, Ids
    <3> QED  BY <2>3, <2>9, <3>1
  <2>13. OneSampled'
    BY <2>5 DEF WatchInv, OneSampled
  <2> QED  BY <2>2, <2>10, <2>11, <2>12, <2>13 DEF WatchInv, OwnersKnown
<1> QED
  BY <1>1, <1>3, <1>4, <1>5, <1>6, <1>8, <1>9, <1>10, <1>11 DEF WatchStep

LEMMA WatchSound == WatchInv => SampledOneOwnContainer /\ RivalKeepsMarker
<1> SUFFICES ASSUME WatchInv PROVE SampledOneOwnContainer /\ RivalKeepsMarker
  OBVIOUS
<1>1. watch.samples = {} \/ watch.samples = {watch.ids}
  BY DEF WatchInv, OneSampled
<1>2. Cardinality(watch.samples) <= 1
  <2>1. Cardinality({}) = 0 /\ Cardinality({watch.ids}) = 1
    BY FS_EmptySet, FS_Singleton
  <2> QED  BY <1>1, <2>1
<1>3. \A i \in watch.samples : made[i]
  BY DEF WatchInv, OneSampled, OwnersKnown
<1> QED  BY <1>2, <1>3 DEF WatchInv, MarkerKnown, SampledOneOwnContainer

-----------------------------------------------------------------------------
(* The normal restore: the controls can be restored once only, so a receipt of the restoration
   and the original configuration together mean that both databases were restored. *)
EvidenceFields == {"receipts", "fault"}
PhaseFields == {"name", "pc", "opened"}
NormalTypes ==
  /\ DOMAIN fixture = Parts /\ fixture = [p \in Parts |-> fixture[p]]
  /\ DOMAIN evidence = EvidenceFields /\ evidence = [f \in EvidenceFields |-> evidence[f]]
  /\ DOMAIN phase = PhaseFields /\ phase = [f \in PhaseFields |-> phase[f]]
RestoringData ==
  InPhase("restore-data", "volumes") \/ InPhase("restore-data", "nc_db")
    \/ InPhase("restore-data", "wk_db") \/ InPhase("restore-data", "receipt")
RestoredOnce ==
  /\ Has("restored") \/ RestoringData => fixture.control # "recorded" /\ evidence.fault # "none"
  /\ RestoringData => ~Has("restored")
  /\ InPhase("restore-data", "wk_db") => fixture.nc_db = "checkpoint"
  /\ InPhase("restore-data", "receipt") => fixture.nc_db = "checkpoint" /\ fixture.wk_db = "checkpoint"
  /\ Has("restored") /\ fixture.nc_html = "checkpoint" => fixture.nc_db # "fault" /\ fixture.wk_db # "fault"
  /\ Faulting /\ phase.pc = "files" => fixture.nc_html = "fault"
ReopenedAsRestored ==
  /\ InPhase("reopen", "authority") =>
       /\ fixture.control = "checkpoint" /\ fixture.nc_html = "checkpoint"
       /\ ledger = "checkpoint" /\ Has("restored")
  /\ InPhase("reopen", "accept") => fixture = Original /\ ledger = "checkpoint"
NormalInv == NormalTypes /\ RestoredOnce /\ ReopenedAsRestored

(* The fixture as it was made, with no receipt, is where the phases begin. *)
LEMMA NormalBegins == NormalInit => NormalInv
BY DEF NormalInit, NormalInv, NormalTypes, Original, NoPhase, EvidenceFields, PhaseFields, RestoredOnce,
   ReopenedAsRestored, RestoringData, Faulting, InPhase, Has

(* Every step of every phase keeps the invariant. *)
LEMMA NormalGoesOn ==
  ASSUME NormalInv, [NormalStep]_restoreVars
  PROVE  NormalInv'
<1> USE DEF NormalInv
<1>1. ASSUME NEW name \in Phases, Invoke(name) PROVE NormalInv'
  <2>1. NormalTypes'
    BY <1>1 DEF Invoke, NormalTypes, Parts, EvidenceFields, PhaseFields
  <2>2. RestoredOnce' /\ ReopenedAsRestored'
    BY <1>1 DEF Invoke, NormalTypes, Parts, EvidenceFields, PhaseFields, RestoredOnce, ReopenedAsRestored, RestoringData, Faulting, InPhase, Has
  <2> QED  BY <2>1, <2>2
<1>2. CASE CheckBaseline
  <2>1. NormalTypes'
    BY <1>2 DEF CheckBaseline, PhaseGoto, NormalTypes, Parts, EvidenceFields, PhaseFields
  <2>2. RestoredOnce' /\ ReopenedAsRestored'
    BY <1>2 DEF CheckBaseline, Has, InPhase, PhaseGoto, SourceAuthorized, PublicationCurrent, NormalTypes, Parts, EvidenceFields, PhaseFields, RestoredOnce, ReopenedAsRestored, RestoringData, Faulting
  <2> QED  BY <2>1, <2>2
<1>3. CASE CaptureFull
  <2>1. NormalTypes'
    BY <1>3 DEF CaptureFull, PhaseGoto, WriteReceipt, NormalTypes, Parts, EvidenceFields, PhaseFields
  <2>2. RestoredOnce' /\ ReopenedAsRestored'
    BY <1>3 DEF CaptureFull, InPhase, PhaseGoto, AllStopped, WriteReceipt, Has, ControlsChecked, NormalTypes, Parts, EvidenceFields, PhaseFields, RestoredOnce, ReopenedAsRestored, RestoringData, Faulting
  <2> QED  BY <2>1, <2>2
<1>4. CASE PinCheckpoint
  <2>1. NormalTypes'
    BY <1>4 DEF PinCheckpoint, PhaseEnds, PhaseGoto, WriteReceipt, NormalTypes, Parts, EvidenceFields, PhaseFields
  <2>2. RestoredOnce' /\ ReopenedAsRestored'
    BY <1>4 DEF PinCheckpoint, InPhase, PhaseEnds, PhaseGoto, WriteReceipt, Has, NormalTypes, Parts, EvidenceFields, PhaseFields, RestoredOnce, ReopenedAsRestored, RestoringData, Faulting
  <2> QED  BY <2>1, <2>2
<1>5. CASE StopActors
  <2>1. NormalTypes'
    BY <1>5 DEF StopActors, PhaseGoto, NormalTypes, Parts, EvidenceFields, PhaseFields
  <2>2. RestoredOnce' /\ ReopenedAsRestored'
    BY <1>5 DEF StopActors, PhaseGoto, NormalTypes, Parts, EvidenceFields, PhaseFields, RestoredOnce, ReopenedAsRestored, RestoringData, Faulting, InPhase, Has
  <2> QED  BY <2>1, <2>2
<1>6. CASE ResumeForFault
  <2>1. NormalTypes'
    BY <1>6 DEF ResumeForFault, NormalTypes, Parts, EvidenceFields, PhaseFields
  <2>2. RestoredOnce' /\ ReopenedAsRestored'
    BY <1>6 DEF ResumeForFault, LoadCheckpoint, Has, Faulting, NormalTypes, Parts, EvidenceFields, PhaseFields, RestoredOnce, ReopenedAsRestored, RestoringData, InPhase
  <2> QED  BY <2>1, <2>2
<1>7. CASE FaultConfiguration
  <2>1. NormalTypes'
    BY <1>7 DEF FaultConfiguration, PhaseGoto, NormalTypes, Parts, EvidenceFields, PhaseFields
  <2>2. RestoredOnce' /\ ReopenedAsRestored'
    BY <1>7 DEF FaultConfiguration, PhaseGoto, LoadCheckpoint, Has, ControlsChecked, ConfigurationOriginal, Faulting, NormalTypes, Parts, EvidenceFields, PhaseFields, RestoredOnce, ReopenedAsRestored, RestoringData, InPhase
  <2> QED  BY <2>1, <2>2
<1>8. CASE FaultFiles
  <2>1. NormalTypes'
    BY <1>8 DEF FaultFiles, PhaseGoto, NormalTypes, Parts, EvidenceFields, PhaseFields
  <2>2. RestoredOnce' /\ ReopenedAsRestored'
    BY <1>8 DEF FaultFiles, PhaseGoto, Faulting, NormalTypes, Parts, EvidenceFields, PhaseFields, RestoredOnce, ReopenedAsRestored, RestoringData, InPhase, Has
  <2> QED  BY <2>1, <2>2
<1>9. CASE WithdrawSource
  <2>1. NormalTypes'
    BY <1>9 DEF WithdrawSource, PhaseGoto, NormalTypes, Parts, EvidenceFields, PhaseFields
  <2>2. RestoredOnce' /\ ReopenedAsRestored'
    BY <1>9 DEF WithdrawSource, PhaseGoto, Faulting, NormalTypes, Parts, EvidenceFields, PhaseFields, RestoredOnce, ReopenedAsRestored, RestoringData, InPhase, Has
  <2> QED  BY <2>1, <2>2
<1>10. CASE CollectFault
  <2>1. NormalTypes'
    BY <1>10 DEF CollectFault, PhaseGoto, NormalTypes, Parts, EvidenceFields, PhaseFields
  <2>2. RestoredOnce' /\ ReopenedAsRestored'
    BY <1>10 DEF CollectFault, PhaseGoto, SourceAuthorized, PublicationCurrent, Faulting, NormalTypes, Parts, EvidenceFields, PhaseFields, RestoredOnce, ReopenedAsRestored, RestoringData, InPhase, Has
  <2> QED  BY <2>1, <2>2
<1>11. CASE FaultControl
  <2>1. NormalTypes'
    BY <1>11 DEF FaultControl, PhaseGoto, NormalTypes, Parts, EvidenceFields, PhaseFields
  <2>2. RestoredOnce' /\ ReopenedAsRestored'
    BY <1>11 DEF FaultControl, PhaseGoto, ControlsChecked, Faulting, NormalTypes, Parts, EvidenceFields, PhaseFields, RestoredOnce, ReopenedAsRestored, RestoringData, InPhase, Has
  <2> QED  BY <2>1, <2>2
<1>12. CASE RecordFault
  <2>1. NormalTypes'
    BY <1>12 DEF RecordFault, PhaseEnds, PhaseGoto, NormalTypes, Parts, EvidenceFields, PhaseFields
  <2>2. RestoredOnce' /\ ReopenedAsRestored'
    BY <1>12 DEF RecordFault, PhaseEnds, PhaseGoto, Faulting, NormalTypes, Parts, EvidenceFields, PhaseFields, RestoredOnce, ReopenedAsRestored, RestoringData, InPhase, Has
  <2> QED  BY <2>1, <2>2
<1>13. CASE RestoreControls
  <2>1. NormalTypes'
    BY <1>13 DEF RestoreControls, PhaseGoto, NormalTypes, Parts, EvidenceFields, PhaseFields
  <2>2. RestoredOnce' /\ ReopenedAsRestored'
    BY <1>13 DEF RestoreControls, InPhase, PhaseGoto, ControlsChecked, RestoreGuard, AllStopped, LoadCheckpoint, Has, ConfigurationFaulted, NormalTypes, Parts, EvidenceFields, PhaseFields, RestoredOnce, ReopenedAsRestored, RestoringData, Faulting
  <2> QED  BY <2>1, <2>2
<1>14. CASE RestoreVolumesOf
  <2>1. NormalTypes'
    BY <1>14 DEF RestoreVolumesOf, PhaseGoto, NormalTypes, Parts, EvidenceFields, PhaseFields
  <2>2. RestoredOnce' /\ ReopenedAsRestored'
    BY <1>14 DEF RestoreVolumesOf, InPhase, PhaseGoto, NormalTypes, Parts, EvidenceFields, PhaseFields, RestoredOnce, ReopenedAsRestored, RestoringData, Faulting, Has
  <2> QED  BY <2>1, <2>2
<1>15. CASE RecordRestore
  <2>1. NormalTypes'
    BY <1>15 DEF RecordRestore, PhaseEnds, PhaseGoto, WriteReceipt, NormalTypes, Parts, EvidenceFields, PhaseFields
  <2>2. RestoredOnce' /\ ReopenedAsRestored'
    BY <1>15 DEF RecordRestore, InPhase, PhaseEnds, PhaseGoto, WriteReceipt, Has, ConfigurationOriginal, NormalTypes, Parts, EvidenceFields, PhaseFields, RestoredOnce, ReopenedAsRestored, RestoringData, Faulting
  <2> QED  BY <2>1, <2>2
<1>16. ASSUME NEW db \in {"nc_db", "wk_db"}, RestoreDatabase(db) PROVE NormalInv'
  <2>1. NormalTypes'
    BY <1>16 DEF RestoreDatabase, PhaseGoto, NormalTypes, Parts, EvidenceFields, PhaseFields
  <2>2. RestoredOnce' /\ ReopenedAsRestored'
    BY <1>16 DEF RestoreDatabase, InPhase, PhaseGoto, NormalTypes, Parts, EvidenceFields, PhaseFields, RestoredOnce, ReopenedAsRestored, RestoringData, Faulting, Has
  <2> QED  BY <2>1, <2>2
<1>17. ASSUME NEW db \in {"nc_db", "wk_db"}, ReplayStale(db) PROVE NormalInv'
  <2>1. NormalTypes'
    BY <1>17 DEF ReplayStale, PhaseGoto, NormalTypes, Parts, EvidenceFields, PhaseFields
  <2>2. RestoredOnce' /\ ReopenedAsRestored'
    BY <1>17 DEF ReplayStale, Has, InPhase, PhaseGoto, AllStopped, LoadCheckpoint, ConfigurationRestored, ControlsChecked, ConfigurationOriginal, NormalTypes, Parts, EvidenceFields, PhaseFields, RestoredOnce, ReopenedAsRestored, RestoringData, Faulting
  <2> QED  BY <2>1, <2>2
<1>18. CASE VerifyCleanClosed
  <2>1. NormalTypes'
    BY <1>18 DEF VerifyCleanClosed, PhaseEnds, PhaseGoto, WriteReceipt, NormalTypes, Parts, EvidenceFields, PhaseFields
  <2>2. RestoredOnce' /\ ReopenedAsRestored'
    BY <1>18 DEF VerifyCleanClosed, InPhase, PhaseEnds, PhaseGoto, WriteReceipt, Has, CleanGates, AllStopped, LoadCheckpoint, IdentityKept, PinnedPublication, ConfigurationRestored, ControlsChecked, ConfigurationOriginal, NormalTypes, Parts, EvidenceFields, PhaseFields, RestoredOnce, ReopenedAsRestored, RestoringData, Faulting
  <2> QED  BY <2>1, <2>2
<1>19. CASE ReopenNextcloud
  <2>1. NormalTypes'
    BY <1>19 DEF ReopenNextcloud, NormalTypes, Parts, EvidenceFields, PhaseFields
  <2>2. RestoredOnce' /\ ReopenedAsRestored'
    BY <1>19 DEF ReopenNextcloud, Has, InPhase, CleanGates, AllStopped, LoadCheckpoint, IdentityKept, PinnedPublication, ConfigurationRestored, ControlsChecked, ConfigurationOriginal, NormalTypes, Parts, EvidenceFields, PhaseFields, RestoredOnce, ReopenedAsRestored, RestoringData, Faulting
  <2> QED  BY <2>1, <2>2
<1>20. CASE ReopenWeKnora
  <2>1. NormalTypes'
    BY <1>20 DEF ReopenWeKnora, PhaseGoto, NormalTypes, Parts, EvidenceFields, PhaseFields
  <2>2. RestoredOnce' /\ ReopenedAsRestored'
    BY <1>20 DEF ReopenWeKnora, InPhase, PhaseGoto, IdentityKept, SourceAuthorized, NormalTypes, Parts, EvidenceFields, PhaseFields, RestoredOnce, ReopenedAsRestored, RestoringData, Faulting, Has, Original, Actors
  <2> QED  BY <2>1, <2>2
<1>21. CASE AcceptRestored
  <2>1. NormalTypes'
    BY <1>21 DEF AcceptRestored, PhaseEnds, PhaseGoto, WriteReceipt, NormalTypes, Parts, EvidenceFields, PhaseFields
  <2>2. RestoredOnce' /\ ReopenedAsRestored'
    BY <1>21 DEF AcceptRestored, InPhase, PhaseEnds, PhaseGoto, WriteReceipt, Has, NormalTypes, Parts, EvidenceFields, PhaseFields, RestoredOnce, ReopenedAsRestored, RestoringData, Faulting
  <2> QED  BY <2>1, <2>2
<1>22. CASE RevokeShare
  <2>1. NormalTypes'
    BY <1>22 DEF RevokeShare, PhaseGoto, NormalTypes, Parts, EvidenceFields, PhaseFields
  <2>2. RestoredOnce' /\ ReopenedAsRestored'
    BY <1>22 DEF RevokeShare, Has, InPhase, PhaseGoto, LoadCheckpoint, NormalTypes, Parts, EvidenceFields, PhaseFields, RestoredOnce, ReopenedAsRestored, RestoringData, Faulting
  <2> QED  BY <2>1, <2>2
<1>23. CASE AcceptDenial
  <2>1. NormalTypes'
    BY <1>23 DEF AcceptDenial, PhaseEnds, PhaseGoto, WriteReceipt, NormalTypes, Parts, EvidenceFields, PhaseFields
  <2>2. RestoredOnce' /\ ReopenedAsRestored'
    BY <1>23 DEF AcceptDenial, InPhase, PhaseEnds, PhaseGoto, WriteReceipt, Has, NormalTypes, Parts, EvidenceFields, PhaseFields, RestoredOnce, ReopenedAsRestored, RestoringData, Faulting
  <2> QED  BY <2>1, <2>2
<1>24. CASE PinStalePlan
  <2>1. NormalTypes'
    BY <1>24 DEF PinStalePlan, PhaseEnds, PhaseGoto, WriteReceipt, NormalTypes, Parts, EvidenceFields, PhaseFields
  <2>2. RestoredOnce' /\ ReopenedAsRestored'
    BY <1>24 DEF PinStalePlan, InPhase, PhaseEnds, PhaseGoto, AllStopped, WriteReceipt, Has, LoadCheckpoint, NormalTypes, Parts, EvidenceFields, PhaseFields, RestoredOnce, ReopenedAsRestored, RestoringData, Faulting
  <2> QED  BY <2>1, <2>2
<1>25. CASE RecordStaleGate
  <2>1. NormalTypes'
    BY <1>25 DEF RecordStaleGate, PhaseEnds, PhaseGoto, WriteReceipt, NormalTypes, Parts, EvidenceFields, PhaseFields
  <2>2. RestoredOnce' /\ ReopenedAsRestored'
    BY <1>25 DEF RecordStaleGate, InPhase, PhaseEnds, PhaseGoto, WriteReceipt, Has, NormalTypes, Parts, EvidenceFields, PhaseFields, RestoredOnce, ReopenedAsRestored, RestoringData, Faulting
  <2> QED  BY <2>1, <2>2
<1>26. CASE CleanupFixture
  <2>1. NormalTypes'
    BY <1>26 DEF CleanupFixture, NormalTypes, Parts, EvidenceFields, PhaseFields
  <2>2. RestoredOnce' /\ ReopenedAsRestored'
    BY <1>26 DEF CleanupFixture, Has, InPhase, NormalTypes, Parts, EvidenceFields, PhaseFields, RestoredOnce, ReopenedAsRestored, RestoringData, Faulting
  <2> QED  BY <2>1, <2>2
<1>27. CASE PhaseFails
  <2>1. NormalTypes'
    BY <1>27 DEF PhaseFails, PhaseEnds, PhaseGoto, NormalTypes, Parts, EvidenceFields, PhaseFields
  <2>2. RestoredOnce' /\ ReopenedAsRestored'
    BY <1>27 DEF PhaseFails, PhaseEnds, PhaseGoto, PhaseRunning, NormalTypes, Parts, EvidenceFields, PhaseFields, RestoredOnce, ReopenedAsRestored, RestoringData, Faulting, InPhase, Has
  <2> QED  BY <2>1, <2>2
<1>28. CASE PhaseKilled
  <2>1. NormalTypes'
    BY <1>28 DEF PhaseKilled, PhaseEnds, PhaseGoto, NormalTypes, Parts, EvidenceFields, PhaseFields
  <2>2. RestoredOnce' /\ ReopenedAsRestored'
    BY <1>28 DEF PhaseKilled, PhaseEnds, PhaseGoto, PhaseRunning, NormalTypes, Parts, EvidenceFields, PhaseFields, RestoredOnce, ReopenedAsRestored, RestoringData, Faulting, InPhase, Has
  <2> QED  BY <2>1, <2>2
<1>29. CASE UNCHANGED restoreVars
  BY <1>29 DEF restoreVars, NormalTypes, Parts, EvidenceFields, PhaseFields, RestoredOnce, ReopenedAsRestored, RestoringData, Faulting, InPhase, Has
<1> QED  BY <1>1, <1>2, <1>3, <1>4, <1>5, <1>6, <1>7, <1>8, <1>9, <1>10, <1>11, <1>12, <1>13, <1>14, <1>15, <1>16, <1>17, <1>18, <1>19, <1>20, <1>21, <1>22, <1>23, <1>24, <1>25, <1>26, <1>27, <1>28, <1>29 DEF NormalStep

(* What the invariant says of the applications that are reopened *)
LEMMA NormalSound == NormalInv => AcceptedAsRestored
BY DEF NormalInv, ReopenedAsRestored, AcceptedAsRestored

-----------------------------------------------------------------------------
(* The failed upgrade: users are shut out from before the new code until the volumes are the
   checkpoint again, and a running application writes to both volumes or to none. *)
UpgradeFields == {"pc", "role", "passed"}
ColdFields == {"archive", "digest", "taken"}
UpgradeTypes ==
  /\ DOMAIN volumes = Roles /\ volumes = [r \in Roles |-> volumes[r]]
  /\ DOMAIN cold = ColdFields /\ cold = [f \in ColdFields |-> cold[f]]
  /\ \A f \in ColdFields : DOMAIN cold[f] = Roles /\ cold[f] = [r \in Roles |-> cold[f][r]]
  /\ DOMAIN upgrade = UpgradeFields /\ upgrade = [f \in UpgradeFields |-> upgrade[f]]
  /\ upgrade.role \in Roles /\ upgrade.passed \in BOOLEAN
Untouched == {"idle", "stop", "cold", "archive", "maintain"}
ShutOut == {"replace", "upgrade", "halfway", "mutate"}
Refilling == {"clear", "fill", "reopen"}
HalvesAgree == ("both" \in volumes.db) = ("both" \in volumes.html)
TakenTogether == ("both" \in cold.taken.db) = ("both" \in cold.taken.html)
BeforeUpgrade ==
  /\ upgrade.pc \in Untouched => drillApp = "old" /\ "new-tables" \notin volumes.db
  /\ upgrade.pc \in {"stop", "cold", "archive"} => HalvesAgree
  /\ upgrade.pc \in {"idle", "stop", "cold"} => upgrade.role = "db"
  /\ UpgradeAt("archive") => services = {}
  /\ UpgradeAt("archive") /\ upgrade.role = "html" => cold.taken.db = volumes.db /\ cold.digest.db = volumes.db
  /\ upgrade.pc \in ShutOut => "maintenance" \in volumes.html
Reopened == UpgradeAt("verify") \/ (upgrade.passed /\ UpgradeAt("remove"))
CheckpointKept ==
  upgrade.pc \in {"maintain", "discard", "recreate"} \cup ShutOut \cup Refilling \/ Reopened =>
    cold.digest = cold.taken /\ TakenTogether /\ "new-tables" \notin cold.taken.db
AfterDiscard ==
  /\ upgrade.pc \in {"recreate"} \cup Refilling => services = {}
  /\ upgrade.pc \in Refilling => drillApp = "old"
  /\ upgrade.pc \in {"clear", "fill"} /\ upgrade.role = "html" => volumes.db = cold.taken.db
  /\ UpgradeAt("fill") => volumes[upgrade.role] = {} /\ cold.archive[upgrade.role] = cold.taken[upgrade.role]
  /\ UpgradeAt("reopen") => volumes.db = cold.taken.db /\ volumes.html = cold.taken.html
  /\ Reopened =>
       \E later \in {{}, {"both"}} : volumes = [r \in Roles |-> cold.taken[r] \cup later]
  /\ upgrade.passed => upgrade.pc \in {"remove", "ended"}
UpgradeInv ==
  UpgradeTypes /\ BeforeUpgrade /\ CheckpointKept /\ AfterDiscard /\ NeverServesHalfMigrated

(* No project and no volume is where the drill begins. *)
LEMMA UpgradeBegins == UpgradeInit => UpgradeInv
BY DEF UpgradeInit, UpgradeInv, UpgradeTypes, NoVolumes, NoArchive, Roles, ColdFields, UpgradeFields,
   BeforeUpgrade, CheckpointKept, AfterDiscard, NeverServesHalfMigrated, ServingUsers, UpgradeAt, Reopened,
   Untouched, ShutOut, Refilling

(* Every step of the drill, a failure, a damaged archive and a foreign resource keep the invariant. *)
LEMMA UpgradeGoesOn ==
  ASSUME UpgradeInv, [UpgradeStep]_upgradeVars
  PROVE  UpgradeInv'
<1> USE DEF UpgradeInv
<1>1. CASE InstallBaseline
  <2>1. UpgradeTypes'
    BY <1>1 DEF InstallBaseline, UpgradeAt, UpgradeGoto, StackServices, Baseline, ProjectFree, UpgradeTypes, Roles, ColdFields, UpgradeFields
  <2>2. BeforeUpgrade'
    BY <1>1 DEF InstallBaseline, UpgradeAt, UpgradeGoto, StackServices, Baseline, ProjectFree, UpgradeTypes, Roles, ColdFields, UpgradeFields, BeforeUpgrade, HalvesAgree, Reopened, Untouched, ShutOut, Refilling
  <2>3. CheckpointKept'
    BY <1>1 DEF InstallBaseline, UpgradeAt, UpgradeGoto, StackServices, Baseline, ProjectFree, UpgradeTypes, Roles, ColdFields, UpgradeFields, CheckpointKept, TakenTogether, BeforeUpgrade, HalvesAgree, Reopened, Untouched, ShutOut, Refilling
  <2>4. AfterDiscard'
    BY <1>1 DEF InstallBaseline, UpgradeAt, UpgradeGoto, StackServices, Baseline, ProjectFree, UpgradeTypes, Roles, ColdFields, UpgradeFields, AfterDiscard, CheckpointKept, Reopened, Untouched, ShutOut, Refilling
  <2>5. NeverServesHalfMigrated'
    BY <1>1 DEF InstallBaseline, UpgradeAt, UpgradeGoto, StackServices, Baseline, ProjectFree, NeverServesHalfMigrated, ServingUsers, BeforeUpgrade, AfterDiscard, CheckpointKept, Reopened, Untouched, ShutOut, Refilling, UpgradeTypes, Roles, ColdFields, UpgradeFields
  <2> QED  BY <2>1, <2>2, <2>3, <2>4, <2>5
<1>2. CASE StopForCheckpoint
  <2>1. UpgradeTypes'
    BY <1>2 DEF StopForCheckpoint, UpgradeAt, UpgradeGoto, ProjectWhole, ProjectOwned, UpgradeTypes, Roles, ColdFields, UpgradeFields
  <2>2. BeforeUpgrade'
    BY <1>2 DEF StopForCheckpoint, UpgradeAt, UpgradeGoto, ProjectWhole, ProjectOwned, UpgradeTypes, Roles, ColdFields, UpgradeFields, BeforeUpgrade, HalvesAgree, Reopened, Untouched, ShutOut, Refilling
  <2>3. CheckpointKept'
    BY <1>2 DEF StopForCheckpoint, UpgradeAt, UpgradeGoto, ProjectWhole, ProjectOwned, UpgradeTypes, Roles, ColdFields, UpgradeFields, CheckpointKept, TakenTogether, BeforeUpgrade, HalvesAgree, Reopened, Untouched, ShutOut, Refilling
  <2>4. AfterDiscard'
    BY <1>2 DEF StopForCheckpoint, UpgradeAt, UpgradeGoto, ProjectWhole, ProjectOwned, UpgradeTypes, Roles, ColdFields, UpgradeFields, AfterDiscard, CheckpointKept, Reopened, Untouched, ShutOut, Refilling
  <2>5. NeverServesHalfMigrated'
    BY <1>2 DEF StopForCheckpoint, UpgradeAt, UpgradeGoto, ProjectWhole, ProjectOwned, NeverServesHalfMigrated, ServingUsers, BeforeUpgrade, AfterDiscard, CheckpointKept, Reopened, Untouched, ShutOut, Refilling, UpgradeTypes, Roles, ColdFields, UpgradeFields
  <2> QED  BY <2>1, <2>2, <2>3, <2>4, <2>5
<1>3. CASE CheckCold
  <2>1. UpgradeTypes'
    BY <1>3 DEF CheckCold, UpgradeAt, UpgradeGoto, UpgradeTypes, Roles, ColdFields, UpgradeFields
  <2>2. BeforeUpgrade'
    BY <1>3 DEF CheckCold, UpgradeAt, UpgradeGoto, UpgradeTypes, Roles, ColdFields, UpgradeFields, BeforeUpgrade, HalvesAgree, Reopened, Untouched, ShutOut, Refilling
  <2>3. CheckpointKept'
    BY <1>3 DEF CheckCold, UpgradeAt, UpgradeGoto, UpgradeTypes, Roles, ColdFields, UpgradeFields, CheckpointKept, TakenTogether, BeforeUpgrade, HalvesAgree, Reopened, Untouched, ShutOut, Refilling
  <2>4. AfterDiscard'
    BY <1>3 DEF CheckCold, UpgradeAt, UpgradeGoto, UpgradeTypes, Roles, ColdFields, UpgradeFields, AfterDiscard, CheckpointKept, Reopened, Untouched, ShutOut, Refilling
  <2>5. NeverServesHalfMigrated'
    BY <1>3 DEF CheckCold, UpgradeAt, UpgradeGoto, NeverServesHalfMigrated, ServingUsers, BeforeUpgrade, AfterDiscard, CheckpointKept, Reopened, Untouched, ShutOut, Refilling, UpgradeTypes, Roles, ColdFields, UpgradeFields
  <2> QED  BY <2>1, <2>2, <2>3, <2>4, <2>5
<1>4. CASE ArchiveVolume
  <2>1. UpgradeTypes'
    BY <1>4 DEF ArchiveVolume, UpgradeAt, OtherRole, UpgradeTypes, Roles, ColdFields, UpgradeFields
  <2>2. BeforeUpgrade'
    BY <1>4 DEF ArchiveVolume, UpgradeAt, OtherRole, UpgradeTypes, Roles, ColdFields, UpgradeFields, BeforeUpgrade, HalvesAgree, Reopened, Untouched, ShutOut, Refilling
  <2>3. CheckpointKept'
    BY <1>4 DEF ArchiveVolume, UpgradeAt, OtherRole, UpgradeTypes, Roles, ColdFields, UpgradeFields, CheckpointKept, TakenTogether, BeforeUpgrade, HalvesAgree, Reopened, Untouched, ShutOut, Refilling
  <2>4. AfterDiscard'
    BY <1>4 DEF ArchiveVolume, UpgradeAt, OtherRole, UpgradeTypes, Roles, ColdFields, UpgradeFields, AfterDiscard, CheckpointKept, Reopened, Untouched, ShutOut, Refilling
  <2>5. NeverServesHalfMigrated'
    BY <1>4 DEF ArchiveVolume, UpgradeAt, OtherRole, NeverServesHalfMigrated, ServingUsers, BeforeUpgrade, AfterDiscard, CheckpointKept, Reopened, Untouched, ShutOut, Refilling, UpgradeTypes, Roles, ColdFields, UpgradeFields
  <2> QED  BY <2>1, <2>2, <2>3, <2>4, <2>5
<1>5. CASE CloseForUpgrade
  <2>1. UpgradeTypes'
    BY <1>5 DEF CloseForUpgrade, UpgradeAt, UpgradeGoto, StackServices, UpgradeTypes, Roles, ColdFields, UpgradeFields
  <2>2. BeforeUpgrade'
    BY <1>5 DEF CloseForUpgrade, UpgradeAt, UpgradeGoto, StackServices, UpgradeTypes, Roles, ColdFields, UpgradeFields, BeforeUpgrade, HalvesAgree, Reopened, Untouched, ShutOut, Refilling
  <2>3. CheckpointKept'
    BY <1>5 DEF CloseForUpgrade, UpgradeAt, UpgradeGoto, StackServices, UpgradeTypes, Roles, ColdFields, UpgradeFields, CheckpointKept, TakenTogether, BeforeUpgrade, HalvesAgree, Reopened, Untouched, ShutOut, Refilling
  <2>4. AfterDiscard'
    BY <1>5 DEF CloseForUpgrade, UpgradeAt, UpgradeGoto, StackServices, UpgradeTypes, Roles, ColdFields, UpgradeFields, AfterDiscard, CheckpointKept, Reopened, Untouched, ShutOut, Refilling
  <2>5. NeverServesHalfMigrated'
    BY <1>5 DEF CloseForUpgrade, UpgradeAt, UpgradeGoto, StackServices, NeverServesHalfMigrated, ServingUsers, BeforeUpgrade, AfterDiscard, CheckpointKept, Reopened, Untouched, ShutOut, Refilling, UpgradeTypes, Roles, ColdFields, UpgradeFields
  <2> QED  BY <2>1, <2>2, <2>3, <2>4, <2>5
<1>6. CASE ReplaceApp
  <2>1. UpgradeTypes'
    BY <1>6 DEF ReplaceApp, UpgradeAt, UpgradeGoto, UpgradeTypes, Roles, ColdFields, UpgradeFields
  <2>2. BeforeUpgrade'
    BY <1>6 DEF ReplaceApp, UpgradeAt, UpgradeGoto, UpgradeTypes, Roles, ColdFields, UpgradeFields, BeforeUpgrade, HalvesAgree, Reopened, Untouched, ShutOut, Refilling
  <2>3. CheckpointKept'
    BY <1>6 DEF ReplaceApp, UpgradeAt, UpgradeGoto, UpgradeTypes, Roles, ColdFields, UpgradeFields, CheckpointKept, TakenTogether, BeforeUpgrade, HalvesAgree, Reopened, Untouched, ShutOut, Refilling
  <2>4. AfterDiscard'
    BY <1>6 DEF ReplaceApp, UpgradeAt, UpgradeGoto, UpgradeTypes, Roles, ColdFields, UpgradeFields, AfterDiscard, CheckpointKept, Reopened, Untouched, ShutOut, Refilling
  <2>5. NeverServesHalfMigrated'
    BY <1>6 DEF ReplaceApp, UpgradeAt, UpgradeGoto, NeverServesHalfMigrated, ServingUsers, BeforeUpgrade, AfterDiscard, CheckpointKept, Reopened, Untouched, ShutOut, Refilling, UpgradeTypes, Roles, ColdFields, UpgradeFields
  <2> QED  BY <2>1, <2>2, <2>3, <2>4, <2>5
<1>7. CASE UpgradeStopsHalfway
  <2>1. UpgradeTypes'
    BY <1>7 DEF UpgradeStopsHalfway, UpgradeAt, UpgradeGoto, UpgradeTypes, Roles, ColdFields, UpgradeFields
  <2>2. BeforeUpgrade'
    BY <1>7 DEF UpgradeStopsHalfway, UpgradeAt, UpgradeGoto, UpgradeTypes, Roles, ColdFields, UpgradeFields, BeforeUpgrade, HalvesAgree, Reopened, Untouched, ShutOut, Refilling
  <2>3. CheckpointKept'
    BY <1>7 DEF UpgradeStopsHalfway, UpgradeAt, UpgradeGoto, UpgradeTypes, Roles, ColdFields, UpgradeFields, CheckpointKept, TakenTogether, BeforeUpgrade, HalvesAgree, Reopened, Untouched, ShutOut, Refilling
  <2>4. AfterDiscard'
    BY <1>7 DEF UpgradeStopsHalfway, UpgradeAt, UpgradeGoto, UpgradeTypes, Roles, ColdFields, UpgradeFields, AfterDiscard, CheckpointKept, Reopened, Untouched, ShutOut, Refilling
  <2>5. NeverServesHalfMigrated'
    BY <1>7 DEF UpgradeStopsHalfway, UpgradeAt, UpgradeGoto, NeverServesHalfMigrated, ServingUsers, BeforeUpgrade, AfterDiscard, CheckpointKept, Reopened, Untouched, ShutOut, Refilling, UpgradeTypes, Roles, ColdFields, UpgradeFields
  <2> QED  BY <2>1, <2>2, <2>3, <2>4, <2>5
<1>8. CASE CheckHalfway
  <2>1. UpgradeTypes'
    BY <1>8 DEF CheckHalfway, UpgradeAt, UpgradeGoto, UpgradeTypes, Roles, ColdFields, UpgradeFields
  <2>2. BeforeUpgrade'
    BY <1>8 DEF CheckHalfway, UpgradeAt, UpgradeGoto, UpgradeTypes, Roles, ColdFields, UpgradeFields, BeforeUpgrade, HalvesAgree, Reopened, Untouched, ShutOut, Refilling
  <2>3. CheckpointKept'
    BY <1>8 DEF CheckHalfway, UpgradeAt, UpgradeGoto, UpgradeTypes, Roles, ColdFields, UpgradeFields, CheckpointKept, TakenTogether, BeforeUpgrade, HalvesAgree, Reopened, Untouched, ShutOut, Refilling
  <2>4. AfterDiscard'
    BY <1>8 DEF CheckHalfway, UpgradeAt, UpgradeGoto, UpgradeTypes, Roles, ColdFields, UpgradeFields, AfterDiscard, CheckpointKept, Reopened, Untouched, ShutOut, Refilling
  <2>5. NeverServesHalfMigrated'
    BY <1>8 DEF CheckHalfway, UpgradeAt, UpgradeGoto, NeverServesHalfMigrated, ServingUsers, BeforeUpgrade, AfterDiscard, CheckpointKept, Reopened, Untouched, ShutOut, Refilling, UpgradeTypes, Roles, ColdFields, UpgradeFields
  <2> QED  BY <2>1, <2>2, <2>3, <2>4, <2>5
<1>9. CASE MutateAfterCheckpoint
  <2>1. UpgradeTypes'
    BY <1>9 DEF MutateAfterCheckpoint, UpgradeAt, UpgradeGoto, UpgradeTypes, Roles, ColdFields, UpgradeFields
  <2>2. BeforeUpgrade'
    BY <1>9 DEF MutateAfterCheckpoint, UpgradeAt, UpgradeGoto, UpgradeTypes, Roles, ColdFields, UpgradeFields, BeforeUpgrade, HalvesAgree, Reopened, Untouched, ShutOut, Refilling
  <2>3. CheckpointKept'
    BY <1>9 DEF MutateAfterCheckpoint, UpgradeAt, UpgradeGoto, UpgradeTypes, Roles, ColdFields, UpgradeFields, CheckpointKept, TakenTogether, BeforeUpgrade, HalvesAgree, Reopened, Untouched, ShutOut, Refilling
  <2>4. AfterDiscard'
    BY <1>9 DEF MutateAfterCheckpoint, UpgradeAt, UpgradeGoto, UpgradeTypes, Roles, ColdFields, UpgradeFields, AfterDiscard, CheckpointKept, Reopened, Untouched, ShutOut, Refilling
  <2>5. NeverServesHalfMigrated'
    BY <1>9 DEF MutateAfterCheckpoint, UpgradeAt, UpgradeGoto, NeverServesHalfMigrated, ServingUsers, BeforeUpgrade, AfterDiscard, CheckpointKept, Reopened, Untouched, ShutOut, Refilling, UpgradeTypes, Roles, ColdFields, UpgradeFields
  <2> QED  BY <2>1, <2>2, <2>3, <2>4, <2>5
<1>10. CASE DiscardStack
  <2>1. UpgradeTypes'
    BY <1>10 DEF DiscardStack, UpgradeAt, UpgradeGoto, NoVolumes, ProjectWhole, ProjectOwned, UpgradeTypes, Roles, ColdFields, UpgradeFields
  <2>2. BeforeUpgrade'
    BY <1>10 DEF DiscardStack, UpgradeAt, UpgradeGoto, NoVolumes, ProjectWhole, ProjectOwned, UpgradeTypes, Roles, ColdFields, UpgradeFields, BeforeUpgrade, HalvesAgree, Reopened, Untouched, ShutOut, Refilling
  <2>3. CheckpointKept'
    BY <1>10 DEF DiscardStack, UpgradeAt, UpgradeGoto, NoVolumes, ProjectWhole, ProjectOwned, UpgradeTypes, Roles, ColdFields, UpgradeFields, CheckpointKept, TakenTogether, BeforeUpgrade, HalvesAgree, Reopened, Untouched, ShutOut, Refilling
  <2>4. AfterDiscard'
    BY <1>10 DEF DiscardStack, UpgradeAt, UpgradeGoto, NoVolumes, ProjectWhole, ProjectOwned, UpgradeTypes, Roles, ColdFields, UpgradeFields, AfterDiscard, CheckpointKept, Reopened, Untouched, ShutOut, Refilling
  <2>5. NeverServesHalfMigrated'
    BY <1>10 DEF DiscardStack, UpgradeAt, UpgradeGoto, NoVolumes, ProjectWhole, ProjectOwned, NeverServesHalfMigrated, ServingUsers, BeforeUpgrade, AfterDiscard, CheckpointKept, Reopened, Untouched, ShutOut, Refilling, UpgradeTypes, Roles, ColdFields, UpgradeFields
  <2> QED  BY <2>1, <2>2, <2>3, <2>4, <2>5
<1>11. CASE RecreateStack
  <2>1. UpgradeTypes'
    BY <1>11 DEF RecreateStack, UpgradeAt, Stock, UpgradeTypes, Roles, ColdFields, UpgradeFields
  <2>2. BeforeUpgrade'
    BY <1>11 DEF RecreateStack, UpgradeAt, Stock, UpgradeTypes, Roles, ColdFields, UpgradeFields, BeforeUpgrade, HalvesAgree, Reopened, Untouched, ShutOut, Refilling
  <2>3. CheckpointKept'
    BY <1>11 DEF RecreateStack, UpgradeAt, Stock, UpgradeTypes, Roles, ColdFields, UpgradeFields, CheckpointKept, TakenTogether, BeforeUpgrade, HalvesAgree, Reopened, Untouched, ShutOut, Refilling
  <2>4. AfterDiscard'
    BY <1>11 DEF RecreateStack, UpgradeAt, Stock, UpgradeTypes, Roles, ColdFields, UpgradeFields, AfterDiscard, CheckpointKept, Reopened, Untouched, ShutOut, Refilling
  <2>5. NeverServesHalfMigrated'
    BY <1>11 DEF RecreateStack, UpgradeAt, Stock, NeverServesHalfMigrated, ServingUsers, BeforeUpgrade, AfterDiscard, CheckpointKept, Reopened, Untouched, ShutOut, Refilling, UpgradeTypes, Roles, ColdFields, UpgradeFields
  <2> QED  BY <2>1, <2>2, <2>3, <2>4, <2>5
<1>12. CASE ClearOwnedVolume
  <2>1. UpgradeTypes'
    BY <1>12 DEF ClearOwnedVolume, UpgradeAt, UpgradeGoto, ProjectWhole, ProjectOwned, UpgradeTypes, Roles, ColdFields, UpgradeFields
  <2>2. BeforeUpgrade'
    BY <1>12 DEF ClearOwnedVolume, UpgradeAt, UpgradeGoto, ProjectWhole, ProjectOwned, UpgradeTypes, Roles, ColdFields, UpgradeFields, BeforeUpgrade, HalvesAgree, Reopened, Untouched, ShutOut, Refilling
  <2>3. CheckpointKept'
    BY <1>12 DEF ClearOwnedVolume, UpgradeAt, UpgradeGoto, ProjectWhole, ProjectOwned, UpgradeTypes, Roles, ColdFields, UpgradeFields, CheckpointKept, TakenTogether, BeforeUpgrade, HalvesAgree, Reopened, Untouched, ShutOut, Refilling
  <2>4. AfterDiscard'
    BY <1>12 DEF ClearOwnedVolume, UpgradeAt, UpgradeGoto, ProjectWhole, ProjectOwned, UpgradeTypes, Roles, ColdFields, UpgradeFields, AfterDiscard, CheckpointKept, Reopened, Untouched, ShutOut, Refilling
  <2>5. NeverServesHalfMigrated'
    BY <1>12 DEF ClearOwnedVolume, UpgradeAt, UpgradeGoto, ProjectWhole, ProjectOwned, NeverServesHalfMigrated, ServingUsers, BeforeUpgrade, AfterDiscard, CheckpointKept, Reopened, Untouched, ShutOut, Refilling, UpgradeTypes, Roles, ColdFields, UpgradeFields
  <2> QED  BY <2>1, <2>2, <2>3, <2>4, <2>5
<1>13. CASE FillVolume
  <2>1. UpgradeTypes'
    BY <1>13 DEF FillVolume, UpgradeAt, OtherRole, UpgradeTypes, Roles, ColdFields, UpgradeFields
  <2>2. BeforeUpgrade'
    BY <1>13 DEF FillVolume, UpgradeAt, OtherRole, UpgradeTypes, Roles, ColdFields, UpgradeFields, BeforeUpgrade, HalvesAgree, Reopened, Untouched, ShutOut, Refilling
  <2>3. CheckpointKept'
    BY <1>13 DEF FillVolume, UpgradeAt, OtherRole, UpgradeTypes, Roles, ColdFields, UpgradeFields, CheckpointKept, TakenTogether, BeforeUpgrade, HalvesAgree, Reopened, Untouched, ShutOut, Refilling
  <2>4. AfterDiscard'
    BY <1>13 DEF FillVolume, UpgradeAt, OtherRole, UpgradeTypes, Roles, ColdFields, UpgradeFields, AfterDiscard, CheckpointKept, Reopened, Untouched, ShutOut, Refilling
  <2>5. NeverServesHalfMigrated'
    BY <1>13 DEF FillVolume, UpgradeAt, OtherRole, NeverServesHalfMigrated, ServingUsers, BeforeUpgrade, AfterDiscard, CheckpointKept, Reopened, Untouched, ShutOut, Refilling, UpgradeTypes, Roles, ColdFields, UpgradeFields
  <2> QED  BY <2>1, <2>2, <2>3, <2>4, <2>5
<1>14. CASE ReopenStack
  <2>1. UpgradeTypes'
    BY <1>14 DEF ReopenStack, UpgradeAt, UpgradeGoto, StackServices, UpgradeTypes, Roles, ColdFields, UpgradeFields
  <2>2. BeforeUpgrade'
    BY <1>14 DEF ReopenStack, UpgradeAt, UpgradeGoto, StackServices, UpgradeTypes, Roles, ColdFields, UpgradeFields, BeforeUpgrade, HalvesAgree, Reopened, Untouched, ShutOut, Refilling
  <2>3. CheckpointKept'
    BY <1>14 DEF ReopenStack, UpgradeAt, UpgradeGoto, StackServices, UpgradeTypes, Roles, ColdFields, UpgradeFields, CheckpointKept, TakenTogether, BeforeUpgrade, HalvesAgree, Reopened, Untouched, ShutOut, Refilling
  <2>4. AfterDiscard'
    BY <1>14 DEF ReopenStack, UpgradeAt, UpgradeGoto, StackServices, UpgradeTypes, Roles, ColdFields, UpgradeFields, AfterDiscard, CheckpointKept, Reopened, Untouched, ShutOut, Refilling
  <2>5. NeverServesHalfMigrated'
    BY <1>14 DEF ReopenStack, UpgradeAt, UpgradeGoto, StackServices, NeverServesHalfMigrated, ServingUsers, BeforeUpgrade, AfterDiscard, CheckpointKept, Reopened, Untouched, ShutOut, Refilling, UpgradeTypes, Roles, ColdFields, UpgradeFields
  <2> QED  BY <2>1, <2>2, <2>3, <2>4, <2>5
<1>15. CASE VerifyRestored
  <2>1. UpgradeTypes'
    BY <1>15 DEF VerifyRestored, UpgradeAt, ServingUsers, UpgradeTypes, Roles, ColdFields, UpgradeFields
  <2>2. BeforeUpgrade'
    BY <1>15 DEF VerifyRestored, UpgradeAt, ServingUsers, UpgradeTypes, Roles, ColdFields, UpgradeFields, BeforeUpgrade, HalvesAgree, Reopened, Untouched, ShutOut, Refilling
  <2>3. CheckpointKept'
    BY <1>15 DEF VerifyRestored, UpgradeAt, ServingUsers, UpgradeTypes, Roles, ColdFields, UpgradeFields, CheckpointKept, TakenTogether, BeforeUpgrade, HalvesAgree, Reopened, Untouched, ShutOut, Refilling
  <2>4. AfterDiscard'
    BY <1>15 DEF VerifyRestored, UpgradeAt, ServingUsers, UpgradeTypes, Roles, ColdFields, UpgradeFields, AfterDiscard, CheckpointKept, Reopened, Untouched, ShutOut, Refilling
  <2>5. NeverServesHalfMigrated'
    BY <1>15 DEF VerifyRestored, UpgradeAt, ServingUsers, NeverServesHalfMigrated, BeforeUpgrade, AfterDiscard, CheckpointKept, Reopened, Untouched, ShutOut, Refilling, UpgradeTypes, Roles, ColdFields, UpgradeFields
  <2> QED  BY <2>1, <2>2, <2>3, <2>4, <2>5
<1>16. CASE RemoveProject
  <2>1. UpgradeTypes'
    BY <1>16 DEF RemoveProject, UpgradeAt, UpgradeGoto, NoVolumes, ProjectOwned, UpgradeTypes, Roles, ColdFields, UpgradeFields
  <2>2. BeforeUpgrade'
    BY <1>16 DEF RemoveProject, UpgradeAt, UpgradeGoto, NoVolumes, ProjectOwned, UpgradeTypes, Roles, ColdFields, UpgradeFields, BeforeUpgrade, HalvesAgree, Reopened, Untouched, ShutOut, Refilling
  <2>3. CheckpointKept'
    BY <1>16 DEF RemoveProject, UpgradeAt, UpgradeGoto, NoVolumes, ProjectOwned, UpgradeTypes, Roles, ColdFields, UpgradeFields, CheckpointKept, TakenTogether, BeforeUpgrade, HalvesAgree, Reopened, Untouched, ShutOut, Refilling
  <2>4. AfterDiscard'
    BY <1>16 DEF RemoveProject, UpgradeAt, UpgradeGoto, NoVolumes, ProjectOwned, UpgradeTypes, Roles, ColdFields, UpgradeFields, AfterDiscard, CheckpointKept, Reopened, Untouched, ShutOut, Refilling
  <2>5. NeverServesHalfMigrated'
    BY <1>16 DEF RemoveProject, UpgradeAt, UpgradeGoto, NoVolumes, ProjectOwned, NeverServesHalfMigrated, ServingUsers, BeforeUpgrade, AfterDiscard, CheckpointKept, Reopened, Untouched, ShutOut, Refilling, UpgradeTypes, Roles, ColdFields, UpgradeFields
  <2> QED  BY <2>1, <2>2, <2>3, <2>4, <2>5
<1>17. CASE UpgradeFails
  <2>1. UpgradeTypes'
    BY <1>17 DEF UpgradeFails, UpgradeGoto, Setback, UpgradeTypes, Roles, ColdFields, UpgradeFields
  <2>2. BeforeUpgrade'
    BY <1>17 DEF UpgradeFails, UpgradeGoto, Setback, UpgradeTypes, Roles, ColdFields, UpgradeFields, BeforeUpgrade, HalvesAgree, UpgradeAt, Reopened, Untouched, ShutOut, Refilling
  <2>3. CheckpointKept'
    BY <1>17 DEF UpgradeFails, UpgradeGoto, Setback, UpgradeTypes, Roles, ColdFields, UpgradeFields, CheckpointKept, TakenTogether, BeforeUpgrade, HalvesAgree, UpgradeAt, Reopened, Untouched, ShutOut, Refilling, AfterDiscard
  <2>4. AfterDiscard'
    BY <1>17 DEF UpgradeFails, UpgradeGoto, Setback, UpgradeTypes, Roles, ColdFields, UpgradeFields, AfterDiscard, CheckpointKept, UpgradeAt, Reopened, Untouched, ShutOut, Refilling
  <2>5. NeverServesHalfMigrated'
    BY <1>17 DEF UpgradeFails, UpgradeGoto, Setback, NeverServesHalfMigrated, ServingUsers, BeforeUpgrade, AfterDiscard, CheckpointKept, UpgradeAt, Reopened, Untouched, ShutOut, Refilling, UpgradeTypes, Roles, ColdFields, UpgradeFields
  <2> QED  BY <2>1, <2>2, <2>3, <2>4, <2>5
<1>18. CASE CloudWrites
  <2>1. UpgradeTypes'
    BY <1>18 DEF CloudWrites, ServingUsers, UpgradeTypes, Roles, ColdFields, UpgradeFields
  <2>2. BeforeUpgrade'
    BY <1>18 DEF CloudWrites, ServingUsers, UpgradeTypes, Roles, ColdFields, UpgradeFields, BeforeUpgrade, HalvesAgree, UpgradeAt, Reopened, Untouched, ShutOut, Refilling
  <2>3. CheckpointKept'
    BY <1>18 DEF CloudWrites, ServingUsers, UpgradeTypes, Roles, ColdFields, UpgradeFields, CheckpointKept, TakenTogether, BeforeUpgrade, HalvesAgree, UpgradeAt, Reopened, Untouched, ShutOut, Refilling
  <2>4. AfterDiscard'
    BY <1>18 DEF CloudWrites, ServingUsers, UpgradeTypes, Roles, ColdFields, UpgradeFields, AfterDiscard, CheckpointKept, UpgradeAt, Reopened, Untouched, ShutOut, Refilling
  <2>5. NeverServesHalfMigrated'
    BY <1>18 DEF CloudWrites, ServingUsers, NeverServesHalfMigrated, BeforeUpgrade, AfterDiscard, CheckpointKept, UpgradeAt, Reopened, Untouched, ShutOut, Refilling, UpgradeTypes, Roles, ColdFields, UpgradeFields
  <2> QED  BY <2>1, <2>2, <2>3, <2>4, <2>5
<1>19. CASE ArchiveRots
  <2>1. UpgradeTypes'
    <3>1. PICK r \in Roles : cold' = [cold EXCEPT !.archive[r] = {}]
      BY <1>19 DEF ArchiveRots
    <3>2. /\ DOMAIN cold' = ColdFields /\ cold'.digest = cold.digest /\ cold'.taken = cold.taken
          /\ cold' = [f \in ColdFields |-> cold'[f]] /\ cold'.archive = [cold.archive EXCEPT ![r] = {}]
      BY <3>1 DEF UpgradeTypes, ColdFields
    <3>3. DOMAIN cold'.archive = Roles /\ cold'.archive = [s \in Roles |-> cold'.archive[s]]
      BY <3>2 DEF UpgradeTypes, ColdFields
    <3> QED  BY <1>19, <3>2, <3>3 DEF ArchiveRots, UpgradeTypes, ColdFields
  <2>2. BeforeUpgrade'
    BY <1>19 DEF ArchiveRots, UpgradeAt, Setback, UpgradeTypes, Roles, ColdFields, UpgradeFields, BeforeUpgrade, HalvesAgree, Reopened, Untouched, ShutOut, Refilling
  <2>3. CheckpointKept'
    BY <1>19 DEF ArchiveRots, UpgradeAt, Setback, UpgradeTypes, Roles, ColdFields, UpgradeFields, CheckpointKept, TakenTogether, BeforeUpgrade, HalvesAgree, Reopened, Untouched, ShutOut, Refilling
  <2>4. AfterDiscard'
    BY <1>19 DEF ArchiveRots, UpgradeAt, Setback, UpgradeTypes, Roles, ColdFields, UpgradeFields, AfterDiscard, CheckpointKept, Reopened, Untouched, ShutOut, Refilling
  <2>5. NeverServesHalfMigrated'
    BY <1>19 DEF ArchiveRots, UpgradeAt, Setback, NeverServesHalfMigrated, ServingUsers, BeforeUpgrade, AfterDiscard, CheckpointKept, Reopened, Untouched, ShutOut, Refilling, UpgradeTypes, Roles, ColdFields, UpgradeFields
  <2> QED  BY <2>1, <2>2, <2>3, <2>4, <2>5
<1>20. CASE ForeignInProject
  <2>1. UpgradeTypes'
    BY <1>20 DEF ForeignInProject, Setback, UpgradeTypes, Roles, ColdFields, UpgradeFields
  <2>2. BeforeUpgrade'
    BY <1>20 DEF ForeignInProject, Setback, UpgradeTypes, Roles, ColdFields, UpgradeFields, BeforeUpgrade, HalvesAgree, UpgradeAt, Reopened, Untouched, ShutOut, Refilling
  <2>3. CheckpointKept'
    BY <1>20 DEF ForeignInProject, Setback, UpgradeTypes, Roles, ColdFields, UpgradeFields, CheckpointKept, TakenTogether, BeforeUpgrade, HalvesAgree, UpgradeAt, Reopened, Untouched, ShutOut, Refilling
  <2>4. AfterDiscard'
    BY <1>20 DEF ForeignInProject, Setback, UpgradeTypes, Roles, ColdFields, UpgradeFields, AfterDiscard, CheckpointKept, UpgradeAt, Reopened, Untouched, ShutOut, Refilling
  <2>5. NeverServesHalfMigrated'
    BY <1>20 DEF ForeignInProject, Setback, NeverServesHalfMigrated, ServingUsers, BeforeUpgrade, AfterDiscard, CheckpointKept, UpgradeAt, Reopened, Untouched, ShutOut, Refilling, UpgradeTypes, Roles, ColdFields, UpgradeFields
  <2> QED  BY <2>1, <2>2, <2>3, <2>4, <2>5
<1>21. CASE UNCHANGED upgradeVars
  BY <1>21 DEF upgradeVars, UpgradeTypes, Roles, ColdFields, UpgradeFields, BeforeUpgrade, HalvesAgree, UpgradeAt, Reopened, Untouched, ShutOut, Refilling, CheckpointKept, TakenTogether, AfterDiscard, NeverServesHalfMigrated, ServingUsers
<1> QED  BY <1>1, <1>2, <1>3, <1>4, <1>5, <1>6, <1>7, <1>8, <1>9, <1>10, <1>11, <1>12, <1>13, <1>14, <1>15, <1>16, <1>17, <1>18, <1>19, <1>20, <1>21 DEF UpgradeStep

(* What the invariant says of a stack that was reopened *)
LEMMA UpgradeSound == UpgradeInv => NeverServesHalfMigrated /\ RestoredIsCheckpoint
BY DEF UpgradeInv, CheckpointKept, AfterDiscard, RestoredIsCheckpoint, TakenTogether, Reopened

-----------------------------------------------------------------------------
(* The restoration of both services: WeKnora is down from the destruction of the project until
   the replay has removed the file again. *)
KeptFields == {"archive", "digest", "checkpoint", "journal"}
DualFields == {"pc", "left", "passed"}
DualTypes ==
  /\ DOMAIN vols = VolumeRoles /\ vols = [r \in VolumeRoles |-> vols[r]]
  /\ DOMAIN kept = KeptFields /\ kept = [f \in KeptFields |-> kept[f]] /\ kept.journal \in BOOLEAN
  /\ DOMAIN dual = DualFields /\ dual = [f \in DualFields |-> dual[f]]
RagDown ==
  {"checkpoint", "controls", "create", "restore", "stale", "cloud", "identify", "fence", "withdraw",
   "remove", "reopen", "denied"}
NoteGone == {"scan", "destroy", "reopen", "denied", "probe", "reconcile"}
DualKnown ==
  /\ dual.pc \in NoteGone => "note" \notin vols.files
  /\ dual.pc \in RagDown => "wk-app" \notin running
  /\ kept.journal => dual.pc \in {"destroy", "probe", "reconcile", "ended"} \cup RagDown
  /\ kept.journal => "wk-app" \notin running \/ "note" \notin vols.files
DualInv == DualTypes /\ DualKnown

(* An empty project is where the drill begins. *)
LEMMA DualBegins == DualInit => DualInv
BY DEF DualInit, DualInv, DualTypes, EmptyVolumes, VolumeRoles, KeptFields, DualFields, DualKnown, NoteGone,
   RagDown

(* Every step of the drill, a failure, a damaged archive and a foreign resource keep the invariant. *)
LEMMA DualGoesOn ==
  ASSUME DualInv, [DualStep]_dualVars
  PROVE  DualInv'
<1> USE DEF DualInv
<1>1. CASE PrepareDual
  <2>1. DualTypes'
    BY <1>1 DEF PrepareDual, Advance, OnlyDrill, SameData, DualUnoccupied, DualOwned, DualTypes, VolumeRoles, KeptFields, DualFields
  <2>2. DualKnown'
    BY <1>1 DEF PrepareDual, Advance, OnlyDrill, SameData, DualUnoccupied, DualOwned, DualTypes, VolumeRoles, KeptFields, DualFields, DualKnown, RagDown, NoteGone
  <2> QED  BY <2>1, <2>2
<1>2. CASE FirstPassFails
  <2>1. DualTypes'
    BY <1>2 DEF FirstPassFails, Advance, SameData, DualWhole, DualOwned, DualUnoccupied, DualDatabases, DualTypes, VolumeRoles, KeptFields, DualFields
  <2>2. DualKnown'
    BY <1>2 DEF FirstPassFails, Advance, SameData, DualWhole, DualOwned, DualUnoccupied, DualDatabases, DualTypes, VolumeRoles, KeptFields, DualFields, DualKnown, RagDown, NoteGone
  <2> QED  BY <2>1, <2>2
<1>3. CASE BringUp
  <2>1. DualTypes'
    BY <1>3 DEF BringUp, Advance, SameData, DualOwned, DualWhole, DualServices, DualApps, DualDatabases, DualTypes, VolumeRoles, KeptFields, DualFields
  <2>2. DualKnown'
    BY <1>3 DEF BringUp, Advance, SameData, DualOwned, DualWhole, DualServices, DualApps, DualDatabases, DualTypes, VolumeRoles, KeptFields, DualFields, DualKnown, RagDown, NoteGone
  <2> QED  BY <2>1, <2>2
<1>4. CASE Bootstrap
  <2>1. DualTypes'
    BY <1>4 DEF Bootstrap, Advance, DualWhole, DualOwned, DualTypes, VolumeRoles, KeptFields, DualFields
  <2>2. DualKnown'
    BY <1>4 DEF Bootstrap, Advance, DualWhole, DualOwned, DualTypes, VolumeRoles, KeptFields, DualFields, DualKnown, RagDown, NoteGone
  <2> QED  BY <2>1, <2>2
<1>5. CASE DualBaseline
  <2>1. DualTypes'
    BY <1>5 DEF DualBaseline, Advance, OnlyDrill, SameData, DualTypes, VolumeRoles, KeptFields, DualFields
  <2>2. DualKnown'
    BY <1>5 DEF DualBaseline, Advance, OnlyDrill, SameData, DualTypes, VolumeRoles, KeptFields, DualFields, DualKnown, RagDown, NoteGone
  <2> QED  BY <2>1, <2>2
<1>6. CASE StopApps
  <2>1. DualTypes'
    BY <1>6 DEF StopApps, Advance, SameData, DualWhole, DualOwned, DualApps, DualDatabases, DualTypes, VolumeRoles, KeptFields, DualFields
  <2>2. DualKnown'
    BY <1>6 DEF StopApps, Advance, SameData, DualWhole, DualOwned, DualApps, DualDatabases, DualTypes, VolumeRoles, KeptFields, DualFields, DualKnown, RagDown, NoteGone
  <2> QED  BY <2>1, <2>2
<1>7. CASE DumpDatabases
  <2>1. DualTypes'
    BY <1>7 DEF DumpDatabases, Advance, OnlyDrill, SameData, DualDatabases, DualTypes, VolumeRoles, KeptFields, DualFields
  <2>2. DualKnown'
    BY <1>7 DEF DumpDatabases, Advance, OnlyDrill, SameData, DualDatabases, DualTypes, VolumeRoles, KeptFields, DualFields, DualKnown, RagDown, NoteGone
  <2> QED  BY <2>1, <2>2
<1>8. CASE StopDualDatabases
  <2>1. DualTypes'
    BY <1>8 DEF StopDualDatabases, Advance, SameData, DualWhole, DualOwned, DualTypes, VolumeRoles, KeptFields, DualFields
  <2>2. DualKnown'
    BY <1>8 DEF StopDualDatabases, Advance, SameData, DualWhole, DualOwned, DualTypes, VolumeRoles, KeptFields, DualFields, DualKnown, RagDown, NoteGone
  <2> QED  BY <2>1, <2>2
<1>9. CASE ArchiveRole
  <2>1. DualTypes'
    BY <1>9 DEF ArchiveRole, DualTypes, VolumeRoles, KeptFields, DualFields
  <2>2. DualKnown'
    BY <1>9 DEF ArchiveRole, DualTypes, VolumeRoles, KeptFields, DualFields, DualKnown, RagDown, NoteGone
  <2> QED  BY <2>1, <2>2
<1>10. CASE WriteCheckpoint
  <2>1. DualTypes'
    BY <1>10 DEF WriteCheckpoint, Advance, DualTypes, VolumeRoles, KeptFields, DualFields
  <2>2. DualKnown'
    BY <1>10 DEF WriteCheckpoint, Advance, DualTypes, VolumeRoles, KeptFields, DualFields, DualKnown, RagDown, NoteGone
  <2> QED  BY <2>1, <2>2
<1>11. CASE StartAgain
  <2>1. DualTypes'
    BY <1>11 DEF StartAgain, Advance, SameData, DualWhole, DualOwned, DualServices, DualApps, DualDatabases, DualTypes, VolumeRoles, KeptFields, DualFields
  <2>2. DualKnown'
    BY <1>11 DEF StartAgain, Advance, SameData, DualWhole, DualOwned, DualServices, DualApps, DualDatabases, DualTypes, VolumeRoles, KeptFields, DualFields, DualKnown, RagDown, NoteGone
  <2> QED  BY <2>1, <2>2
<1>12. CASE DeleteNote
  <2>1. DualTypes'
    BY <1>12 DEF DeleteNote, Advance, CloudAnswers, DualTypes, VolumeRoles, KeptFields, DualFields
  <2>2. DualKnown'
    BY <1>12 DEF DeleteNote, Advance, CloudAnswers, DualTypes, VolumeRoles, KeptFields, DualFields, DualKnown, RagDown, NoteGone
  <2> QED  BY <2>1, <2>2
<1>13. CASE ScanSource
  <2>1. DualTypes'
    BY <1>13 DEF ScanSource, SourceAllows, CloudAnswers, DualServices, DualApps, DualDatabases, DualTypes, VolumeRoles, KeptFields, DualFields
  <2>2. DualKnown'
    BY <1>13 DEF ScanSource, SourceAllows, CloudAnswers, DualServices, DualApps, DualDatabases, DualTypes, VolumeRoles, KeptFields, DualFields, DualKnown, RagDown, NoteGone
  <2> QED  BY <2>1, <2>2
<1>14. CASE WriteJournal
  <2>1. DualTypes'
    BY <1>14 DEF WriteJournal, Advance, DualTypes, VolumeRoles, KeptFields, DualFields
  <2>2. DualKnown'
    BY <1>14 DEF WriteJournal, Advance, DualTypes, VolumeRoles, KeptFields, DualFields, DualKnown, RagDown, NoteGone
  <2> QED  BY <2>1, <2>2
<1>15. CASE DestroyDual
  <2>1. DualTypes'
    BY <1>15 DEF DestroyDual, Advance, DualWhole, DualOwned, EmptyVolumes, DualTypes, VolumeRoles, KeptFields, DualFields
  <2>2. DualKnown'
    BY <1>15 DEF DestroyDual, Advance, DualWhole, DualOwned, EmptyVolumes, DualTypes, VolumeRoles, KeptFields, DualFields, DualKnown, RagDown, NoteGone
  <2> QED  BY <2>1, <2>2
<1>16. CASE VerifyDualCheckpoint
  <2>1. DualTypes'
    BY <1>16 DEF VerifyDualCheckpoint, Advance, OnlyDrill, SameData, DualTypes, VolumeRoles, KeptFields, DualFields
  <2>2. DualKnown'
    BY <1>16 DEF VerifyDualCheckpoint, Advance, OnlyDrill, SameData, DualTypes, VolumeRoles, KeptFields, DualFields, DualKnown, RagDown, NoteGone
  <2> QED  BY <2>1, <2>2
<1>17. CASE RestoreDualControls
  <2>1. DualTypes'
    BY <1>17 DEF RestoreDualControls, Advance, OnlyDrill, SameData, DualOwned, DualTypes, VolumeRoles, KeptFields, DualFields
  <2>2. DualKnown'
    BY <1>17 DEF RestoreDualControls, Advance, OnlyDrill, SameData, DualOwned, DualTypes, VolumeRoles, KeptFields, DualFields, DualKnown, RagDown, NoteGone
  <2> QED  BY <2>1, <2>2
<1>18. CASE CreateStopped
  <2>1. DualTypes'
    BY <1>18 DEF CreateStopped, SameData, DualOwned, DualTypes, VolumeRoles, KeptFields, DualFields
  <2>2. DualKnown'
    BY <1>18 DEF CreateStopped, SameData, DualOwned, DualTypes, VolumeRoles, KeptFields, DualFields, DualKnown, RagDown, NoteGone
  <2> QED  BY <2>1, <2>2
<1>19. CASE RestoreRole
  <2>1. DualTypes'
    BY <1>19 DEF RestoreRole, DualApps, DualTypes, VolumeRoles, KeptFields, DualFields
  <2>2. DualKnown'
    BY <1>19 DEF RestoreRole, DualApps, DualTypes, VolumeRoles, KeptFields, DualFields, DualKnown, RagDown, NoteGone
  <2> QED  BY <2>1, <2>2
<1>20. CASE StartDatabases
  <2>1. DualTypes'
    BY <1>20 DEF StartDatabases, Advance, SameData, DualWhole, DualOwned, DualDatabases, DualTypes, VolumeRoles, KeptFields, DualFields
  <2>2. DualKnown'
    BY <1>20 DEF StartDatabases, Advance, SameData, DualWhole, DualOwned, DualDatabases, DualTypes, VolumeRoles, KeptFields, DualFields, DualKnown, RagDown, NoteGone
  <2> QED  BY <2>1, <2>2
<1>21. CASE StaleRestored
  <2>1. DualTypes'
    BY <1>21 DEF StaleRestored, Advance, OnlyDrill, SameData, DualApps, DualTypes, VolumeRoles, KeptFields, DualFields
  <2>2. DualKnown'
    BY <1>21 DEF StaleRestored, Advance, OnlyDrill, SameData, DualApps, DualTypes, VolumeRoles, KeptFields, DualFields, DualKnown, RagDown, NoteGone
  <2> QED  BY <2>1, <2>2
<1>22. CASE StartCloud
  <2>1. DualTypes'
    BY <1>22 DEF StartCloud, Advance, SameData, DualWhole, DualOwned, DualTypes, VolumeRoles, KeptFields, DualFields
  <2>2. DualKnown'
    BY <1>22 DEF StartCloud, Advance, SameData, DualWhole, DualOwned, DualTypes, VolumeRoles, KeptFields, DualFields, DualKnown, RagDown, NoteGone
  <2> QED  BY <2>1, <2>2
<1>23. CASE CheckIdentities
  <2>1. DualTypes'
    BY <1>23 DEF CheckIdentities, Advance, OnlyDrill, SameData, SourceAllows, CloudAnswers, DualTypes, VolumeRoles, KeptFields, DualFields
  <2>2. DualKnown'
    BY <1>23 DEF CheckIdentities, Advance, OnlyDrill, SameData, SourceAllows, CloudAnswers, DualTypes, VolumeRoles, KeptFields, DualFields, DualKnown, RagDown, NoteGone
  <2> QED  BY <2>1, <2>2
<1>24. CASE StopPublication
  <2>1. DualTypes'
    BY <1>24 DEF StopPublication, Advance, CloudAnswers, DualTypes, VolumeRoles, KeptFields, DualFields
  <2>2. DualKnown'
    BY <1>24 DEF StopPublication, Advance, CloudAnswers, DualTypes, VolumeRoles, KeptFields, DualFields, DualKnown, RagDown, NoteGone
  <2> QED  BY <2>1, <2>2
<1>25. CASE WithdrawNote
  <2>1. DualTypes'
    BY <1>25 DEF WithdrawNote, Advance, CloudAnswers, SourceAllows, DualTypes, VolumeRoles, KeptFields, DualFields
  <2>2. DualKnown'
    BY <1>25 DEF WithdrawNote, Advance, CloudAnswers, SourceAllows, DualTypes, VolumeRoles, KeptFields, DualFields, DualKnown, RagDown, NoteGone
  <2> QED  BY <2>1, <2>2
<1>26. CASE RemoveStale
  <2>1. DualTypes'
    BY <1>26 DEF RemoveStale, Advance, CloudAnswers, DualTypes, VolumeRoles, KeptFields, DualFields
  <2>2. DualKnown'
    BY <1>26 DEF RemoveStale, Advance, CloudAnswers, DualTypes, VolumeRoles, KeptFields, DualFields, DualKnown, RagDown, NoteGone
  <2> QED  BY <2>1, <2>2
<1>27. CASE ResumePublication
  <2>1. DualTypes'
    BY <1>27 DEF ResumePublication, Advance, CloudAnswers, DualTypes, VolumeRoles, KeptFields, DualFields
  <2>2. DualKnown'
    BY <1>27 DEF ResumePublication, Advance, CloudAnswers, DualTypes, VolumeRoles, KeptFields, DualFields, DualKnown, RagDown, NoteGone
  <2> QED  BY <2>1, <2>2
<1>28. CASE StartRag
  <2>1. DualTypes'
    BY <1>28 DEF StartRag, Advance, SameData, DualWhole, DualOwned, SourceAllows, CloudAnswers, DualTypes, VolumeRoles, KeptFields, DualFields
  <2>2. DualKnown'
    BY <1>28 DEF StartRag, Advance, SameData, DualWhole, DualOwned, SourceAllows, CloudAnswers, DualTypes, VolumeRoles, KeptFields, DualFields, DualKnown, RagDown, NoteGone
  <2> QED  BY <2>1, <2>2
<1>29. CASE OldTokenDenied
  <2>1. DualTypes'
    BY <1>29 DEF OldTokenDenied, Advance, OnlyDrill, SameData, DualTypes, VolumeRoles, KeptFields, DualFields
  <2>2. DualKnown'
    BY <1>29 DEF OldTokenDenied, Advance, OnlyDrill, SameData, DualTypes, VolumeRoles, KeptFields, DualFields, DualKnown, RagDown, NoteGone
  <2> QED  BY <2>1, <2>2
<1>30. CASE RemoveDual
  <2>1. DualTypes'
    BY <1>30 DEF RemoveDual, DualWhole, DualOwned, EmptyVolumes, DualTypes, VolumeRoles, KeptFields, DualFields
  <2>2. DualKnown'
    BY <1>30 DEF RemoveDual, DualWhole, DualOwned, EmptyVolumes, DualTypes, VolumeRoles, KeptFields, DualFields, DualKnown, RagDown, NoteGone
  <2> QED  BY <2>1, <2>2
<1>31. CASE DualFails
  <2>1. DualTypes'
    BY <1>31 DEF DualFails, OnlyDrill, SameData, DualTypes, VolumeRoles, KeptFields, DualFields
  <2>2. DualKnown'
    BY <1>31 DEF DualFails, OnlyDrill, SameData, DualTypes, VolumeRoles, KeptFields, DualFields, DualKnown, RagDown, NoteGone
  <2> QED  BY <2>1, <2>2
<1>32. CASE ArchiveDamaged
  <2>1. DualTypes'
    BY <1>32 DEF ArchiveDamaged, OneDualFault, DualTypes, VolumeRoles, KeptFields, DualFields
  <2>2. DualKnown'
    BY <1>32 DEF ArchiveDamaged, OneDualFault, DualTypes, VolumeRoles, KeptFields, DualFields, DualKnown, RagDown, NoteGone
  <2> QED  BY <2>1, <2>2
<1>33. CASE ForeignInDual
  <2>1. DualTypes'
    BY <1>33 DEF ForeignInDual, OneDualFault, DualTypes, VolumeRoles, KeptFields, DualFields
  <2>2. DualKnown'
    BY <1>33 DEF ForeignInDual, OneDualFault, DualTypes, VolumeRoles, KeptFields, DualFields, DualKnown, RagDown, NoteGone
  <2> QED  BY <2>1, <2>2
<1>34. CASE UNCHANGED dualVars
  BY <1>34 DEF dualVars, DualTypes, VolumeRoles, KeptFields, DualFields, DualKnown, RagDown, NoteGone
<1> QED  BY <1>1, <1>2, <1>3, <1>4, <1>5, <1>6, <1>7, <1>8, <1>9, <1>10, <1>11, <1>12, <1>13, <1>14, <1>15, <1>16, <1>17, <1>18, <1>19, <1>20, <1>21, <1>22, <1>23, <1>24, <1>25, <1>26, <1>27, <1>28, <1>29, <1>30, <1>31, <1>32, <1>33, <1>34 DEF DualStep

(* What the invariant says of the file whose deletion was journalled *)
LEMMA DualSound == DualInv => DeletedStaysUnreadable
BY DEF DualInv, DualKnown, DeletedStaysUnreadable, NoteReadable, SourceAllows

-----------------------------------------------------------------------------
(* All the tools. *)
toolAndStates == <<tool, toolStates>>

(* A step of the tools is a step of each tool, or leaves its state alone. *)
LEMMA EveryToolSteps ==
  ASSUME [OperationsStep]_toolAndStates
  PROVE  /\ [DownloadStep]_downloadVars /\ [RebindStep]_rebindVars /\ [DrillStep]_drillVars
         /\ [FixtureStep]_fixtureVars /\ [PilotStep]_pilotVars /\ [DriverStep]_driverVars
         /\ [SmokeStep]_smokeVars /\ [LanStep]_lanVars /\ [LoadStep]_loadVars /\ [WatchStep]_watchVars
         /\ [NormalStep]_restoreVars /\ [UpgradeStep]_upgradeVars /\ [DualStep]_dualVars
         /\ [RecoveryNext]_recoveryVars
<1>1. CASE UNCHANGED toolAndStates
  BY <1>1 DEF toolAndStates, toolStates
<1>2. CASE OperationsStep
  BY <1>2, Zenon DEF OperationsStep, OthersRest
<1> QED  BY <1>1, <1>2

(* The invariant of all the tools *)
OperationsInv ==
  /\ DownloadInv /\ RebindInv /\ DrillInv /\ FixtureInv /\ PilotInv /\ DriverInv /\ SmokeInv
  /\ LanInv /\ LoadInv /\ WatchInv /\ NormalInv /\ UpgradeInv /\ DualInv
  /\ RecoveryInv

(* Every tool's invariant holds while any of the tools is at work. *)
THEOREM OperationsInvariant == OperationsSpec => []OperationsInv
<1>1. OperationsInit => OperationsInv
  BY DownloadBegins, RebindBegins, DrillBegins, FixtureBegins, PilotBegins, DriverBegins, SmokeBegins,
     LanBegins, LoadBegins, WatchBegins, NormalBegins, UpgradeBegins, DualBegins,
     RecoveryBegins
     DEF OperationsInit, OperationsInv
<1>2. OperationsInv /\ [OperationsStep]_<<tool, toolStates>> => OperationsInv'
  <2> SUFFICES ASSUME OperationsInv, [OperationsStep]_toolAndStates PROVE OperationsInv'
    BY DEF toolAndStates
  <2>1. /\ [DownloadStep]_downloadVars /\ [RebindStep]_rebindVars /\ [DrillStep]_drillVars
        /\ [FixtureStep]_fixtureVars /\ [PilotStep]_pilotVars /\ [DriverStep]_driverVars
        /\ [SmokeStep]_smokeVars /\ [LanStep]_lanVars /\ [LoadStep]_loadVars /\ [WatchStep]_watchVars
        /\ [NormalStep]_restoreVars /\ [UpgradeStep]_upgradeVars /\ [DualStep]_dualVars
        /\ [RecoveryNext]_recoveryVars
    BY EveryToolSteps
  <2> QED
    BY <2>1, DownloadGoesOn, RebindGoesOn, DrillGoesOn, FixtureGoesOn, PilotGoesOn, DriverGoesOn,
       SmokeGoesOn, LanGoesOn, LoadGoesOn, WatchGoesOn, NormalGoesOn, UpgradeGoesOn, DualGoesOn,
       RecoveryGoesOn
    DEF OperationsInv
<1> QED  BY <1>1, <1>2, PTL DEF OperationsSpec

(* A journal whose last record reached its head holds one linear history, a COMPLETE checkpoint
   holds both services at one instant, and once the sources are reported reconciled WeKnora
   publishes no file that the retained history withdrew, unless it was approved again. *)
THEOREM RecoveryForgetsNothingCorrect == OperationsSpec => []RecoveryForgetsNothing
<1>1. OperationsInv => RecoveryForgetsNothing
  BY RecoverySound DEF OperationsInv, RecoveryForgetsNothing
<1> QED  BY <1>1, OperationsInvariant, PTL

(* Whatever a killed or failing tool leaves behind can still be found: a completed restore drill
   leaves nothing, a retained resource is in its report, the fixture's scratch files outlive what
   they remove, and the pilot's accounts stay removable and are reported. *)
THEOREM LeftoversAccountedCorrect == OperationsSpec => []LeftoversAccounted
<1>1. OperationsInv => LeftoversAccounted
  BY DEF OperationsInv, LeftoversAccounted, DrillInv, FixtureInv, PilotInv
<1> QED  BY <1>1, OperationsInvariant, PTL

(* No restored task runs before the fence, no reader before its journal, no employee before the
   groups, and nothing is removed under a PUT that is in flight. *)
THEOREM GuardsComeFirstCorrect == OperationsSpec => []GuardsComeFirst
<1>1. OperationsInv => GuardsComeFirst
  BY FixtureGranted, PutsOver DEF OperationsInv, GuardsComeFirst, DrillInv, FixtureInv
<1> QED  BY <1>1, OperationsInvariant, PTL

(* What the pairing, rotation, rebind and abort tools reported stays true, and the binding that
   a pending operation needs stays. *)
THEOREM ReportsHoldCorrect == OperationsSpec => []ReportsHold
<1>1. OperationsInv => ReportsHold
  BY PendingKept DEF OperationsInv, ReportsHold, DriverInv, RebindInv
<1> QED  BY <1>1, OperationsInvariant, PTL

(* What is opened after a normal restore, a failed upgrade or a restoration of both services is the
   checkpoint, and no deleted file, half-migrated table or later share with it. *)
THEOREM OpenedAsRestoredCorrect == OperationsSpec => []OpenedAsRestored
<1>1. OperationsInv => OpenedAsRestored
  BY NormalSound, UpgradeSound, DualSound DEF OperationsInv, OpenedAsRestored
<1> QED  BY <1>1, OperationsInvariant, PTL

(* A rotation that reported success lasts whatever helper was still waiting, its backup was complete
   before the first change, and only the gateway's own address is trusted besides foreign ones. *)
THEOREM AddressChangesLastCorrect == OperationsSpec => []AddressChangesLast
<1>1. OperationsInv => AddressChangesLast
  BY LanSound DEF OperationsInv, AddressChangesLast
<1> QED  BY <1>1, OperationsInvariant, PTL

(* Every sample of the load is of its own task and hops, every credential is revoked, and the watch
   samples one container of its own and leaves a rival's marker. *)
THEOREM MeasurementsSoundCorrect == OperationsSpec => []MeasurementsSound
<1>1. OperationsInv => MeasurementsSound
  BY LoadSound, WatchSound DEF OperationsInv, MeasurementsSound
<1> QED  BY <1>1, OperationsInvariant, PTL

(* A repeated download fetches no block twice, and a repeated rebind resumes no sender that went
   on without it. *)
THEOREM RepeatedToolGoesOnCorrect == OperationsSpec => RepeatedToolGoesOn
<1>1. OperationsInv /\ [OperationsStep]_<<tool, toolStates>> =>
        [FetchedBlocksKept /\ ResumesWhereItStopped]_<<tool, toolStates>>
  <2> SUFFICES ASSUME OperationsInv, [OperationsStep]_toolAndStates
               PROVE  FetchedBlocksKept /\ ResumesWhereItStopped
    BY DEF toolAndStates
  <2>1. [DownloadStep]_downloadVars /\ [RebindStep]_rebindVars
    BY EveryToolSteps
  <2> QED  BY <2>1, DownloadGoesOn, RebindGoesOn DEF OperationsInv
<1> QED  BY <1>1, OperationsInvariant, PTL DEF OperationsSpec, RepeatedToolGoesOn
=============================================================================
