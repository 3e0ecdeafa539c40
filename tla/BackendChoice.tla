---------------------------- MODULE BackendChoice ----------------------------
(***************************************************************************)
(* Which credential store a run uses (credstore_backend.go), and the store  *)
(* the command in a message leads to.  A machine m says what its flag, its  *)
(* environment and its config.toml ask for, its operating system, and how   *)
(* the Secret Service answers a probe.                                      *)
(***************************************************************************)

Backends == {"keychain", "secret-service", "file", "aws-cli-cache"}
Settings == Backends \cup {"unset", "auto", "typo"}
Systems  == {"darwin", "linux", "other"}
Probes   == {"available", "noBus", "notOwned", "locked", "error"}
Machines == [flag : Settings, env : Settings, file : Settings,
             goos : Systems, probe : Probes]

\* chooseBackendSetting: flag > BMCP_BACKEND > config.toml > auto.
Setting(m) ==
  IF m.flag # "unset" THEN m.flag ELSE IF m.env # "unset" THEN m.env ELSE m.file
FromFlag(m) == m.flag # "unset"

Reachable(m)  == m.probe \notin {"noBus", "notOwned"}
Openable(m, ui) == m.probe = "available" \/ (m.probe = "locked" /\ ui)

\* On Linux only a missing bus or an unowned name falls back to plaintext.
Preferred(m, ui) ==
  CASE m.goos = "darwin" -> "keychain"
    [] m.goos = "linux"  -> IF Reachable(m) THEN "secret-service" ELSE "aws-cli-cache"
    [] OTHER             -> "aws-cli-cache"

\* The store, and whether it can be used: "ok", "locked" until someone
\* approves, or "refused", which no login repairs.
Usability(m, name, ui) ==
  CASE name = "keychain" -> IF m.goos = "darwin" THEN "ok" ELSE "refused"
    [] name = "secret-service" ->
         IF m.goos # "linux" \/ ~Reachable(m) THEN "refused"
         ELSE IF Openable(m, ui) THEN "ok" ELSE "locked"
    [] name \in {"file", "aws-cli-cache"} -> "ok"
    [] OTHER -> "refused"

resolveBackend(m, ui) ==
  LET name == IF Setting(m) \in {"unset", "auto"} THEN Preferred(m, ui) ELSE Setting(m)
  IN [name |-> name, use |-> Usability(m, name, ui)]

\* ssoLoginCommand and Remedy: the backend is named where the flag chose it.
RemedyFlag(m, backend) == IF FromFlag(m) THEN backend ELSE "unset"
=============================================================================
