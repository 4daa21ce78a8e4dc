-------------------------- MODULE ConfigResolution --------------------------
(***************************************************************************)
(* How the settings of the package feature are resolved from flags, config *)
(* file and defaults, what the exporter reports of them and what it reads. *)
(*                                                                         *)
(* A setting is a member of a small set, "" where it is empty or absent.   *)
(* The default of a path is declared twice: for the flag, and where the    *)
(* file is opened.  Durations: "0s" is none, "x" does not parse.           *)
(***************************************************************************)
EXTENDS Naturals

Paths     == {"reboot_required_path", "status_database_path", "apt_lists_path"}
Timeout   == "command_timeout"
Settings  == Paths \cup {Timeout}

\* The defaults of the flags: DefaultCommandTimeout, DefaultRebootRequiredPath,
\* DefaultStatusDatabasePath and DefaultAPTListsPath.
Default == [command_timeout      |-> "15s",
            reboot_required_path |-> "/run/reboot-required",
            status_database_path |-> "/var/lib/dpkg/status",
            apt_lists_path       |-> "/var/lib/apt/lists"]

\* Mutant: the marker moves in one of the two declarations.
markerMoved == "/var/run/reboot-required"

\* The defaults of what is opened.
defaultRebootRequiredPath == "/run/reboot-required"
defaultStatusDatabasePath == "/var/lib/dpkg/status"
defaultAPTListsPath       == "/var/lib/apt/lists"

\* A flag that is not given has its default.
FlagSettings == {flags \in [Paths -> {"", "flag"} \cup {Default[p] : p \in Paths}] :
                   \A p \in Paths : flags[p] \in {"", "flag", Default[p]}}
FlagTimeouts == {"0s", Default[Timeout], "20s"}
FileSettings == {file \in [Paths -> {"", "file"} \cup {Default[p] : p \in Paths}] :
                   \A p \in Paths : file[p] \in {"", "file", Default[p]}}
FileTimeouts == {"", "0s", Default[Timeout], "x"}

\* The file counts for what the flags leave at its default.
Overridable(fileValue, value, default) == fileValue # "" /\ value = default

\* The file is loaded, missing, or cannot be read or parsed.  The timeout is
\* looked at first, and on any error the caller gets the flags as they were.
ResolveFeatureConfig(flags, load, file) ==
  LET overridden(s) == Overridable(file[s], flags[s], Default[s])
      resolved == [s \in Settings |-> IF overridden(s) THEN file[s] ELSE flags[s]]
      failed == overridden(Timeout) /\ file[Timeout] = "x"
  IN [config |-> IF load = "loaded" /\ ~failed THEN resolved ELSE flags,
      err    |-> load = "broken" \/ (load = "loaded" /\ failed)]

normalizeString(value, fallback) == IF value = "" THEN fallback ELSE value

\* What the runtime configuration shows of a path.
FeatureRuntimeConfigEntries(config) ==
  [p \in Paths |-> normalizeString(config[p], Default[p])]

\* What RebootRequired and each function of CommandSource open.
Opened(config) ==
  LET orDefault(path, default) == IF path = "" THEN default ELSE path
  IN [reboot_required_path |->
        orDefault(config["reboot_required_path"], defaultRebootRequiredPath),
      status_database_path |->
        orDefault(config["status_database_path"], defaultStatusDatabasePath),
      apt_lists_path |->
        orDefault(config["apt_lists_path"], defaultAPTListsPath)]
=============================================================================
