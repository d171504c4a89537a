----------------------------- MODULE MCSnapshots -----------------------------
(***************************************************************************)
(* Small instances of Snapshots.                                           *)
(***************************************************************************)
EXTENDS Snapshots

MCConfig(on, load, save) == [persistence |-> on, load |-> load, save |-> save]

MCDefault == {MCConfig(TRUE, "OnStartup", "OnShutdown")}

\* The default, no persistence, and each strategy by itself.
MCConfigs ==
    MCDefault \cup {MCConfig(FALSE, "OnStartup", "OnShutdown"),
                   MCConfig(TRUE, "Manual", "OnShutdown"),
                   MCConfig(TRUE, "OnStartup", "Scheduled")}
==============================================================================
