----------------------------- MODULE MCStartup -----------------------------
EXTENDS Startup, TLC

AllKeys == {"browser_backend", "browser_path", "driver_path", "driver_cache_dir",
            "driver_auto_download", "proxy"}

KeyValues == "browser_backend" :> {"auto", "geckodriver"} @@ "browser_path" :> {"", "firefox"}
  @@ "driver_path" :> {"", "mine"} @@ "driver_cache_dir" :> {"", "data"}
  @@ "driver_auto_download" :> {"true", "false"} @@ "proxy" :> {"", "p"}

KeyDefaults == [k \in AllKeys |-> CASE k = "browser_backend" -> "auto"
                                    [] k = "driver_auto_download" -> "true"
                                    [] OTHER -> ""]

\* The file as shipped, and one with a driver and a proxy.
Shipped == [[k \in AllKeys |-> KeyDefaults[k]] EXCEPT !["proxy"] = Absent]
Edited  == [Shipped EXCEPT !["driver_path"] = "mine", !["proxy"] = "p", !["driver_cache_dir"] = Null]
Mistyped == [Shipped EXCEPT !["driver_auto_download"] = Wrong]
\* The proxy block of the shipped file with only its first line uncommented.
HalfUncommented == [Shipped EXCEPT !["proxy"] = Null]

Nothing  == [k \in AllKeys |-> ""]
Settings == {[KeyDefaults EXCEPT !["browser_backend"] = "geckodriver"],
             [KeyDefaults EXCEPT !["driver_cache_dir"] = "data", !["proxy"] = "p"]}

UsualFiles == {Missing, Edited, Mistyped}
SomeOutside == {Nothing, [Nothing EXCEPT !["driver_cache_dir"] = "data"]}
CarelessFiles == {Shipped, HalfUncommented}

-----------------------------------------------------------------------------
(* Two scenarios, as the files and the drivers meet in the configuration   *)
(* of the process only: all that can happen to the files, and all that can *)
(* happen to the drivers under a configuration that /settings changes.     *)

VARIABLE scenario

MCInit ==
  /\ Init
  /\ scenario \in {"files", "drivers"}
  /\ scenario = "drivers" => {cwdFile, exeFile} = {Missing} /\ {env, flags} = {Nothing}
  /\ hasFirefox /\ (scenario = "files" => hasChrome)

MCNext ==
  /\ \/ scenario = "files" /\ (Inside(Process) \/ Outward(Edit \/ Save \/ Crash))
     \/ scenario = "drivers" /\ Next /\ ~Edit
  /\ UNCHANGED scenario

MCSpec == MCInit /\ [][MCNext]_<<vars, scenario>>
=============================================================================
